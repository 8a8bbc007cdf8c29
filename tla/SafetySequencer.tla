--------------------------- MODULE SafetySequencer ---------------------------
(***************************************************************************)
(* agent_ros/safety/sequencer.py: the boundary that orders activation      *)
(* commands against emergency stops. One condition lock protects all state *)
(* and one worker thread executes queued commands outside that lock.       *)
(*                                                                         *)
(* An action is one region executed under the lock, or one unlocked step   *)
(* another thread can observe. Every invocation of an operation is named   *)
(* by a constant, so a thread that submits twice is two calls; permits are *)
(* the generation they were issued for, so two calls that share a permit   *)
(* are two calls holding equal permits.                                    *)
(***************************************************************************)
EXTENDS Naturals, SequencesExt

CONSTANTS Calls,      \* invocations of submit
          OwnedCalls, \* invocations of submit_owned
          Stops,      \* invocations of latch_and_quiesce
          Starts,     \* invocations of start
          Capacity,   \* _QUEUE_CAPACITY
          None,       \* Python's None
          Refused,    \* in place of a permit: issue raised
          Worker      \* the activation thread, as a waiter on the condition

\* What a rejected activation is told, and what a receipt can be completed with.
Codes == {"UNSAFE_STATE", "ESTOP_LATCHED", "PROFILE_INVALID", "TIMEOUT"}
Refusals == Codes \ {"TIMEOUT"}
Completions == Codes \cup {"VALUE", "ERROR"}

ASSUME CapacityAssumption == Capacity \in Nat \ {0}
ASSUME NamesAssumption ==
    /\ None \notin Calls \cup OwnedCalls \cup Completions
    /\ None \notin BOOLEAN
    /\ Refused # None
    /\ {None, Refused} \cap Nat = {}
    /\ Worker \notin Stops
\* An invocation is one operation, and none is the call to close.
ASSUME InvocationsAssumption ==
    /\ Calls \cap OwnedCalls = {}
    /\ (Calls \cup OwnedCalls) \cap (Stops \cup Starts) = {}
    /\ Stops \cap Starts = {}
    /\ "closer" \notin Calls \cup OwnedCalls \cup Stops \cup Starts

Users == Calls \cup OwnedCalls

VARIABLES
  accepting, closed, failed, latched,  \* the flags of the object
  generation,                          \* _generation
  queue,                               \* _queue
  inFlight,                            \* _in_flight
  worker,     \* where the thread is in _run; "none" before start, "dead" after
  waitSet,    \* who waits on the condition
  permit,     \* the generation of the permit a user holds, None, or Refused
  pc,         \* where each invocation is
  outcome,    \* the completed content of each receipt, None until it is done
  answer,     \* what each submit or submit_owned gave its caller
  stopResult, \* activation_quiesced of each stop's result, None until returned
  startResult,\* what each start returned
  ran         \* how often the command of each user was run

vars == <<accepting, closed, failed, latched, generation, queue, inFlight,
          worker, waitSet, permit, pc, outcome, answer, stopResult,
          startResult, ran>>

flags == <<accepting, closed, failed, latched>>

Closer == "closer"
Threads == Users \cup Stops \cup Starts \cup {Closer}

Init == /\ accepting = FALSE /\ closed = FALSE /\ failed = FALSE /\ latched = FALSE
        /\ generation = 0
        /\ queue = <<>>
        /\ inFlight = None
        /\ worker = "none"
        /\ waitSet = {}
        /\ permit = [u \in Users |-> None]
        /\ pc = [t \in Threads |-> "new"]
        /\ outcome = [c \in Calls |-> None]
        /\ answer = [u \in Users |-> None]
        /\ stopResult = [s \in Stops |-> None]
        /\ startResult = [s \in Starts |-> None]
        /\ ran = [u \in Users |-> 0]

-----------------------------------------------------------------------------
(* Helpers of the locked regions.                                          *)

WorkerReady == /\ worker \notin {"none", "dead"}
               /\ accepting
               /\ ~closed
               /\ ~failed

\* (fault) The condition is signalled by nobody.
NotifyNobody == UNCHANGED waitSet

NotifyAll == waitSet' = {}

\* Condition.notify() wakes one waiter, whoever it is.
NotifyOne == IF waitSet = {} THEN UNCHANGED waitSet
                             ELSE \E w \in waitSet : waitSet' = waitSet \ {w}

\* The first completion of a receipt wins; S is the set of receipts completed.
CompleteReceipts(o, S, value) ==
    [c \in Calls |-> IF c \in S /\ o[c] = None THEN value ELSE o[c]]

\* (fault) The receipt the worker is executing is rejected with the queue.
EveryReceipt == ToSet(queue) \cup ({inFlight} \ {None})

QueuedReceipts == ToSet(queue)

\* The latch: every outstanding permit dies and every queued receipt is
\* rejected, on top of the receipts already completed in "done".
Latch(done, code) == /\ generation' = generation + 1
                     /\ latched' = TRUE
                     /\ queue' = <<>>
                     /\ outcome' = CompleteReceipts(done, QueuedReceipts, code)
                     /\ NotifyAll

\* What _worker_ready_locked does besides answering "no": a thread that died
\* under an object nobody closed fails the object and latches it.
NoteDeadWorker ==
    IF worker = "dead" /\ ~closed
    THEN /\ failed' = TRUE
         /\ accepting' = FALSE
         /\ closed' = closed
         /\ Latch(outcome, "UNSAFE_STATE")
    ELSE UNCHANGED <<flags, generation, queue, outcome, waitSet>>

\* (fault) Only the generation a queue entry was made for is compared.
StaleByFailureOnly(g) == failed

\* A permit dies with the latch and with its generation.
Stale(g) == latched \/ g # generation

QueueFull == Len(queue) >= Capacity

Return(u, code) == /\ pc' = [pc EXCEPT ![u] = "returned"]
                   /\ answer' = [answer EXCEPT ![u] = code]

-----------------------------------------------------------------------------
(* start and issue                                                         *)

\* start(): the thread is created and started under the lock; a factory that
\* raises, or a thread that is not alive afterwards, fails the object.
Start(s) ==
    /\ pc[s] = "new"
    /\ pc' = [pc EXCEPT ![s] = "returned"]
    /\ \/ /\ worker # "none"
          /\ startResult' = [startResult EXCEPT ![s] = WorkerReady]
          /\ IF WorkerReady
             THEN UNCHANGED <<flags, generation, queue, outcome, waitSet>>
             ELSE NoteDeadWorker
          /\ UNCHANGED worker
       \/ /\ worker = "none"
          /\ closed \/ failed
          /\ startResult' = [startResult EXCEPT ![s] = FALSE]
          /\ UNCHANGED <<flags, generation, queue, outcome, waitSet, worker>>
       \/ /\ worker = "none"
          /\ ~closed /\ ~failed
          /\ startResult' = [startResult EXCEPT ![s] = FALSE]
          /\ failed' = TRUE
          /\ UNCHANGED <<accepting, closed, latched, generation, queue, outcome,
                         waitSet, worker>>
       \/ /\ worker = "none"
          /\ ~closed /\ ~failed
          /\ startResult' = [startResult EXCEPT ![s] = TRUE]
          /\ worker' = "idle"
          /\ accepting' = TRUE
          /\ NotifyAll
          /\ UNCHANGED <<closed, failed, latched, generation, queue, outcome>>
    /\ UNCHANGED <<inFlight, permit, answer, stopResult, ran>>

\* issue(): a permit may be issued before the worker exists, never after the
\* latch. Refused callers hold no permit.
Issue(u) ==
    /\ pc[u] = "new"
    /\ permit[u] = None
    /\ IF closed \/ failed
       THEN /\ permit' = [permit EXCEPT ![u] = Refused]
            /\ UNCHANGED <<flags, generation, queue, outcome, waitSet>>
       ELSE IF worker # "none" /\ ~WorkerReady
       THEN /\ permit' = [permit EXCEPT ![u] = Refused]
            /\ NoteDeadWorker
       ELSE /\ permit' = [permit EXCEPT ![u] = IF latched THEN Refused
                                                          ELSE generation]
            /\ UNCHANGED <<flags, generation, queue, outcome, waitSet>>
    /\ UNCHANGED <<inFlight, worker, pc, answer, stopResult, startResult, ran>>

Holds(u) == permit[u] \notin {None, Refused}

\* The checks submit, submit_owned and require_current share: whose permit it
\* is, whether the worker is ready, whether the permit is still current.
Refuse(u) ==
    \/ /\ ~Holds(u)
       /\ Return(u, "PROFILE_INVALID")
       /\ UNCHANGED <<flags, generation, queue, outcome, waitSet>>
    \/ /\ Holds(u) /\ ~WorkerReady
       /\ Return(u, "UNSAFE_STATE")
       /\ NoteDeadWorker
    \/ /\ Holds(u) /\ WorkerReady /\ Stale(permit[u])
       /\ Return(u, "ESTOP_LATCHED")
       /\ UNCHANGED <<flags, generation, queue, outcome, waitSet>>

Admitted(u) == Holds(u) /\ WorkerReady /\ ~Stale(permit[u])

\* A rejected submit or submit_owned, and a rejected require_current or
\* is_current after which the caller gives up.
Rejected(u) ==
    /\ pc[u] = "new"
    /\ Refuse(u)
    /\ UNCHANGED <<inFlight, worker, permit, stopResult, startResult, ran>>

-----------------------------------------------------------------------------
(* submit                                                                  *)

\* A full queue is not back-pressure: it latches the boundary.
SubmitOverflow(c) ==
    /\ pc[c] = "new"
    /\ Admitted(c)
    /\ QueueFull
    /\ Return(c, "UNSAFE_STATE")
    /\ Latch(outcome, "ESTOP_LATCHED")
    /\ UNCHANGED <<accepting, closed, failed, inFlight, worker, permit,
                   stopResult, startResult, ran>>

Submit(c) ==
    /\ pc[c] = "new"
    /\ Admitted(c)
    /\ ~QueueFull
    /\ queue' = Append(queue, c)
    /\ pc' = [pc EXCEPT ![c] = "waiting"]
    /\ NotifyOne
    /\ UNCHANGED <<flags, generation, inFlight, worker, permit, outcome, answer,
                   stopResult, startResult, ran>>

\* receipt.done is set before the deadline.
SubmitReturn(c) ==
    /\ pc[c] = "waiting"
    /\ outcome[c] # None
    /\ Return(c, outcome[c])
    /\ UNCHANGED <<flags, generation, queue, inFlight, worker, waitSet, permit,
                   outcome, stopResult, startResult, ran>>

\* (fault) The wait for the receipt has no deadline.
WaitsForEver(c) == FALSE /\ UNCHANGED vars

\* done.wait() gives up; the caller does not hold the lock yet.
SubmitExpire(c) ==
    /\ pc[c] = "waiting"
    /\ outcome[c] = None
    /\ pc' = [pc EXCEPT ![c] = "expired"]
    /\ UNCHANGED <<flags, generation, queue, inFlight, worker, waitSet, permit,
                   outcome, answer, stopResult, startResult, ran>>

\* The caller re-takes the lock: a receipt completed meanwhile is the answer,
\* otherwise it is completed as a timeout and the boundary latches.
SubmitTimeout(c) ==
    /\ pc[c] = "expired"
    /\ IF outcome[c] # None
       THEN /\ Return(c, outcome[c])
            /\ UNCHANGED <<latched, generation, queue, outcome, waitSet>>
       ELSE /\ Return(c, "TIMEOUT")
            /\ Latch(CompleteReceipts(outcome, {c}, "TIMEOUT"), "ESTOP_LATCHED")
    /\ UNCHANGED <<accepting, closed, failed, inFlight, worker, permit,
                   stopResult, startResult, ran>>

\* submit_owned(): the command runs inside the lock and may raise.
SubmitOwned(o) ==
    /\ pc[o] = "new"
    /\ Admitted(o)
    /\ \E code \in {"VALUE", "ERROR"} : Return(o, code)
    /\ ran' = [ran EXCEPT ![o] = @ + 1]
    /\ UNCHANGED <<flags, generation, queue, inFlight, worker, waitSet, permit,
                   outcome, stopResult, startResult>>

-----------------------------------------------------------------------------
(* _run, the worker thread                                                 *)

\* The thread holds the lock only when it is not waiting on the condition.
WorkerAwake == worker = "idle" /\ Worker \notin waitSet

WorkerWait ==
    /\ WorkerAwake
    /\ queue = <<>>
    /\ accepting
    /\ waitSet' = waitSet \cup {Worker}
    /\ UNCHANGED <<flags, generation, queue, inFlight, worker, permit, pc,
                   outcome, answer, stopResult, startResult, ran>>

WorkerExit ==
    /\ WorkerAwake
    /\ queue = <<>>
    /\ ~accepting
    /\ worker' = "dead"
    /\ UNCHANGED <<flags, generation, queue, inFlight, waitSet, permit, pc,
                   outcome, answer, stopResult, startResult, ran>>

\* The head of the queue is dispatched, or rejected when the latch overtook it.
WorkerDequeue ==
    /\ WorkerAwake
    /\ queue # <<>>
    /\ queue' = Tail(queue)
    /\ LET c == Head(queue) IN
       IF Stale(permit[c])
       THEN /\ outcome' = CompleteReceipts(outcome, {c}, "ESTOP_LATCHED")
            /\ UNCHANGED <<inFlight, worker>>
       ELSE /\ inFlight' = c
            /\ worker' = "command"
            /\ UNCHANGED outcome
    /\ UNCHANGED <<flags, generation, waitSet, permit, pc, answer, stopResult,
                   startResult, ran>>

\* receipt.command(), outside the lock: how long it takes is not bounded, and
\* it returns or raises.
RunCommand ==
    /\ worker = "command"
    /\ ran' = [ran EXCEPT ![inFlight] = @ + 1]
    /\ worker' \in {"returned", "raised"}
    /\ UNCHANGED <<flags, generation, queue, inFlight, waitSet, permit, pc,
                   outcome, answer, stopResult, startResult>>

CompleteValue ==
    /\ worker = "returned"
    /\ worker' = "finally"
    /\ outcome' = CompleteReceipts(outcome, {inFlight}, "VALUE")
    /\ UNCHANGED <<flags, generation, queue, inFlight, waitSet, permit, pc,
                   answer, stopResult, startResult, ran>>

\* A command that raises fails the object. This region does not notify: the
\* waiters are woken by the finally block.
CompleteError ==
    /\ worker = "raised"
    /\ worker' = "finally"
    /\ failed' = TRUE
    /\ accepting' = FALSE
    /\ latched' = TRUE
    /\ generation' = generation + 1
    /\ queue' = <<>>
    /\ outcome' = CompleteReceipts(CompleteReceipts(outcome, {inFlight}, "ERROR"),
                                   QueuedReceipts, "UNSAFE_STATE")
    /\ UNCHANGED <<closed, inFlight, waitSet, permit, pc, answer, stopResult,
                   startResult, ran>>

WorkerFinally ==
    /\ worker = "finally"
    /\ worker' = "idle"
    /\ inFlight' = None
    /\ NotifyAll
    /\ UNCHANGED <<flags, generation, queue, permit, pc, outcome, answer,
                   stopResult, startResult, ran>>

-----------------------------------------------------------------------------
(* latch_and_quiesce and close                                             *)

Quiet == inFlight = None

\* The first half of a stop: latch, submit the zero command, and look. Whether
\* the zero command was accepted changes nothing below and is left out.
StopLatch(s) ==
    /\ pc[s] = "new"
    /\ generation' = generation + 1
    /\ latched' = TRUE
    /\ queue' = <<>>
    /\ outcome' = CompleteReceipts(outcome, QueuedReceipts, "ESTOP_LATCHED")
    /\ IF Quiet
       THEN /\ NotifyAll
            /\ pc' = [pc EXCEPT ![s] = "returned"]
            /\ stopResult' = [stopResult EXCEPT ![s] = TRUE]
       ELSE /\ waitSet' = {s}
            /\ pc' = [pc EXCEPT ![s] = "waiting"]
            /\ UNCHANGED stopResult
    /\ UNCHANGED <<accepting, closed, failed, inFlight, worker, permit, answer,
                   startResult, ran>>

\* A stop that was notified while a command is in flight waits again.
StopRewait(s) ==
    /\ pc[s] = "waiting"
    /\ s \notin waitSet
    /\ ~Quiet
    /\ waitSet' = waitSet \cup {s}
    /\ UNCHANGED <<flags, generation, queue, inFlight, worker, permit, pc, outcome,
                   answer, stopResult, startResult, ran>>

StopReturns(s) ==
    /\ pc' = [pc EXCEPT ![s] = "returned"]
    /\ waitSet' = waitSet \ {s}
    /\ stopResult' = [stopResult EXCEPT ![s] = Quiet]
    /\ UNCHANGED <<flags, generation, queue, inFlight, worker, permit, outcome,
                   answer, startResult, ran>>

\* Notified, and nothing is in flight any more.
StopAwake(s) == pc[s] = "waiting" /\ s \notin waitSet /\ Quiet /\ StopReturns(s)

\* The deadline passed, notified or not: the result is what the lock shows.
StopExpire(s) == pc[s] = "waiting" /\ StopReturns(s)

BeginClose ==
    /\ pc[Closer] = "new"
    /\ closed' = TRUE
    /\ accepting' = FALSE
    /\ latched' = TRUE
    /\ generation' = generation + 1
    /\ queue' = <<>>
    /\ outcome' = CompleteReceipts(outcome, QueuedReceipts, "UNSAFE_STATE")
    /\ NotifyAll
    /\ pc' = [pc EXCEPT ![Closer] = "joining"]
    /\ UNCHANGED <<failed, inFlight, worker, permit, answer, stopResult,
                   startResult, ran>>

\* (fault) close answers from the flags alone.
ClosedByFlags == worker = "none" \/ ~failed

ClosedCleanly == \/ worker = "none"
                 \/ /\ worker = "dead"
                    /\ queue = <<>>
                    /\ inFlight = None
                    /\ ~failed

\* The join ends, because the thread did or because the deadline passed.
CloseReturn ==
    /\ pc[Closer] = "joining"
    /\ pc' = [pc EXCEPT ![Closer] = IF ClosedCleanly THEN "closed" ELSE "unclean"]
    /\ UNCHANGED <<flags, generation, queue, inFlight, worker, waitSet, permit,
                   outcome, answer, stopResult, startResult, ran>>

-----------------------------------------------------------------------------

\* Every invocation has returned and the worker is gone: the program is over.
Finished ==
    /\ \A t \in Threads : pc[t] \in {"returned", "closed", "unclean"}
    /\ worker \in {"none", "dead"}
    /\ UNCHANGED vars

CallStep(c) == \/ SubmitReturn(c)
               \/ SubmitExpire(c)
               \/ SubmitTimeout(c)

WorkerStep == \/ WorkerWait
              \/ WorkerExit
              \/ WorkerDequeue
              \/ CompleteValue
              \/ CompleteError
              \/ WorkerFinally

StopStep(s) == StopRewait(s) \/ StopAwake(s) \/ StopExpire(s)

Next == \/ \E s \in Starts : Start(s)
        \/ \E u \in Users : Issue(u) \/ Rejected(u)
        \/ \E c \in Calls : SubmitOverflow(c) \/ Submit(c) \/ CallStep(c)
        \/ \E o \in OwnedCalls : SubmitOwned(o)
        \/ WorkerStep
        \/ RunCommand
        \/ \E s \in Stops : StopLatch(s) \/ StopStep(s)
        \/ BeginClose
        \/ CloseReturn
        \/ Finished

Spec == Init /\ [][Next]_vars

\* Threads that can run do run, and time passes, so waits with a deadline end.
\* Nothing obliges anyone to submit, stop or close, nor a command to return.
Fairness == /\ \A c \in Calls : /\ WF_vars(SubmitReturn(c) \/ SubmitExpire(c))
                                /\ WF_vars(SubmitTimeout(c))
            /\ WF_vars(WorkerStep)
            /\ \A s \in Stops : WF_vars(StopAwake(s) \/ StopExpire(s))
            /\ WF_vars(CloseReturn)

FairSpec == Spec /\ Fairness

-----------------------------------------------------------------------------
(* Properties                                                              *)

Results == BOOLEAN \cup {None}
Outcomes == Completions \cup {None}
Places == {"new", "waiting", "expired", "returned", "joining", "closed", "unclean"}

TypeOK ==
    /\ accepting \in BOOLEAN /\ closed \in BOOLEAN
    /\ failed \in BOOLEAN /\ latched \in BOOLEAN
    /\ generation \in Nat
    /\ queue \in Seq(Calls)
    /\ Len(queue) <= Capacity
    /\ inFlight \in Calls \cup {None}
    /\ worker \in {"none", "idle", "command", "returned", "raised", "finally", "dead"}
    /\ waitSet \subseteq Stops \cup {Worker}
    /\ permit \in [Users -> Nat \cup {None, Refused}]
    /\ pc \in [Threads -> Places]
    /\ outcome \in [Calls -> Outcomes]
    /\ answer \in [Users -> Outcomes]
    /\ stopResult \in [Stops -> Results]
    /\ startResult \in [Starts -> Results]
    /\ ran \in [Users -> Nat]

Quiesced == \E s \in Stops : stopResult[s] = TRUE

\* A stop that was answered "quiesced" means silence from then on: no command,
\* queued or owned, runs after latch_and_quiesce returned with
\* activation_quiesced, whatever callers, permits and other stops do.
QuiescedMeansSilent == [][Quiesced => ran' = ran]_vars

\* A close that returned True means the same silence.
ClosedMeansSilent == [][pc[Closer] = "closed" => ran' = ran]_vars

\* What a caller is told agrees with what happened to its command: a refused
\* one never runs, then or later; a completed one ran exactly once; and only
\* a timed-out one leaves open whether it ran.
AnswerMatchesExecution ==
    \A u \in Users : /\ answer[u] \in Refusals => ran[u] = 0
                     /\ answer[u] \in {"VALUE", "ERROR"} => ran[u] = 1
                     /\ ran[u] <= 1

\* A receipt is completed once: a late value never replaces the timeout or the
\* latch that its caller was already told.
ReceiptsAreFinal ==
    [][\A c \in Calls : outcome[c] # None => outcome'[c] = outcome[c]]_vars

\* No command is left queued behind a latch, where no caller could cancel it.
NothingQueuedBehindLatch == latched => queue = <<>>

\* The worker never sleeps on the condition while there is a command to take or
\* while it should exit: notify() and notify_all() reach it every time.
NoLostWakeup ==
    Worker \in waitSet => worker = "idle" /\ queue = <<>> /\ accepting

\* The sequencer implements the activation gate.
Gate == INSTANCE ActivationGate
        WITH Nobody <- None,
             open <- ~latched,
             inside <- inFlight,
             ran <- {u \in Users : ran[u] > 0},
             promised <- {s \in Stops : stopResult[s] = TRUE}

ImplementsGate == Gate!GateSpec

\* A submitted call returns even when the command it waits for never does.
CallsReturn == \A c \in Calls : pc[c] = "waiting" ~> pc[c] = "returned"

\* Once closed, the worker thread ends, provided its commands return.
CloseEndsWorker ==
    []<>(worker # "command") => (closed ~> worker \in {"none", "dead"})
=============================================================================
