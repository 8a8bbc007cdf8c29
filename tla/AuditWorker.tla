----------------------------- MODULE AuditWorker -----------------------------
(***************************************************************************)
(* agent_ros/runtime/audit.py: the worker thread that owns the audit       *)
(* writer, the callers that append through it and wait for the answer, and *)
(* the writer's append with its rollback.                                  *)
(*                                                                         *)
(* The worker takes an item off its queue before it takes the lock, so an  *)
(* item can be in its hand, neither queued nor in flight. A record is the  *)
(* caller it was appended for; each caller appends once.                   *)
(***************************************************************************)
EXTENDS Naturals, Sequences, Functions

CONSTANTS Callers,   \* calls of append(), each by a thread of its own
          Closers,   \* calls of close()
          Capacity,  \* _AUDIT_QUEUE_CAPACITY
          None

ASSUME AuditCapacityAssumption == Capacity \in Nat \ {0}
ASSUME AuditNamesAssumption == /\ {"marker", None} \cap Callers = {}
                               /\ None \notin {"marker", "pending", "ok", "closed"}

VARIABLES
  accepting, failed, \* _accepting and _failed
  marked,      \* _sentinel_queued
  thread,      \* "none", "alive" or "dead"
  queue,       \* of receipts, named by their callers, and the marker
  inFlight,    \* _in_flight
  receipt,     \* per caller: None, "pending", "ok" or "error"
  worker,      \* where the worker thread is
  hand,        \* what it has taken off the queue
  raised,      \* did the writer raise
  file,        \* the complete records of the audit file
  torn,        \* an incomplete record ends the file
  compromised, \* _integrity_compromised
  pc,          \* where each call is
  answer,      \* what append() or close() returned
  accepted     \* (history) the order in which calls entered the queue

flags == <<accepting, failed, marked>>
writer == <<file, torn, compromised>>
loop == <<thread, worker, hand, raised>>
calls == <<pc, answer>>
vars == <<flags, writer, loop, calls, queue, inFlight, receipt, accepted>>

Marker == "marker"

\* The controller constructs the worker and starts it before it makes any
\* call; the thread may fail to start.
Init == /\ \/ thread = "alive" /\ accepting = TRUE /\ failed = FALSE
           \/ thread = "none" /\ accepting = FALSE /\ failed = TRUE
        /\ marked = FALSE
        /\ worker = "get" /\ hand = None /\ raised = FALSE
        /\ queue = <<>> /\ inFlight = None
        /\ receipt = [c \in Callers |-> None]
        /\ file = <<>> /\ torn = FALSE /\ compromised = FALSE
        /\ pc = [c \in Callers \cup Closers |-> "idle"]
        /\ answer = [c \in Callers \cup Closers |-> None]
        /\ accepted = <<>>

Healthy == accepting /\ ~failed /\ thread = "alive"

Answer(c, a) == /\ pc' = [pc EXCEPT ![c] = "over"]
                /\ answer' = [answer EXCEPT ![c] = a]

-----------------------------------------------------------------------------
(* What is done under the worker's lock.                                   *)

\* One terminal marker, queued at most once: what becomes of a queue q and of
\* the flag m.
StopRequested(q, m) == IF m THEN [queue |-> q, marked |-> m]
                            ELSE [queue |-> Append(q, Marker), marked |-> TRUE]

\* (fault) Failing drains the marker of a close as well, and forgets it did.
FailStopLosesMarker == [queue |-> <<>>, marked |-> marked]

\* Failing drains the queue, a marker in it included, then asks to stop.
FailStop == StopRequested(<<>>, marked /\ Marker \notin Range(queue))

\* (fault) A receipt that is drained is left to its caller's timeout.
NobodyAnswered(r) == r

\* (fault) A receipt that is drained is done, but carries no error.
DrainedDone(r) ==
    [c \in Callers |-> IF c \in Range(queue) /\ r[c] = "pending" THEN "ok" ELSE r[c]]

\* Every drained receipt that is not done is answered with an error.
DrainedAnswered(r) ==
    [c \in Callers |-> IF c \in Range(queue) /\ r[c] = "pending" THEN "error" ELSE r[c]]

\* _fail_locked(), r being the receipts as its caller leaves them.
Fail(r) == /\ failed' = TRUE
           /\ accepting' = FALSE
           /\ receipt' = DrainedAnswered(r)
           /\ queue' = FailStop.queue
           /\ marked' = FailStop.marked

-----------------------------------------------------------------------------
(* append().                                                               *)

QueueFull == Len(queue) >= Capacity

AppendRefused(c) == /\ pc[c] = "idle"
                    /\ ~Healthy
                    /\ Answer(c, "failed")
                    /\ UNCHANGED <<flags, writer, loop, queue, inFlight, receipt, accepted>>

AppendOverflow(c) == /\ pc[c] = "idle"
                     /\ Healthy
                     /\ QueueFull
                     /\ Fail(receipt)
                     /\ Answer(c, "failed")
                     /\ UNCHANGED <<writer, loop, inFlight, accepted>>

AppendQueued(c) == /\ pc[c] = "idle"
                   /\ Healthy
                   /\ ~QueueFull
                   /\ queue' = Append(queue, c)
                   /\ receipt' = [receipt EXCEPT ![c] = "pending"]
                   /\ accepted' = Append(accepted, c)
                   /\ pc' = [pc EXCEPT ![c] = "waiting"]
                   /\ UNCHANGED <<flags, writer, loop, answer, inFlight>>

AppendReturn(c) == /\ pc[c] = "waiting"
                   /\ receipt[c] \in {"ok", "error"}
                   /\ Answer(c, IF receipt[c] = "ok" THEN "ok" ELSE "failed")
                   /\ UNCHANGED <<flags, writer, loop, queue, inFlight, receipt, accepted>>

\* The wait ends by its deadline ...
AppendExpire(c) == /\ pc[c] = "waiting"
                   /\ receipt[c] = "pending"
                   /\ pc' = [pc EXCEPT ![c] = "expired"]
                   /\ UNCHANGED <<flags, writer, loop, answer, queue, inFlight, receipt, accepted>>

\* ... and the call fails the worker, unless the answer came in between.
AppendTimeout(c) == /\ pc[c] = "expired"
                    /\ IF receipt[c] = "pending"
                       THEN Fail([receipt EXCEPT ![c] = "error"])
                       ELSE UNCHANGED <<flags, receipt, queue>>
                    /\ Answer(c, "failed")
                    /\ UNCHANGED <<writer, loop, inFlight, accepted>>

AppendStep(c) == \/ AppendRefused(c) \/ AppendOverflow(c) \/ AppendQueued(c)
                 \/ AppendReturn(c) \/ AppendExpire(c) \/ AppendTimeout(c)

-----------------------------------------------------------------------------
(* The worker's loop.                                                      *)

Running(place) == thread = "alive" /\ worker = place

WorkerTake == /\ Running("get")
              /\ queue # <<>>
              /\ hand' = Head(queue)
              /\ queue' = Tail(queue)
              /\ worker' = IF Head(queue) = Marker THEN "marker" ELSE "begin"
              /\ UNCHANGED <<flags, writer, thread, raised, calls, inFlight, receipt, accepted>>

WorkerUnmark == /\ Running("marker")
                /\ marked' = FALSE
                /\ worker' = "exit"
                /\ hand' = None
                /\ UNCHANGED <<accepting, failed, writer, thread, raised, calls, queue,
                               inFlight, receipt, accepted>>

WorkerExit == /\ Running("exit")
              /\ thread' = "dead"
              /\ UNCHANGED <<flags, writer, worker, hand, raised, calls, queue, inFlight,
                             receipt, accepted>>

WorkerBegin == /\ Running("begin")
               /\ inFlight' = hand
               /\ worker' = "write"
               /\ UNCHANGED <<flags, writer, thread, hand, raised, calls, queue, receipt,
                              accepted>>

\* append() of the writer: the record is written and synced; or nothing is
\* left of it (a refused event, or a write undone by the rollback); or the
\* rollback fails as well, and all or part of the record stays.
WorkerWrite ==
    /\ Running("write")
    /\ worker' = "finish"
    /\ \/ /\ ~compromised
          /\ file' = Append(file, hand)
          /\ raised' = FALSE
          /\ UNCHANGED <<torn, compromised>>
       \/ /\ raised' = TRUE
          /\ UNCHANGED writer
       \/ /\ ~compromised
          /\ raised' = TRUE
          /\ compromised' = TRUE
          /\ \/ torn' = TRUE /\ UNCHANGED file
             \/ file' = Append(file, hand) /\ UNCHANGED torn
    /\ UNCHANGED <<flags, thread, hand, calls, queue, inFlight, receipt, accepted>>

\* (fault) Only a failed rollback fails the worker.
FailsIfCompromised == raised /\ compromised

\* Any error of the writer fails the worker.
AppendFailed == raised

\* The receipt of the record in hand, unless its caller gave up on it.
Finished(r, a) == IF r[hand] = "pending" THEN [r EXCEPT ![hand] = a] ELSE r

WorkerFinish == /\ Running("finish")
                /\ IF AppendFailed
                   THEN Fail(Finished(receipt, "error"))
                   ELSE /\ receipt' = Finished(receipt, "ok")
                        /\ UNCHANGED <<flags, queue>>
                /\ inFlight' = None
                /\ hand' = None
                /\ raised' = FALSE
                /\ worker' = "get"
                /\ UNCHANGED <<writer, thread, calls, accepted>>

WorkerStep == \/ WorkerTake \/ WorkerUnmark \/ WorkerExit
              \/ WorkerBegin \/ WorkerWrite \/ WorkerFinish

-----------------------------------------------------------------------------
(* close().                                                                *)

Finishable == thread = "dead" /\ queue = <<>> /\ inFlight = None

ClosedCleanly == thread = "none" \/ Finishable

CloseBegin(x) ==
    /\ pc[x] = "idle"
    /\ accepting' = FALSE
    /\ IF Finishable
       THEN Answer(x, "closed") /\ UNCHANGED <<queue, marked>>
       ELSE /\ queue' = StopRequested(queue, marked).queue
            /\ marked' = StopRequested(queue, marked).marked
            /\ \/ pc' = [pc EXCEPT ![x] = "joining"] /\ UNCHANGED answer
               \/ thread = "alive" /\ Answer(x, "unclosed") \* no time to wait
    /\ UNCHANGED <<failed, writer, loop, inFlight, receipt, accepted>>

\* The join ends with the thread, or with its timeout.
CloseReturn(x) ==
    /\ pc[x] = "joining"
    /\ Answer(x, IF ClosedCleanly THEN "closed" ELSE "unclosed")
    /\ UNCHANGED <<flags, writer, loop, queue, inFlight, receipt, accepted>>

Finis == /\ \A c \in Callers \cup Closers : pc[c] = "over"
         /\ UNCHANGED vars

Next == \/ WorkerStep
        \/ \E c \in Callers : AppendStep(c)
        \/ \E x \in Closers : CloseBegin(x) \/ CloseReturn(x)
        \/ Finis

Spec == Init /\ [][Next]_vars

\* The thread runs, and a call that waits returns.
Fairness == /\ WF_vars(WorkerStep)
            /\ \A c \in Callers : WF_vars(AppendReturn(c) \/ AppendTimeout(c))
            /\ \A x \in Closers : WF_vars(CloseReturn(x))

LiveSpec == Spec /\ Fairness

-----------------------------------------------------------------------------
(* Properties.                                                             *)

\* Every variable has its type; the queue never exceeds its capacity and the
\* one slot reserved for the marker.
TypeOK ==
    /\ accepting \in BOOLEAN /\ failed \in BOOLEAN /\ marked \in BOOLEAN
    /\ thread \in {"none", "alive", "dead"}
    /\ worker \in {"get", "marker", "exit", "begin", "write", "finish"}
    /\ hand \in Callers \cup {Marker, None}
    /\ queue \in Seq(Callers \cup {Marker})
    /\ Len(queue) <= Capacity + 1
    /\ inFlight \in Callers \cup {None}
    /\ receipt \in [Callers -> {None, "pending", "ok", "error"}]
    /\ raised \in BOOLEAN /\ torn \in BOOLEAN /\ compromised \in BOOLEAN
    /\ file \in Seq(Callers) /\ accepted \in Seq(Callers)
    /\ pc \in [Callers \cup Closers -> {"idle", "waiting", "expired", "joining", "over"}]
    /\ answer \in [Callers \cup Closers -> {None, "ok", "failed", "closed", "unclosed"}]

\* The audit file holds a prefix of the records in the order their calls were
\* accepted, whatever fails, hangs or times out: no record is lost between
\* two others, and none comes after a torn one (runtime/audit.py's promise of
\* an append-only, complete history).
FileIsPrefix ==
    /\ Len(file) <= Len(accepted)
    /\ \A i \in 1..Len(file) : file[i] = accepted[i]

\* A caller that is told its record was appended finds it in the file, and
\* the file whole up to it.
AnsweredIsDurable == \A c \in Callers : answer[c] = "ok" => c \in Range(file)

\* close() returns true only when the thread is gone and every caller has
\* its answer.
ClosedMeansDone ==
    \A x \in Closers : answer[x] = "closed" =>
        /\ thread # "alive"
        /\ \A c \in Callers : receipt[c] # "pending"

\* A worker that accepts no more ends, whoever asked it to stop and whatever
\* became of the marker.
StoppedWorkerExits == (thread = "alive" /\ ~accepting) ~> (thread = "dead")

\* Every record that entered the queue is answered.
RecordsAreAnswered == \A c \in Callers : receipt[c] = "pending" ~> receipt[c] # "pending"
=============================================================================
