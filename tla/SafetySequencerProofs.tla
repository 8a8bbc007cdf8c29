------------------------ MODULE SafetySequencerProofs ------------------------
(***************************************************************************)
(* Proofs about SafetySequencer: the inductive invariant SequencerInv, and *)
(* from it every safety property of the module, for any set of callers,    *)
(* stops and starts and any capacity of the queue.                         *)
(***************************************************************************)
EXTENDS SafetySequencer, TLAPS

-----------------------------------------------------------------------------
(* The inductive invariant, one named part per concern.                    *)

Busy == {"command", "returned", "raised", "finally"}

\* The worker is executing exactly when something is in flight, and it waits
\* on the condition only with nothing to do. Only stops share the condition
\* with it, and only once the latch is set: a notify() cannot miss it.
WorkerInv ==
    /\ inFlight # None <=> worker \in Busy
    /\ NoLostWakeup
    /\ ~latched => waitSet \subseteq {Worker}

\* The latch is permanent, closing implies it, and a stop or a close that was
\* answered positively saw an idle worker behind the latch.
LatchInv ==
    /\ NothingQueuedBehindLatch
    /\ closed => latched
    /\ \A s \in Stops : pc[s] = "waiting" => latched
    /\ Quiesced => latched /\ inFlight = None
    /\ pc[Closer] # "new" => closed
    /\ pc[Closer] = "closed" => inFlight = None /\ worker \in {"none", "dead"}

\* What is known of a submit by where it is: not yet made, queued, in flight,
\* completed, or refused without a receipt.
CallInv(c) ==
    /\ pc[c] = "new" => /\ ran[c] = 0 /\ outcome[c] = None /\ answer[c] = None
                        /\ c # inFlight /\ c \notin QueuedReceipts
    /\ c \in QueuedReceipts => ran[c] = 0 /\ outcome[c] = None /\ c # inFlight
    /\ c = inFlight =>
          /\ worker = "command" => ran[c] = 0 /\ outcome[c] \in {None, "TIMEOUT"}
          /\ worker \in {"returned", "raised"} =>
                ran[c] = 1 /\ outcome[c] \in {None, "TIMEOUT"}
          /\ worker = "finally" =>
                ran[c] = 1 /\ outcome[c] \in {"VALUE", "ERROR", "TIMEOUT"}
    /\ outcome[c] \in Refusals => ran[c] = 0 /\ c # inFlight
    /\ outcome[c] \in {"VALUE", "ERROR"} => ran[c] = 1
    /\ ran[c] <= 1
    /\ answer[c] # None =>
          /\ pc[c] = "returned"
          /\ answer[c] # outcome[c] =>
                /\ answer[c] \in Refusals /\ outcome[c] = None /\ ran[c] = 0
                /\ c # inFlight /\ c \notin QueuedReceipts

OwnedInv(o) ==
    /\ pc[o] = "new" => ran[o] = 0 /\ answer[o] = None
    /\ answer[o] \in Refusals => ran[o] = 0
    /\ answer[o] \in {"VALUE", "ERROR"} => ran[o] = 1
    /\ ran[o] <= 1

ReceiptInv == /\ IsInjective(queue)
              /\ \A c \in Calls : CallInv(c)
              /\ \A o \in OwnedCalls : OwnedInv(o)

SequencerInv == TypeOK /\ WorkerInv /\ LatchInv /\ ReceiptInv

-----------------------------------------------------------------------------
(* Type correctness.                                                       *)

\* A drained queue is a queue within the capacity.
LEMMA EmptyQueue == <<>> \in Seq(Calls) /\ Len(<<>>) <= Capacity
BY CapacityAssumption

\* Completing receipts keeps the receipts well typed.
LEMMA CompletionType ==
  ASSUME NEW o \in [Calls -> Outcomes], NEW S, NEW v \in Outcomes
  PROVE  CompleteReceipts(o, S, v) \in [Calls -> Outcomes]
BY DEF CompleteReceipts

\* The latch keeps the types of what it assigns.
LEMMA LatchType ==
  ASSUME TypeOK, NEW done \in [Calls -> Outcomes], NEW code \in Codes,
         Latch(done, code)
  PROVE  /\ generation' \in Nat
         /\ latched' \in BOOLEAN
         /\ queue' \in Seq(Calls) /\ Len(queue') <= Capacity
         /\ outcome' \in [Calls -> Outcomes]
         /\ waitSet' \subseteq Stops \cup {Worker}
<1>1. code \in Outcomes
  BY DEF Outcomes, Completions, Codes
<1>2. CompleteReceipts(done, QueuedReceipts, code) \in [Calls -> Outcomes]
  BY <1>1, CompletionType
<1>3. queue' = <<>>
  BY DEF Latch
<1>4. QED
  BY <1>2, <1>3, CapacityAssumption DEF Latch, NotifyAll, TypeOK

\* Noticing a dead worker keeps the types of what it assigns.
LEMMA DeadWorkerType ==
  ASSUME TypeOK, NoteDeadWorker
  PROVE  /\ accepting' \in BOOLEAN /\ closed' \in BOOLEAN
         /\ failed' \in BOOLEAN /\ latched' \in BOOLEAN
         /\ generation' \in Nat
         /\ queue' \in Seq(Calls) /\ Len(queue') <= Capacity
         /\ outcome' \in [Calls -> Outcomes]
         /\ waitSet' \subseteq Stops \cup {Worker}
<1>1. CASE worker = "dead" /\ ~closed
  <2>1. "UNSAFE_STATE" \in Codes
    BY DEF Codes
  <2>2. outcome \in [Calls -> Outcomes] /\ Latch(outcome, "UNSAFE_STATE")
    BY <1>1 DEF TypeOK, NoteDeadWorker
  <2>3. failed' \in BOOLEAN /\ accepting' \in BOOLEAN /\ closed' \in BOOLEAN
    BY <1>1 DEF TypeOK, NoteDeadWorker
  <2>4. QED
    BY <2>1, <2>2, <2>3, LatchType
<1>2. CASE ~(worker = "dead" /\ ~closed)
  BY <1>2 DEF TypeOK, NoteDeadWorker, flags
<1>3. QED
  BY <1>1, <1>2

\* A step that leaves the flags alone leaves their types alone.
LEMMA ReturnType ==
  ASSUME TypeOK, NEW u \in Users, NEW code \in Outcomes, Return(u, code)
  PROVE  pc' \in [Threads -> Places] /\ answer' \in [Users -> Outcomes]
BY DEF TypeOK, Return, Places

\* Type correctness is inductive by itself.
LEMMA TypeCorrect == Spec => []TypeOK
<1>1. Init => TypeOK
  <2> SUFFICES ASSUME Init PROVE TypeOK
    OBVIOUS
  <2>1. queue \in Seq(Calls) /\ Len(queue) <= Capacity
    BY CapacityAssumption DEF Init
  <2>2. permit \in [Users -> Nat \cup {None, Refused}]
    BY DEF Init
  <2>3. pc \in [Threads -> Places]
    BY DEF Init, Places
  <2>4. outcome \in [Calls -> Outcomes] /\ answer \in [Users -> Outcomes]
    BY DEF Init, Outcomes
  <2>5. stopResult \in [Stops -> Results] /\ startResult \in [Starts -> Results]
    BY DEF Init, Results
  <2>6. ran \in [Users -> Nat]
    BY DEF Init
  <2> QED BY <2>1, <2>2, <2>3, <2>4, <2>5, <2>6 DEF Init, TypeOK
<1>2. TypeOK /\ [Next]_vars => TypeOK'
  <2> SUFFICES ASSUME TypeOK, [Next]_vars PROVE TypeOK'
    OBVIOUS
  <2>1. ASSUME NEW s \in Starts, Start(s) PROVE TypeOK'
    <3>1. pc' \in [Threads -> Places]
      BY <2>1 DEF Start, TypeOK, Places
    <3>2. startResult' \in [Starts -> Results]
      BY <2>1 DEF Start, TypeOK, Results, WorkerReady
    <3>3. worker' \in {"none", "idle", "command", "returned", "raised", "finally", "dead"}
      BY <2>1 DEF Start, TypeOK
    <3>4. /\ accepting' \in BOOLEAN /\ closed' \in BOOLEAN
          /\ failed' \in BOOLEAN /\ latched' \in BOOLEAN
          /\ generation' \in Nat
          /\ queue' \in Seq(Calls) /\ Len(queue') <= Capacity
          /\ outcome' \in [Calls -> Outcomes]
          /\ waitSet' \subseteq Stops \cup {Worker}
      <4>1. CASE NoteDeadWorker
        BY <4>1, DeadWorkerType
      <4>2. CASE ~NoteDeadWorker
        BY <2>1, <4>2 DEF Start, TypeOK, flags, NotifyAll
      <4>3. QED BY <4>1, <4>2
    <3>5. QED
      BY <2>1, <3>1, <3>2, <3>3, <3>4 DEF Start, TypeOK
  <2>2. ASSUME NEW u \in Users, Issue(u) PROVE TypeOK'
    <3>1. permit' \in [Users -> Nat \cup {None, Refused}]
      BY <2>2 DEF Issue, TypeOK
    <3>2. CASE NoteDeadWorker
      BY <2>2, <3>1, <3>2, DeadWorkerType DEF Issue, TypeOK
    <3>3. CASE ~NoteDeadWorker
      BY <2>2, <3>1, <3>3 DEF Issue, TypeOK, flags
    <3>4. QED BY <3>2, <3>3
  <2>3. ASSUME NEW u \in Users, Rejected(u) PROVE TypeOK'
    <3>1. pc' \in [Threads -> Places] /\ answer' \in [Users -> Outcomes]
      BY <2>3, ReturnType DEF Rejected, Refuse, Outcomes, Completions, Codes
    <3>2. CASE NoteDeadWorker
      BY <2>3, <3>1, <3>2, DeadWorkerType DEF Rejected, TypeOK
    <3>3. CASE ~NoteDeadWorker
      BY <2>3, <3>1, <3>3 DEF Rejected, Refuse, TypeOK, flags
    <3>4. QED BY <3>2, <3>3
  <2>4. ASSUME NEW c \in Calls, SubmitOverflow(c) PROVE TypeOK'
    <3>1. pc' \in [Threads -> Places] /\ answer' \in [Users -> Outcomes]
      BY <2>4, ReturnType DEF SubmitOverflow, Outcomes, Completions, Codes, Users
    <3>2. "ESTOP_LATCHED" \in Codes
      BY DEF Codes
    <3>3. QED
      BY <2>4, <3>1, <3>2, LatchType DEF SubmitOverflow, TypeOK
  <2>5. ASSUME NEW c \in Calls, Submit(c) PROVE TypeOK'
    <3>1. pc' \in [Threads -> Places]
      BY <2>5 DEF Submit, TypeOK, Places
    <3>2. queue' \in Seq(Calls) /\ Len(queue') <= Capacity
      BY <2>5, CapacityAssumption DEF Submit, TypeOK, QueueFull
    <3>3. waitSet' \subseteq Stops \cup {Worker}
      BY <2>5 DEF Submit, TypeOK, NotifyOne
    <3>4. QED
      BY <2>5, <3>1, <3>2, <3>3 DEF Submit, TypeOK, flags
  <2>6. ASSUME NEW c \in Calls, SubmitReturn(c) PROVE TypeOK'
    <3>1. pc' \in [Threads -> Places] /\ answer' \in [Users -> Outcomes]
      BY <2>6, ReturnType DEF SubmitReturn, Users, TypeOK
    <3>2. QED
      BY <2>6, <3>1 DEF SubmitReturn, TypeOK, flags
  <2>7. ASSUME NEW c \in Calls, SubmitExpire(c) PROVE TypeOK'
    BY <2>7 DEF SubmitExpire, TypeOK, flags, Places
  <2>8. ASSUME NEW c \in Calls, SubmitTimeout(c) PROVE TypeOK'
    <3>1. "TIMEOUT" \in Outcomes /\ "ESTOP_LATCHED" \in Codes
      BY DEF Outcomes, Completions, Codes
    <3>2. pc' \in [Threads -> Places] /\ answer' \in [Users -> Outcomes]
      BY <2>8, <3>1, ReturnType DEF SubmitTimeout, Users, TypeOK
    <3>3. CompleteReceipts(outcome, {c}, "TIMEOUT") \in [Calls -> Outcomes]
      BY <3>1, CompletionType DEF TypeOK
    <3>4. QED
      BY <2>8, <3>1, <3>2, <3>3, LatchType DEF SubmitTimeout, TypeOK
  <2>9. ASSUME NEW o \in OwnedCalls, SubmitOwned(o) PROVE TypeOK'
    <3>1. pc' \in [Threads -> Places] /\ answer' \in [Users -> Outcomes]
      BY <2>9, ReturnType DEF SubmitOwned, Outcomes, Completions, Users
    <3>2. ran' \in [Users -> Nat]
      BY <2>9 DEF SubmitOwned, TypeOK, Users
    <3>3. QED
      BY <2>9, <3>1, <3>2 DEF SubmitOwned, TypeOK, flags
  <2>10. CASE WorkerWait \/ WorkerExit
    BY <2>10 DEF WorkerWait, WorkerExit, TypeOK, flags
  <2>11. CASE WorkerDequeue
    <3>1. Head(queue) \in Calls /\ Tail(queue) \in Seq(Calls)
          /\ Len(Tail(queue)) <= Capacity
      BY <2>11, CapacityAssumption DEF WorkerDequeue, TypeOK
    <3>2. "ESTOP_LATCHED" \in Outcomes
      BY DEF Outcomes, Completions, Codes
    <3>3. outcome' \in [Calls -> Outcomes]
      BY <2>11, <3>2, CompletionType DEF WorkerDequeue, TypeOK
    <3>4. inFlight' \in Calls \cup {None}
          /\ worker' \in {"idle", "command"}
      BY <2>11, <3>1 DEF WorkerDequeue, WorkerAwake, TypeOK
    <3>5. QED
      BY <2>11, <3>1, <3>3, <3>4 DEF WorkerDequeue, TypeOK, flags
  <2>12. CASE RunCommand
    <3>1. ran' \in [Users -> Nat]
      <4>1. CASE inFlight \in Users
        BY <2>12, <4>1 DEF RunCommand, TypeOK
      <4>2. CASE inFlight \notin Users
        BY <2>12, <4>2 DEF RunCommand, TypeOK
      <4>3. QED BY <4>1, <4>2
    <3>2. QED
      BY <2>12, <3>1 DEF RunCommand, TypeOK, flags
  <2>13. CASE CompleteValue
    <3>1. outcome' \in [Calls -> Outcomes]
      <4>1. "VALUE" \in Outcomes
        BY DEF Outcomes, Completions
      <4>2. QED
        BY <2>13, <4>1, CompletionType DEF CompleteValue, TypeOK
    <3>2. QED
      BY <2>13, <3>1 DEF CompleteValue, TypeOK, flags
  <2>14. CASE CompleteError
    <3>1. "ERROR" \in Outcomes /\ "UNSAFE_STATE" \in Outcomes
      BY DEF Outcomes, Completions, Codes
    <3>2. CompleteReceipts(outcome, {inFlight}, "ERROR") \in [Calls -> Outcomes]
      BY <3>1, CompletionType DEF TypeOK
    <3>3. outcome' \in [Calls -> Outcomes]
      BY <2>14, <3>1, <3>2, CompletionType DEF CompleteError
    <3>4. queue' \in Seq(Calls) /\ Len(queue') <= Capacity
      BY <2>14, EmptyQueue DEF CompleteError
    <3>5. accepting' \in BOOLEAN /\ failed' \in BOOLEAN /\ latched' \in BOOLEAN
      BY <2>14 DEF CompleteError
    <3>6. generation' \in Nat
      BY <2>14 DEF CompleteError, TypeOK
    <3>7. worker' \in {"none", "idle", "command", "returned", "raised", "finally", "dead"}
      BY <2>14 DEF CompleteError
    <3>8. QED
      BY <2>14, <3>3, <3>4, <3>5, <3>6, <3>7 DEF CompleteError, TypeOK
  <2>15. CASE WorkerFinally
    BY <2>15 DEF WorkerFinally, TypeOK, flags, NotifyAll
  <2>16. ASSUME NEW s \in Stops, StopLatch(s) PROVE TypeOK'
    <3>1. "ESTOP_LATCHED" \in Outcomes
      BY DEF Outcomes, Completions, Codes
    <3>2. outcome' \in [Calls -> Outcomes]
      BY <2>16, <3>1, CompletionType DEF StopLatch, TypeOK
    <3>3. pc' \in [Threads -> Places]
      BY <2>16 DEF StopLatch, TypeOK, Places
    <3>5. stopResult' \in [Stops -> Results]
      BY <2>16 DEF StopLatch, TypeOK, Results
    <3>6. waitSet' \subseteq Stops \cup {Worker}
      BY <2>16 DEF StopLatch, NotifyAll
    <3>4. QED
      BY <2>16, <3>2, <3>3, <3>5, <3>6, EmptyQueue DEF StopLatch, TypeOK
  <2>17. ASSUME NEW s \in Stops, StopStep(s) PROVE TypeOK'
    <3>1. CASE StopRewait(s)
      BY <3>1 DEF StopRewait, TypeOK, flags
    <3>2. CASE StopReturns(s)
      BY <3>2 DEF StopReturns, TypeOK, flags, Places, Results, Quiet
    <3>3. QED
      BY <2>17, <3>1, <3>2 DEF StopStep, StopAwake, StopExpire
  <2>18. CASE BeginClose
    <3>1. "UNSAFE_STATE" \in Outcomes
      BY DEF Outcomes, Completions, Codes
    <3>2. outcome' \in [Calls -> Outcomes]
      BY <2>18, <3>1, CompletionType DEF BeginClose, TypeOK
    <3>3. pc' \in [Threads -> Places]
      BY <2>18 DEF BeginClose, TypeOK, Places
    <3>4. queue' \in Seq(Calls) /\ Len(queue') <= Capacity
      BY <2>18, EmptyQueue DEF BeginClose
    <3>5. waitSet' \subseteq Stops \cup {Worker}
      BY <2>18 DEF BeginClose, NotifyAll
    <3>6. accepting' \in BOOLEAN /\ closed' \in BOOLEAN /\ latched' \in BOOLEAN
      BY <2>18 DEF BeginClose
    <3>7. generation' \in Nat
      BY <2>18 DEF BeginClose, TypeOK
    <3>8. QED
      BY <2>18, <3>2, <3>3, <3>4, <3>5, <3>6, <3>7 DEF BeginClose, TypeOK
  <2>19. CASE CloseReturn
    BY <2>19 DEF CloseReturn, TypeOK, flags, Places
  <2>20. CASE Finished \/ UNCHANGED vars
    BY <2>20 DEF Finished, vars, TypeOK
  <2>21. CASE Next
    BY <2>21, <2>1, <2>2, <2>3, <2>4, <2>5, <2>6, <2>7, <2>8, <2>9, <2>10, <2>11, <2>12,
       <2>13, <2>14, <2>15, <2>16, <2>17, <2>18, <2>19, <2>20
       DEF Next, CallStep, WorkerStep
  <2>22. QED
    BY <2>20, <2>21
<1>3. QED
  BY <1>1, <1>2, PTL DEF Spec

-----------------------------------------------------------------------------
(* The worker and the latch.                                               *)

\* The worker and latch parts of the invariant hold initially.
LEMMA WorkerLatchInit == Init => WorkerInv /\ LatchInv
<1> SUFFICES ASSUME Init PROVE WorkerInv /\ LatchInv
  OBVIOUS
<1>1. WorkerInv
  BY DEF Init, WorkerInv, Busy, NoLostWakeup
<1>2. ~Quiesced
  BY NamesAssumption DEF Init, Quiesced
<1>3. \A t \in Threads : pc[t] = "new"
  BY DEF Init
<1>4. LatchInv
  BY <1>2, <1>3 DEF Init, LatchInv, NothingQueuedBehindLatch, Threads, Closer
<1> QED BY <1>1, <1>4

\* The worker and latch parts of the invariant are inductive.
LEMMA WorkerLatchStep ==
  TypeOK /\ WorkerInv /\ LatchInv /\ [Next]_vars => WorkerInv' /\ LatchInv'
<1> SUFFICES ASSUME TypeOK, WorkerInv, LatchInv, [Next]_vars
             PROVE  WorkerInv' /\ LatchInv'
  OBVIOUS
<1> USE DEF WorkerInv, LatchInv, Busy, NoLostWakeup, NothingQueuedBehindLatch, Quiesced
<1>1. ASSUME NEW s \in Starts, Start(s) PROVE WorkerInv' /\ LatchInv'
  BY <1>1, InvocationsAssumption DEF Start, NoteDeadWorker, Latch, NotifyAll, flags, TypeOK,
     WorkerReady, Closer, Threads
<1>2. ASSUME NEW u \in Users, Issue(u) PROVE WorkerInv' /\ LatchInv'
  BY <1>2 DEF Issue, NoteDeadWorker, Latch, NotifyAll, flags, TypeOK, WorkerReady
<1>3. ASSUME NEW u \in Users, Rejected(u) PROVE WorkerInv' /\ LatchInv'
  BY <1>3, InvocationsAssumption DEF Rejected, Refuse, Return, NoteDeadWorker, Latch, NotifyAll, flags, TypeOK, WorkerReady, Users, Threads, Closer
<1>4. ASSUME NEW c \in Calls, SubmitOverflow(c) PROVE WorkerInv' /\ LatchInv'
  BY <1>4, InvocationsAssumption DEF SubmitOverflow, Return, Latch, NotifyAll, TypeOK, Users, Threads, Closer
<1>5. ASSUME NEW c \in Calls, Submit(c) PROVE WorkerInv' /\ LatchInv'
  BY <1>5, InvocationsAssumption DEF Submit, Admitted, Stale, NotifyOne, flags, TypeOK, Users, Threads, Closer
<1>6. ASSUME NEW c \in Calls, CallStep(c) PROVE WorkerInv' /\ LatchInv'
  BY <1>6, InvocationsAssumption DEF CallStep, SubmitReturn, SubmitExpire, SubmitTimeout, Return, Latch, NotifyAll, flags, TypeOK, Users, Threads, Closer
<1>7. ASSUME NEW o \in OwnedCalls, SubmitOwned(o) PROVE WorkerInv' /\ LatchInv'
  BY <1>7, InvocationsAssumption DEF SubmitOwned, Return, flags, TypeOK, Users, Threads, Closer
<1>8. CASE WorkerWait \/ WorkerExit
  BY <1>8, NamesAssumption DEF WorkerWait, WorkerExit, WorkerAwake, flags, TypeOK
<1>9. CASE WorkerDequeue
  BY <1>9, NamesAssumption DEF WorkerDequeue, WorkerAwake, flags, TypeOK
<1>10. CASE RunCommand \/ CompleteValue \/ CompleteError \/ WorkerFinally
  BY <1>10 DEF RunCommand, CompleteValue, CompleteError, WorkerFinally, NotifyAll, flags, TypeOK
<1>11. ASSUME NEW s \in Stops, StopLatch(s) PROVE WorkerInv' /\ LatchInv'
  BY <1>11, InvocationsAssumption, NamesAssumption DEF StopLatch, Quiet, NotifyAll, TypeOK, Threads, Closer
<1>12. ASSUME NEW s \in Stops, StopStep(s) PROVE WorkerInv' /\ LatchInv'
  BY <1>12, InvocationsAssumption, NamesAssumption DEF StopStep, StopRewait, StopAwake, StopExpire, StopReturns, Quiet, flags, TypeOK, Threads, Closer
<1>13. CASE BeginClose
  BY <1>13, InvocationsAssumption DEF BeginClose, NotifyAll, TypeOK, Threads, Closer
<1>14. CASE CloseReturn
  BY <1>14, InvocationsAssumption DEF CloseReturn, ClosedCleanly, flags, TypeOK, Threads, Closer
<1>15. CASE Finished \/ UNCHANGED vars
  BY <1>15 DEF Finished, vars
<1>16. CASE Next
  BY <1>16, <1>1, <1>2, <1>3, <1>4, <1>5, <1>6, <1>7, <1>8, <1>9, <1>10, <1>11,
     <1>12, <1>13, <1>14, <1>15 DEF Next, WorkerStep
<1>17. QED
  BY <1>15, <1>16

-----------------------------------------------------------------------------
(* Receipts.                                                               *)

\* Appending a call that is not queued keeps the queue free of repetitions.
LEMMA AppendFacts ==
  ASSUME NEW S, NEW q \in Seq(S), NEW c \in S
  PROVE  /\ ToSet(Append(q, c)) = ToSet(q) \cup {c}
         /\ IsInjective(q) /\ c \notin ToSet(q) => IsInjective(Append(q, c))
<1>1. /\ DOMAIN Append(q, c) = 1..(Len(q) + 1)
      /\ DOMAIN q = 1..Len(q)
      /\ Append(q, c)[Len(q) + 1] = c
      /\ \A i \in 1..Len(q) : Append(q, c)[i] = q[i]
  OBVIOUS
<1>2. Len(q) \in Nat
  OBVIOUS
<1>3. ToSet(Append(q, c)) = ToSet(q) \cup {c}
  BY <1>1, <1>2 DEF ToSet
<1>4. ASSUME IsInjective(q), c \notin ToSet(q) PROVE IsInjective(Append(q, c))
  BY <1>1, <1>2, <1>4 DEF ToSet, IsInjective
<1>5. QED BY <1>3, <1>4

\* Taking the head of a queue without repetitions removes it from the queue.
LEMMA TailFacts ==
  ASSUME NEW S, NEW q \in Seq(S), q # <<>>, IsInjective(q)
  PROVE  /\ Head(q) \in ToSet(q)
         /\ ToSet(Tail(q)) = ToSet(q) \ {Head(q)}
         /\ IsInjective(Tail(q))
<1>1. /\ Len(q) \in Nat /\ Len(q) >= 1
      /\ DOMAIN Tail(q) = 1..(Len(q) - 1)
      /\ DOMAIN q = 1..Len(q)
      /\ Head(q) = q[1]
      /\ \A i \in 1..(Len(q) - 1) : Tail(q)[i] = q[i + 1]
  OBVIOUS
<1>2. Head(q) \in ToSet(q)
  BY <1>1 DEF ToSet
<1>3. ToSet(Tail(q)) \subseteq ToSet(q) \ {Head(q)}
  <2> SUFFICES ASSUME NEW i \in 1..(Len(q) - 1)
               PROVE  q[i + 1] \in ToSet(q) /\ q[i + 1] # q[1]
    BY <1>1 DEF ToSet
  <2>1. i + 1 \in DOMAIN q /\ 1 \in DOMAIN q /\ i + 1 # 1
    BY <1>1
  <2>2. QED BY <2>1 DEF ToSet, IsInjective
<1>4. ToSet(q) \ {Head(q)} \subseteq ToSet(Tail(q))
  <2> SUFFICES ASSUME NEW i \in 1..Len(q), q[i] # q[1]
               PROVE  q[i] \in ToSet(Tail(q))
    BY <1>1 DEF ToSet
  <2>1. i - 1 \in 1..(Len(q) - 1) /\ Tail(q)[i - 1] = q[i]
    BY <1>1
  <2>2. QED BY <1>1, <2>1 DEF ToSet
<1>5. IsInjective(Tail(q))
  <2> SUFFICES ASSUME NEW i \in 1..(Len(q) - 1), NEW j \in 1..(Len(q) - 1),
                      q[i + 1] = q[j + 1]
               PROVE  i = j
    BY <1>1 DEF IsInjective
  <2>1. i + 1 \in DOMAIN q /\ j + 1 \in DOMAIN q
    BY <1>1
  <2>2. QED BY <2>1 DEF IsInjective
<1>6. QED BY <1>2, <1>3, <1>4, <1>5

\* The empty queue holds nobody, once.
LEMMA EmptyFacts == ToSet(<<>>) = {} /\ IsInjective(<<>>)
BY DEF ToSet, IsInjective

\* The receipt part of the invariant holds initially.
LEMMA ReceiptInit == Init => ReceiptInv
<1> SUFFICES ASSUME Init PROVE ReceiptInv
  OBVIOUS
<1>1. QueuedReceipts = {} /\ IsInjective(queue)
  BY EmptyFacts DEF Init, QueuedReceipts
<1>2. ASSUME NEW c \in Calls PROVE CallInv(c)
  BY <1>1, NamesAssumption DEF Init, CallInv, Users, Threads, Refusals, Completions
<1>3. ASSUME NEW o \in OwnedCalls PROVE OwnedInv(o)
  BY NamesAssumption DEF Init, OwnedInv, Users, Threads, Refusals, Completions
<1>4. QED BY <1>1, <1>2, <1>3 DEF ReceiptInv

\* A drain of the queue keeps what is known of a call that did not move.
LEMMA DrainKeepsCall ==
  ASSUME TypeOK, ReceiptInv, NEW c \in Calls, NEW code \in Refusals,
         queue' = <<>>,
         outcome' = CompleteReceipts(outcome, QueuedReceipts, code),
         UNCHANGED <<inFlight, worker, ran>>,
         pc'[c] = pc[c], answer'[c] = answer[c]
  PROVE  CallInv(c)'
<1>1. QueuedReceipts' = {}
  BY EmptyFacts DEF QueuedReceipts
<1>2. outcome'[c] = IF c \in QueuedReceipts /\ outcome[c] = None THEN code ELSE outcome[c]
  BY DEF CompleteReceipts
<1>3. CallInv(c)
  BY DEF ReceiptInv
<1>4. QED
  BY <1>1, <1>2, <1>3, NamesAssumption DEF CallInv, Refusals, Codes, Completions, TypeOK, Users, Outcomes

\* What NoteDeadWorker does to a call that did not move.
LEMMA DeadWorkerKeepsCall ==
  ASSUME TypeOK, ReceiptInv, NEW c \in Calls,
         NoteDeadWorker,
         UNCHANGED <<inFlight, worker, ran>>,
         pc'[c] = pc[c], answer'[c] = answer[c]
  PROVE  CallInv(c)'
<1>1. CASE worker = "dead" /\ ~closed
  <2>1. "UNSAFE_STATE" \in Refusals
    BY DEF Refusals, Codes
  <2>2. queue' = <<>> /\ outcome' = CompleteReceipts(outcome, QueuedReceipts, "UNSAFE_STATE")
    BY <1>1 DEF NoteDeadWorker, Latch
  <2>3. QED BY <2>1, <2>2, DrainKeepsCall
<1>2. CASE ~(worker = "dead" /\ ~closed)
  BY <1>2 DEF NoteDeadWorker, ReceiptInv, CallInv, QueuedReceipts
<1>3. QED BY <1>1, <1>2

\* No step queues a call twice, or one that is in flight.
LEMMA InjectiveStep ==
  TypeOK /\ ReceiptInv /\ [Next]_vars => IsInjective(queue)'
<1> SUFFICES ASSUME TypeOK, ReceiptInv, [Next]_vars PROVE IsInjective(queue)'
  OBVIOUS
<1>1. CASE queue' = <<>>
  BY <1>1, EmptyFacts
<1>2. CASE queue' = queue
  BY <1>2 DEF ReceiptInv
<1>3. ASSUME NEW c \in Calls, Submit(c) PROVE IsInjective(queue)'
  <2>1. c \notin ToSet(queue) /\ queue' = Append(queue, c)
    BY <1>3 DEF Submit, ReceiptInv, CallInv, QueuedReceipts
  <2>2. QED BY <2>1, AppendFacts DEF ReceiptInv, TypeOK
<1>4. CASE WorkerDequeue
  BY <1>4, TailFacts DEF WorkerDequeue, ReceiptInv, TypeOK
<1>5. CASE Next /\ ~WorkerDequeue /\ \A c \in Calls : ~Submit(c)
  BY <1>1, <1>2, <1>5
     DEF Next, CallStep, WorkerStep, Start, Issue, Rejected, Refuse, SubmitOverflow,
         SubmitReturn, SubmitExpire, SubmitTimeout, SubmitOwned, WorkerWait, WorkerExit,
         RunCommand, CompleteValue, CompleteError, WorkerFinally, StopLatch, StopStep,
         StopRewait, StopAwake, StopExpire, StopReturns, BeginClose, CloseReturn,
         Finished, NoteDeadWorker, Latch, vars
<1>6. CASE UNCHANGED vars
  BY <1>2, <1>6 DEF vars
<1>7. QED
  BY <1>3, <1>4, <1>5, <1>6

\* Owned commands run exactly when their caller is answered.
LEMMA OwnedStep ==
  ASSUME TypeOK, ReceiptInv, [Next]_vars, NEW o \in OwnedCalls
  PROVE  OwnedInv(o)'
<1>1. OwnedInv(o) /\ o \in Users /\ o \in Threads /\ o \notin Calls
      /\ o \notin Stops \cup Starts /\ o # Closer
  BY InvocationsAssumption DEF ReceiptInv, Users, Threads, Closer
<1>2. CASE pc'[o] = pc[o] /\ answer'[o] = answer[o] /\ ran'[o] = ran[o]
  BY <1>1, <1>2 DEF OwnedInv
<1>3. CASE SubmitOwned(o)
  BY <1>1, <1>3, NamesAssumption DEF SubmitOwned, Return, OwnedInv, TypeOK, Refusals, Codes, Completions
<1>4. CASE Rejected(o)
  BY <1>1, <1>4, NamesAssumption DEF Rejected, Refuse, Return, OwnedInv, TypeOK, Refusals, Codes, Completions
<1>5. CASE Next /\ ~SubmitOwned(o) /\ ~Rejected(o)
  <2>1. pc'[o] = pc[o]
    BY <1>1, <1>5
     DEF Next, CallStep, WorkerStep, Start, Issue, Rejected, Refuse, SubmitOverflow, Submit,
         SubmitReturn, SubmitExpire, SubmitTimeout, SubmitOwned, WorkerWait, WorkerExit,
         WorkerDequeue, RunCommand, CompleteValue, CompleteError, WorkerFinally, StopLatch, StopStep,
         StopRewait, StopAwake, StopExpire, StopReturns, BeginClose, CloseReturn,
         Finished, Return, vars, TypeOK
  <2>2. answer'[o] = answer[o]
    BY <1>1, <1>5
     DEF Next, CallStep, WorkerStep, Start, Issue, Rejected, Refuse, SubmitOverflow, Submit,
         SubmitReturn, SubmitExpire, SubmitTimeout, SubmitOwned, WorkerWait, WorkerExit,
         WorkerDequeue, RunCommand, CompleteValue, CompleteError, WorkerFinally, StopLatch, StopStep,
         StopRewait, StopAwake, StopExpire, StopReturns, BeginClose, CloseReturn,
         Finished, Return, vars, TypeOK
  <2>3. ran'[o] = ran[o]
    BY <1>1, <1>5, NamesAssumption
     DEF Next, CallStep, WorkerStep, Start, Issue, Rejected, SubmitOverflow, Submit,
         SubmitReturn, SubmitExpire, SubmitTimeout, SubmitOwned, WorkerWait, WorkerExit,
         WorkerDequeue, RunCommand, CompleteValue, CompleteError, WorkerFinally, StopLatch, StopStep,
         StopRewait, StopAwake, StopExpire, StopReturns, BeginClose, CloseReturn,
         Finished, vars, TypeOK
  <2>4. QED BY <1>2, <2>1, <2>2, <2>3
<1>6. CASE UNCHANGED vars
  BY <1>2, <1>6 DEF vars
<1>7. QED
  BY <1>3, <1>4, <1>5, <1>6

\* The position of a call, its receipt and its execution stay in agreement.
LEMMA CallsStep ==
  ASSUME TypeOK, WorkerInv, LatchInv, ReceiptInv, [Next]_vars, NEW c \in Calls
  PROVE  CallInv(c)'
<1>1. /\ CallInv(c) /\ c \in Users /\ c \in Threads /\ c \notin OwnedCalls
      /\ c \notin Stops \cup Starts /\ c # Closer /\ c # None
  BY InvocationsAssumption, NamesAssumption DEF ReceiptInv, Users, Threads, Closer
<1>2. ASSUME NEW s \in Starts, Start(s) PROVE CallInv(c)'
  <2>1. pc'[c] = pc[c] /\ UNCHANGED <<inFlight, ran, answer>>
    BY <1>1, <1>2 DEF Start, TypeOK
  <2>2. CASE worker # "none" /\ ~WorkerReady
    <3>1. NoteDeadWorker /\ UNCHANGED worker
      BY <1>2, <2>2 DEF Start
    <3>2. QED BY <2>1, <3>1, DeadWorkerKeepsCall
  <2>3. CASE ~(worker # "none" /\ ~WorkerReady)
    <3>1. UNCHANGED <<queue, outcome>>
      BY <1>2, <2>3 DEF Start
    <3>2. worker' = worker \/ (worker = "none" /\ worker' = "idle")
      BY <1>2, <2>3 DEF Start
    <3>3. QED
      BY <1>1, <2>1, <3>1, <3>2, NamesAssumption DEF CallInv, WorkerInv, Busy, QueuedReceipts
  <2>4. QED BY <2>2, <2>3
<1>3. ASSUME NEW u \in Users, Issue(u) PROVE CallInv(c)'
  <2>1. UNCHANGED <<inFlight, worker, ran, answer, pc>>
    BY <1>3 DEF Issue
  <2>2. CASE NoteDeadWorker
    BY <2>1, <2>2, DeadWorkerKeepsCall
  <2>3. CASE ~NoteDeadWorker
    <3>1. UNCHANGED <<queue, outcome>>
      BY <1>3, <2>3 DEF Issue
    <3>2. QED BY <1>1, <2>1, <3>1 DEF CallInv, QueuedReceipts
  <2>4. QED BY <2>2, <2>3
<1>4. ASSUME NEW u \in Users, Rejected(u) PROVE CallInv(c)'
  <2>1. UNCHANGED <<inFlight, worker, ran>>
    BY <1>4 DEF Rejected
  <2>2. \E code \in Refusals : Return(u, code)
    BY <1>4 DEF Rejected, Refuse, Refusals, Codes
  <2>3. CASE u # c
    <3>1. pc'[c] = pc[c] /\ answer'[c] = answer[c]
      BY <1>1, <2>2, <2>3 DEF Return, TypeOK
    <3>2. CASE NoteDeadWorker
      BY <2>1, <3>1, <3>2, DeadWorkerKeepsCall
    <3>3. CASE ~NoteDeadWorker
      <4>1. UNCHANGED <<queue, outcome>>
        BY <1>4, <3>3 DEF Rejected, Refuse
      <4>2. QED BY <1>1, <2>1, <3>1, <4>1 DEF CallInv, QueuedReceipts
    <3>4. QED BY <3>2, <3>3
  <2>4. CASE u = c
    <3>1. /\ pc'[c] = "returned" /\ answer'[c] \in Refusals
          /\ ran[c] = 0 /\ outcome[c] = None /\ c # inFlight /\ c \notin QueuedReceipts
      BY <1>1, <1>4, <2>2, <2>4 DEF Return, TypeOK, Rejected, CallInv
    <3>2. outcome'[c] = outcome[c]
      BY <1>4, <3>1 DEF Rejected, Refuse, NoteDeadWorker, Latch, CompleteReceipts
    <3>3. c \notin QueuedReceipts'
      BY <1>4, <3>1, EmptyFacts DEF Rejected, Refuse, NoteDeadWorker, Latch, QueuedReceipts
    <3>4. QED
      BY <2>1, <3>1, <3>2, <3>3, NamesAssumption DEF CallInv, Refusals, Codes, Completions
  <2>5. QED BY <2>3, <2>4
<1>5. ASSUME NEW d \in Calls, SubmitOverflow(d) PROVE CallInv(c)'
  <2>1. /\ "ESTOP_LATCHED" \in Refusals /\ "UNSAFE_STATE" \in Refusals
    BY DEF Refusals, Codes
  <2>2. /\ queue' = <<>>
        /\ outcome' = CompleteReceipts(outcome, QueuedReceipts, "ESTOP_LATCHED")
        /\ UNCHANGED <<inFlight, worker, ran>>
    BY <1>5 DEF SubmitOverflow, Latch
  <2>3. CASE d # c
    <3>1. pc'[c] = pc[c] /\ answer'[c] = answer[c]
      BY <1>1, <1>5, <2>3 DEF SubmitOverflow, Return, TypeOK
    <3>2. QED BY <2>1, <2>2, <3>1, DrainKeepsCall
  <2>4. CASE d = c
    <3>1. /\ pc'[c] = "returned" /\ answer'[c] \in Refusals
          /\ ran[c] = 0 /\ outcome[c] = None /\ c # inFlight /\ c \notin QueuedReceipts
      BY <1>1, <1>5, <2>1, <2>4 DEF SubmitOverflow, Return, TypeOK, CallInv, Users
    <3>2. outcome'[c] = outcome[c] /\ c \notin QueuedReceipts'
      BY <2>2, <3>1, EmptyFacts DEF CompleteReceipts, QueuedReceipts
    <3>3. QED
      BY <2>2, <3>1, <3>2, NamesAssumption DEF CallInv, Refusals, Codes, Completions
  <2>5. QED BY <2>3, <2>4
<1>6. ASSUME NEW d \in Calls, Submit(d) PROVE CallInv(c)'
  <2>1. QueuedReceipts' = QueuedReceipts \cup {d}
    BY <1>6, AppendFacts DEF Submit, QueuedReceipts, TypeOK
  <2>2. UNCHANGED <<inFlight, worker, ran, outcome, answer>>
    BY <1>6 DEF Submit
  <2>3. IF d = c THEN pc[c] = "new" /\ pc'[c] = "waiting" ELSE pc'[c] = pc[c]
    BY <1>1, <1>6 DEF Submit, TypeOK
  <2>4. QED
    BY <1>1, <2>1, <2>2, <2>3, NamesAssumption DEF CallInv, Refusals, Codes, Completions
<1>7. ASSUME NEW d \in Calls, SubmitReturn(d) \/ SubmitExpire(d) PROVE CallInv(c)'
  <2>1. UNCHANGED <<inFlight, worker, ran, outcome, queue>>
    BY <1>7 DEF SubmitReturn, SubmitExpire
  <2>2. CASE d # c
    <3>1. pc'[c] = pc[c] /\ answer'[c] = answer[c]
      BY <1>1, <1>7, <2>2 DEF SubmitReturn, SubmitExpire, Return, TypeOK
    <3>2. QED BY <1>1, <2>1, <3>1 DEF CallInv, QueuedReceipts
  <2>3. CASE d = c
    <3>1. /\ pc[c] = "waiting"
          /\ \/ pc'[c] = "returned" /\ answer'[c] = outcome[c]
             \/ pc'[c] = "expired" /\ answer'[c] = answer[c]
      BY <1>1, <1>7, <2>3 DEF SubmitReturn, SubmitExpire, Return, TypeOK
    <3>2. QED BY <1>1, <2>1, <3>1 DEF CallInv, QueuedReceipts
  <2>4. QED BY <2>2, <2>3
<1>8. ASSUME NEW d \in Calls, SubmitTimeout(d) PROVE CallInv(c)'
  <2>1. UNCHANGED <<inFlight, worker, ran>>
    BY <1>8 DEF SubmitTimeout
  <2>2. CASE outcome[d] # None
    <3>1. UNCHANGED <<queue, outcome>>
      BY <1>8, <2>2 DEF SubmitTimeout
    <3>2. IF d = c THEN pc[c] = "expired" /\ pc'[c] = "returned" /\ answer'[c] = outcome[c]
                   ELSE pc'[c] = pc[c] /\ answer'[c] = answer[c]
      BY <1>1, <1>8, <2>2 DEF SubmitTimeout, Return, TypeOK
    <3>3. QED BY <1>1, <2>1, <3>1, <3>2 DEF CallInv, QueuedReceipts
  <2>3. CASE outcome[d] = None
    <3>1. QueuedReceipts' = {}
      BY <1>8, <2>3, EmptyFacts DEF SubmitTimeout, Latch, QueuedReceipts
    <3>2. outcome'[c] = IF c = d THEN "TIMEOUT"
                        ELSE IF c \in QueuedReceipts /\ outcome[c] = None
                        THEN "ESTOP_LATCHED" ELSE outcome[c]
      BY <1>8, <2>3, NamesAssumption DEF SubmitTimeout, Latch, CompleteReceipts, Completions, Codes
    <3>3. IF d = c THEN pc[c] = "expired" /\ pc'[c] = "returned" /\ answer'[c] = "TIMEOUT"
                   ELSE pc'[c] = pc[c] /\ answer'[c] = answer[c]
      BY <1>1, <1>8, <2>3 DEF SubmitTimeout, Return, TypeOK
    <3>4. worker = "finally" /\ c = inFlight => outcome[c] # None
      BY <1>1, NamesAssumption DEF CallInv, Completions, Codes
    <3>5. QED
      BY <1>1, <2>1, <2>3, <3>1, <3>2, <3>3, <3>4, NamesAssumption
         DEF CallInv, Refusals, Codes, Completions, TypeOK, Outcomes
  <2>4. QED BY <2>2, <2>3
<1>9. ASSUME NEW o \in OwnedCalls, SubmitOwned(o) PROVE CallInv(c)'
  <2>1. /\ pc'[c] = pc[c] /\ answer'[c] = answer[c] /\ ran'[c] = ran[c]
        /\ UNCHANGED <<inFlight, worker, queue, outcome>>
    BY <1>1, <1>9 DEF SubmitOwned, Return, TypeOK
  <2>2. QED BY <1>1, <2>1 DEF CallInv, QueuedReceipts
<1>10. CASE WorkerWait \/ WorkerExit
  <2>1. /\ UNCHANGED <<inFlight, ran, queue, outcome, pc, answer>>
        /\ worker = "idle" /\ worker' \in {"idle", "dead"}
    BY <1>10 DEF WorkerWait, WorkerExit, WorkerAwake
  <2>2. QED BY <1>1, <2>1 DEF CallInv, QueuedReceipts, WorkerInv, Busy
<1>11. CASE WorkerDequeue
  <2>1. /\ QueuedReceipts' = QueuedReceipts \ {Head(queue)}
        /\ Head(queue) \in QueuedReceipts
    BY <1>11, TailFacts DEF WorkerDequeue, ReceiptInv, QueuedReceipts, TypeOK
  <2>2. UNCHANGED <<ran, pc, answer>> /\ worker = "idle" /\ inFlight = None
    BY <1>11 DEF WorkerDequeue, WorkerAwake, WorkerInv, Busy
  <2>3. \/ /\ outcome' = CompleteReceipts(outcome, {Head(queue)}, "ESTOP_LATCHED")
           /\ UNCHANGED <<inFlight, worker>>
        \/ /\ inFlight' = Head(queue) /\ worker' = "command"
           /\ UNCHANGED outcome
    BY <1>11 DEF WorkerDequeue
  <2>4. CASE UNCHANGED <<inFlight, worker>>
    <3>1. outcome'[c] = IF c = Head(queue) /\ outcome[c] = None
                        THEN "ESTOP_LATCHED" ELSE outcome[c]
      BY <2>2, <2>3, <2>4 DEF CompleteReceipts
    <3>2. QED
      BY <1>1, <2>1, <2>2, <2>4, <3>1, NamesAssumption
         DEF CallInv, Refusals, Codes, Completions
  <2>5. CASE inFlight' = Head(queue) /\ worker' = "command" /\ UNCHANGED outcome
    BY <1>1, <2>1, <2>2, <2>5, NamesAssumption DEF CallInv, Refusals, Codes, Completions
  <2>6. QED BY <2>3, <2>4, <2>5
<1>12. CASE RunCommand
  <2>1. /\ UNCHANGED <<inFlight, queue, outcome, pc, answer>>
        /\ worker = "command" /\ worker' \in {"returned", "raised"}
        /\ ran'[c] = IF c = inFlight THEN ran[c] + 1 ELSE ran[c]
    BY <1>1, <1>12 DEF RunCommand, TypeOK
  <2>2. QED
    BY <1>1, <2>1, NamesAssumption DEF CallInv, QueuedReceipts, Refusals, Codes, Completions, TypeOK
<1>13. CASE CompleteValue
  <2>1. /\ UNCHANGED <<inFlight, queue, ran, pc, answer>>
        /\ worker = "returned" /\ worker' = "finally"
        /\ outcome'[c] = IF c = inFlight /\ outcome[c] = None THEN "VALUE" ELSE outcome[c]
    BY <1>13 DEF CompleteValue, CompleteReceipts
  <2>2. QED
    BY <1>1, <2>1, NamesAssumption DEF CallInv, QueuedReceipts, Refusals, Codes, Completions
<1>14. CASE CompleteError
  <2>1. /\ UNCHANGED <<inFlight, ran, pc, answer>>
        /\ worker = "raised" /\ worker' = "finally"
        /\ QueuedReceipts' = {}
    BY <1>14, EmptyFacts DEF CompleteError, QueuedReceipts
  <2>2. outcome'[c] = IF outcome[c] # None THEN outcome[c]
                      ELSE IF c = inFlight THEN "ERROR"
                      ELSE IF c \in QueuedReceipts THEN "UNSAFE_STATE" ELSE None
    BY <1>14, NamesAssumption DEF CompleteError, CompleteReceipts, Completions
  <2>3. QED
    BY <1>1, <2>1, <2>2, NamesAssumption DEF CallInv, Refusals, Codes, Completions
<1>15. CASE WorkerFinally
  <2>1. /\ UNCHANGED <<queue, outcome, ran, pc, answer>>
        /\ worker = "finally" /\ inFlight' = None
    BY <1>15 DEF WorkerFinally
  <2>2. QED
    BY <1>1, <2>1 DEF CallInv, QueuedReceipts
<1>16. ASSUME NEW s \in Stops, StopLatch(s) PROVE CallInv(c)'
  <2>1. "ESTOP_LATCHED" \in Refusals
    BY DEF Refusals, Codes
  <2>2. /\ queue' = <<>>
        /\ outcome' = CompleteReceipts(outcome, QueuedReceipts, "ESTOP_LATCHED")
        /\ UNCHANGED <<inFlight, worker, ran, answer>> /\ pc'[c] = pc[c]
    BY <1>1, <1>16 DEF StopLatch, TypeOK
  <2>3. QED BY <2>1, <2>2, DrainKeepsCall
<1>17. ASSUME NEW s \in Stops, StopStep(s) PROVE CallInv(c)'
  <2>1. UNCHANGED <<queue, outcome, inFlight, worker, ran, answer>> /\ pc'[c] = pc[c]
    BY <1>1, <1>17 DEF StopStep, StopRewait, StopAwake, StopExpire, StopReturns, TypeOK
  <2>2. QED BY <1>1, <2>1 DEF CallInv, QueuedReceipts
<1>18. CASE BeginClose
  <2>1. "UNSAFE_STATE" \in Refusals
    BY DEF Refusals, Codes
  <2>2. /\ queue' = <<>>
        /\ outcome' = CompleteReceipts(outcome, QueuedReceipts, "UNSAFE_STATE")
        /\ UNCHANGED <<inFlight, worker, ran, answer>> /\ pc'[c] = pc[c]
    BY <1>1, <1>18 DEF BeginClose, TypeOK
  <2>3. QED BY <2>1, <2>2, DrainKeepsCall
<1>19. CASE CloseReturn
  <2>1. UNCHANGED <<queue, outcome, inFlight, worker, ran, answer>> /\ pc'[c] = pc[c]
    BY <1>1, <1>19 DEF CloseReturn, TypeOK
  <2>2. QED BY <1>1, <2>1 DEF CallInv, QueuedReceipts
<1>20. CASE Finished \/ UNCHANGED vars
  BY <1>1, <1>20 DEF Finished, vars, CallInv, QueuedReceipts
<1>21. CASE Next
  BY <1>21, <1>2, <1>3, <1>4, <1>5, <1>6, <1>7, <1>8, <1>9, <1>10, <1>11, <1>12, <1>13,
     <1>14, <1>15, <1>16, <1>17, <1>18, <1>19, <1>20 DEF Next, CallStep, WorkerStep
<1>22. QED
  BY <1>20, <1>21

-----------------------------------------------------------------------------
(* The theorems.                                                           *)

\* The inductive invariant holds of every reachable state of the sequencer, for
\* any numbers of callers, stops and starts and any queue capacity.
THEOREM SequencerInvariant == Spec => []SequencerInv
<1>1. Init => WorkerInv /\ LatchInv /\ ReceiptInv
  BY WorkerLatchInit, ReceiptInit
<1>2. TypeOK /\ WorkerInv /\ LatchInv /\ ReceiptInv /\ [Next]_vars
        => (WorkerInv /\ LatchInv /\ ReceiptInv)'
  <2> SUFFICES ASSUME TypeOK, WorkerInv, LatchInv, ReceiptInv, [Next]_vars
               PROVE  WorkerInv' /\ LatchInv' /\ ReceiptInv'
    OBVIOUS
  <2>1. WorkerInv' /\ LatchInv'
    BY WorkerLatchStep
  <2>2. IsInjective(queue)'
    BY InjectiveStep
  <2>3. \A c \in Calls : CallInv(c)'
    BY CallsStep
  <2>4. \A o \in OwnedCalls : OwnedInv(o)'
    BY OwnedStep
  <2>5. QED BY <2>1, <2>2, <2>3, <2>4 DEF ReceiptInv
<1>3. QED
  BY <1>1, <1>2, TypeCorrect, PTL DEF Spec, SequencerInv

\* Type correctness of the sequencer: in particular the queue never exceeds
\* _QUEUE_CAPACITY.
THEOREM SequencerTypeCorrect == Spec => []TypeOK
BY TypeCorrect

\* No command is left in the queue once the emergency latch is set.
THEOREM LatchDrainsQueue == Spec => []NothingQueuedBehindLatch
<1>1. SequencerInv => NothingQueuedBehindLatch
  BY DEF SequencerInv, LatchInv
<1>2. QED
  BY <1>1, SequencerInvariant, PTL

\* The worker never sleeps through a submission or a close.
THEOREM WakeupsReachWorker == Spec => []NoLostWakeup
<1>1. SequencerInv => NoLostWakeup
  BY DEF SequencerInv, WorkerInv
<1>2. QED
  BY <1>1, SequencerInvariant, PTL

\* Callers are told the truth about their commands: a refused command never
\* runs, an answered one ran exactly once, none runs twice.
THEOREM AnswersAreTrue == Spec => []AnswerMatchesExecution
<1>1. SequencerInv => AnswerMatchesExecution
  <2> SUFFICES ASSUME SequencerInv, NEW u \in Users
               PROVE  /\ answer[u] \in Refusals => ran[u] = 0
                      /\ answer[u] \in {"VALUE", "ERROR"} => ran[u] = 1
                      /\ ran[u] <= 1
    BY DEF AnswerMatchesExecution
  <2>1. CASE u \in Calls
    <3>1. CallInv(u)
      BY <2>1 DEF SequencerInv, ReceiptInv
    <3>2. QED BY <3>1, NamesAssumption DEF CallInv, Refusals, Codes, Completions
  <2>2. CASE u \in OwnedCalls
    BY <2>2 DEF SequencerInv, ReceiptInv, OwnedInv
  <2>3. QED BY <2>1, <2>2 DEF Users
<1>2. QED
  BY <1>1, SequencerInvariant, PTL

\* Only the worker's command and an owned command run anything.
LEMMA RanChanges ==
  ASSUME [Next]_vars, ran' # ran
  PROVE  RunCommand \/ \E o \in OwnedCalls : SubmitOwned(o)
BY DEF Next, CallStep, WorkerStep, Start, Issue, Rejected, SubmitOverflow, Submit,
       SubmitReturn, SubmitExpire, SubmitTimeout, WorkerWait, WorkerExit,
       WorkerDequeue, CompleteValue, CompleteError, WorkerFinally, StopLatch, StopStep,
       StopRewait, StopAwake, StopExpire, StopReturns, BeginClose, CloseReturn,
       Finished, vars

\* After a stop was answered "quiesced" no activation command ever runs again.
THEOREM StopSilences == Spec => QuiescedMeansSilent
<1>1. SequencerInv /\ [Next]_vars => [Quiesced => ran' = ran]_vars
  <2> SUFFICES ASSUME SequencerInv, [Next]_vars, Quiesced, ran' # ran
               PROVE  FALSE
    OBVIOUS
  <2>1. latched /\ inFlight = None
    BY DEF SequencerInv, LatchInv
  <2>2. ~RunCommand
    BY <2>1 DEF RunCommand, SequencerInv, WorkerInv, Busy
  <2>3. \A o \in OwnedCalls : ~SubmitOwned(o)
    BY <2>1 DEF SubmitOwned, Admitted, Stale
  <2>4. QED BY <2>2, <2>3, RanChanges
<1>2. QED
  BY <1>1, SequencerInvariant, PTL DEF Spec, QuiescedMeansSilent

\* After a close that returned True no activation command ever runs again.
THEOREM CloseSilences == Spec => ClosedMeansSilent
<1>1. SequencerInv /\ [Next]_vars => [pc[Closer] = "closed" => ran' = ran]_vars
  <2> SUFFICES ASSUME SequencerInv, [Next]_vars, pc[Closer] = "closed", ran' # ran
               PROVE  FALSE
    OBVIOUS
  <2>1. closed /\ latched /\ inFlight = None
    BY DEF SequencerInv, LatchInv
  <2>2. ~RunCommand
    BY <2>1 DEF RunCommand, SequencerInv, WorkerInv, Busy
  <2>3. \A o \in OwnedCalls : ~SubmitOwned(o)
    BY <2>1 DEF SubmitOwned, Admitted, Stale
  <2>4. QED BY <2>2, <2>3, RanChanges
<1>2. QED
  BY <1>1, SequencerInvariant, PTL DEF Spec, ClosedMeansSilent

\* A completed receipt is never completed differently.
THEOREM ReceiptsStayFinal == Spec => ReceiptsAreFinal
<1>1. ASSUME NEW o, NEW S, NEW v, NEW c \in Calls, o[c] # None
      PROVE  CompleteReceipts(o, S, v)[c] = o[c]
  BY <1>1 DEF CompleteReceipts
<1>2. TypeOK /\ [Next]_vars
        => [\A c \in Calls : outcome[c] # None => outcome'[c] = outcome[c]]_vars
  <2> SUFFICES ASSUME TypeOK, [Next]_vars, NEW c \in Calls, outcome[c] # None
               PROVE  outcome'[c] = outcome[c]
    OBVIOUS
  <2>1. CASE outcome' = outcome
    BY <2>1
  <2>2. CASE \E S, v : outcome' = CompleteReceipts(outcome, S, v)
    BY <1>1, <2>2
  <2>3. CASE \E S, T, v, w :
               outcome' = CompleteReceipts(CompleteReceipts(outcome, S, v), T, w)
    <3>1. PICK S, T, v, w :
               outcome' = CompleteReceipts(CompleteReceipts(outcome, S, v), T, w)
      BY <2>3
    <3>2. CompleteReceipts(outcome, S, v)[c] = outcome[c]
      BY <1>1
    <3>3. CompleteReceipts(CompleteReceipts(outcome, S, v), T, w)[c]
            = CompleteReceipts(outcome, S, v)[c]
      BY <3>2 DEF CompleteReceipts
    <3>4. QED BY <3>1, <3>2, <3>3
  <2>4. CASE NoteDeadWorker
    BY <2>1, <2>2, <2>4 DEF NoteDeadWorker, Latch
  <2>5. CASE Next /\ ~NoteDeadWorker
    BY <2>1, <2>2, <2>3, <2>5
     DEF Next, CallStep, WorkerStep, Start, Issue, Rejected, Refuse, SubmitOverflow, Submit,
         SubmitReturn, SubmitExpire, SubmitTimeout, SubmitOwned, WorkerWait, WorkerExit,
         WorkerDequeue, RunCommand, CompleteValue, CompleteError, WorkerFinally, StopLatch, StopStep,
         StopRewait, StopAwake, StopExpire, StopReturns, BeginClose, CloseReturn,
         Finished, Latch, vars
  <2>6. QED BY <2>1, <2>4, <2>5 DEF vars
<1>3. QED
  BY <1>2, TypeCorrect, PTL DEF Spec, ReceiptsAreFinal

-----------------------------------------------------------------------------
(* Refinement of the activation gate.                                      *)

RanUsers == {u \in Users : ran[u] > 0}
Promised == {s \in Stops : stopResult[s] = TRUE}

\* A step that leaves the gate's four variables alone is a stutter of the gate.
LEMMA GateStutter ==
  ASSUME UNCHANGED <<latched, inFlight, ran, stopResult>>
  PROVE  UNCHANGED Gate!gateVars
BY DEF Gate!gateVars

\* A step that does nothing to the gate but, possibly, set the latch.
LEMMA GateShuts ==
  ASSUME latched' = TRUE, UNCHANGED <<inFlight, ran, stopResult>>
  PROVE  Gate!Shut
BY DEF Gate!Shut

\* Noticing a dead worker shuts the gate or changes nothing of it.
LEMMA GateNoteDeadWorker ==
  ASSUME NoteDeadWorker, UNCHANGED <<inFlight, ran, stopResult>>
  PROVE  [Gate!GateNext]_(Gate!gateVars)
<1>1. CASE worker = "dead" /\ ~closed
  BY <1>1, GateShuts DEF NoteDeadWorker, Latch, Gate!GateNext
<1>2. CASE ~(worker = "dead" /\ ~closed)
  BY <1>2, GateStutter DEF NoteDeadWorker, flags
<1>3. QED BY <1>1, <1>2

\* Every step of the sequencer is a step of the gate or a stutter.
LEMMA GateStep ==
  ASSUME SequencerInv, [Next]_vars
  PROVE  [Gate!GateNext]_(Gate!gateVars)
<1> USE DEF SequencerInv
<1>1. ASSUME NEW s \in Starts, Start(s) PROVE [Gate!GateNext]_(Gate!gateVars)
  <2>1. UNCHANGED <<inFlight, ran, stopResult>> /\ (NoteDeadWorker \/ UNCHANGED latched)
    BY <1>1 DEF Start, flags
  <2>2. QED BY <2>1, GateStutter, GateNoteDeadWorker
<1>2. ASSUME NEW u \in Users, Issue(u) \/ Rejected(u)
      PROVE [Gate!GateNext]_(Gate!gateVars)
  <2>1. UNCHANGED <<inFlight, ran, stopResult>> /\ (NoteDeadWorker \/ UNCHANGED latched)
    BY <1>2 DEF Issue, Rejected, Refuse, flags
  <2>2. QED BY <2>1, GateStutter, GateNoteDeadWorker
<1>3. ASSUME NEW c \in Calls, SubmitOverflow(c) PROVE [Gate!GateNext]_(Gate!gateVars)
  BY <1>3, GateShuts DEF SubmitOverflow, Latch, Gate!GateNext
<1>4. ASSUME NEW c \in Calls, Submit(c) PROVE [Gate!GateNext]_(Gate!gateVars)
  BY <1>4, GateStutter DEF Submit, flags
<1>5. ASSUME NEW c \in Calls, CallStep(c) PROVE [Gate!GateNext]_(Gate!gateVars)
  <2>1. /\ UNCHANGED <<inFlight, ran, stopResult>>
        /\ latched' = TRUE \/ UNCHANGED latched
    BY <1>5 DEF CallStep, SubmitReturn, SubmitExpire, SubmitTimeout, Latch, flags
  <2>2. QED BY <2>1, GateStutter, GateShuts DEF Gate!GateNext
<1>6. ASSUME NEW o \in OwnedCalls, SubmitOwned(o) PROVE [Gate!GateNext]_(Gate!gateVars)
  <2>1. ~latched /\ UNCHANGED <<latched, inFlight, stopResult>>
    BY <1>6 DEF SubmitOwned, Admitted, Stale, flags
  <2>2. ran[o] = 0 /\ ran' = [ran EXCEPT ![o] = 1]
    <3>1. ran[o] = 0
      BY <1>6 DEF SubmitOwned, ReceiptInv, OwnedInv
    <3>2. ran' = [ran EXCEPT ![o] = ran[o] + 1]
      BY <1>6 DEF SubmitOwned
    <3>3. QED BY <3>1, <3>2
  <2>3. o \notin RanUsers /\ RanUsers' = RanUsers \cup {o}
    BY <2>2 DEF RanUsers, TypeOK, Users
  <2>4. Gate!Pass(o)
    BY <2>1, <2>3 DEF Gate!Pass, RanUsers
  <2>5. QED BY <2>4 DEF Gate!GateNext
<1>7. CASE WorkerWait \/ WorkerExit \/ CompleteValue
  BY <1>7, GateStutter DEF WorkerWait, WorkerExit, CompleteValue, flags
<1>8. CASE WorkerDequeue
  <2>1. CASE UNCHANGED inFlight
    BY <1>8, <2>1, GateStutter DEF WorkerDequeue, flags
  <2>2. CASE ~UNCHANGED inFlight
    <3>1. /\ ~latched /\ inFlight' = Head(queue)
          /\ UNCHANGED <<latched, ran, stopResult>>
      BY <1>8, <2>2 DEF WorkerDequeue, Stale, flags
    <3>2. inFlight = None
      BY <1>8 DEF WorkerDequeue, WorkerAwake, WorkerInv, Busy
    <3>3. Head(queue) \in Calls /\ ran[Head(queue)] = 0
      BY <1>8, TailFacts DEF WorkerDequeue, ReceiptInv, CallInv, QueuedReceipts, TypeOK
    <3>4. Head(queue) \notin RanUsers
      BY <3>3 DEF RanUsers
    <3>5. Gate!Enter(Head(queue))
      BY <3>1, <3>2, <3>4 DEF Gate!Enter, RanUsers
    <3>6. QED BY <3>3, <3>5 DEF Gate!GateNext
  <2>3. QED BY <2>1, <2>2
<1>9. CASE RunCommand
  <2>1. inFlight \in Calls /\ ran[inFlight] = 0
    BY <1>9 DEF RunCommand, WorkerInv, Busy, ReceiptInv, CallInv, TypeOK
  <2>2. ran' = [ran EXCEPT ![inFlight] = 1]
    BY <1>9, <2>1 DEF RunCommand
  <2>3. inFlight \notin RanUsers /\ RanUsers' = RanUsers \cup {inFlight}
    BY <2>1, <2>2 DEF RanUsers, TypeOK, Users
  <2>4. UNCHANGED <<latched, inFlight, stopResult>>
    BY <1>9 DEF RunCommand, flags
  <2>5. PICK c \in Calls : c = inFlight
    BY <2>1
  <2>6. Gate!Perform(c)
    BY <2>3, <2>4, <2>5 DEF Gate!Perform, RanUsers
  <2>7. QED BY <2>6 DEF Gate!GateNext
<1>10. CASE CompleteError
  BY <1>10, GateShuts DEF CompleteError, Gate!GateNext
<1>11. CASE WorkerFinally
  <2>1. inFlight \in Calls /\ inFlight # None /\ ran[inFlight] = 1
    BY <1>11 DEF WorkerFinally, WorkerInv, Busy, ReceiptInv, CallInv, TypeOK
  <2>2. inFlight \in RanUsers
    BY <2>1 DEF RanUsers, Users
  <2>3. inFlight' = None /\ UNCHANGED <<latched, ran, stopResult>>
    BY <1>11 DEF WorkerFinally, flags
  <2>4. Gate!Leave
    BY <2>1, <2>2, <2>3 DEF Gate!Leave, RanUsers
  <2>5. QED BY <2>4 DEF Gate!GateNext
<1>12. ASSUME NEW s \in Stops, StopLatch(s) PROVE [Gate!GateNext]_(Gate!gateVars)
  <2>1. latched' = TRUE /\ UNCHANGED <<inFlight, ran>>
    BY <1>12 DEF StopLatch
  <2>2. CASE UNCHANGED stopResult
    BY <2>1, <2>2, GateShuts DEF Gate!GateNext
  <2>3. CASE ~UNCHANGED stopResult
    <3>1. inFlight = None /\ stopResult' = [stopResult EXCEPT ![s] = TRUE]
      BY <1>12, <2>3 DEF StopLatch, Quiet
    <3>2. Promised' = Promised \cup {s}
      BY <3>1 DEF Promised, TypeOK
    <3>3. Gate!Promise(s)
      BY <2>1, <3>1, <3>2 DEF Gate!Promise, Promised
    <3>4. QED BY <3>3 DEF Gate!GateNext
  <2>4. QED BY <2>2, <2>3
<1>13. ASSUME NEW s \in Stops, StopStep(s) PROVE [Gate!GateNext]_(Gate!gateVars)
  <2>1. UNCHANGED <<inFlight, ran, latched>>
    BY <1>13 DEF StopStep, StopRewait, StopAwake, StopExpire, StopReturns, flags
  <2>2. CASE StopRewait(s)
    BY <2>2, GateStutter DEF StopRewait, flags
  <2>3. CASE StopReturns(s) /\ pc[s] = "waiting" /\ Quiet
    <3>1. latched = TRUE
      BY <2>3 DEF LatchInv, TypeOK
    <3>2. Promised' = Promised \cup {s}
      BY <2>3 DEF StopReturns, Promised, TypeOK
    <3>3. Gate!Promise(s)
      BY <2>1, <2>3, <3>1, <3>2 DEF Gate!Promise, Promised, Quiet
    <3>4. QED BY <3>3 DEF Gate!GateNext
  <2>4. CASE StopReturns(s) /\ pc[s] = "waiting" /\ ~Quiet
    <3>1. ~Quiesced
      BY <2>4 DEF LatchInv, Quiet
    <3>2. Promised = {} /\ Promised' = {}
      BY <2>4, <3>1 DEF StopReturns, Promised, Quiesced, TypeOK
    <3>3. QED BY <2>1, <3>2 DEF Gate!gateVars, Promised
  <2>5. QED BY <1>13, <2>2, <2>3, <2>4 DEF StopStep, StopAwake, StopExpire
<1>14. CASE BeginClose
  BY <1>14, GateShuts DEF BeginClose, Gate!GateNext
<1>15. CASE CloseReturn \/ Finished \/ UNCHANGED vars
  BY <1>15, GateStutter DEF CloseReturn, Finished, flags, vars
<1>16. CASE Next
  BY <1>16, <1>1, <1>2, <1>3, <1>4, <1>5, <1>6, <1>7, <1>8, <1>9, <1>10, <1>11,
     <1>12, <1>13, <1>14, <1>15 DEF Next, WorkerStep
<1>17. QED
  BY <1>15, <1>16

\* The sequencer, with its threads, queue and receipts, implements the gate.
THEOREM SequencerImplementsGate == Spec => ImplementsGate
<1>1. Init => Gate!GateInit
  <2> SUFFICES ASSUME Init PROVE Gate!GateInit
    OBVIOUS
  <2>1. RanUsers = {}
    BY DEF Init, RanUsers
  <2>2. Promised = {}
    BY NamesAssumption DEF Init, Promised
  <2>3. QED BY <2>1, <2>2 DEF Init, Gate!GateInit, RanUsers, Promised
<1>2. SequencerInv /\ [Next]_vars => [Gate!GateNext]_(Gate!gateVars)
  BY GateStep
<1>3. QED
  BY <1>1, <1>2, SequencerInvariant, PTL DEF Spec, ImplementsGate, Gate!GateSpec
=============================================================================
