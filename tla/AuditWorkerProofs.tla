-------------------------- MODULE AuditWorkerProofs --------------------------
(***************************************************************************)
(* Proofs about AuditWorker, for any callers, any closers and any capacity *)
(* of the queue: AuditInv and what follows from it.                        *)
(***************************************************************************)
EXTENDS AuditWorker, TLAPS

-----------------------------------------------------------------------------
(* The inductive invariant.                                                *)

\* The terminal marker is the last item of the queue, and only there once the
\* worker accepts no more; who has taken it has emptied the queue.
MarkerInv ==
    /\ \A i \in 1..Len(queue) : queue[i] = Marker => i = Len(queue) /\ marked /\ ~accepting
    /\ worker = "marker" => queue = <<>> /\ marked
    /\ worker \in {"marker", "exit"} => ~accepting
    /\ ~marked => Len(queue) <= Capacity
    /\ failed => ~accepting
    /\ failed => \A i \in 1..Len(queue) : queue[i] = Marker

\* What the worker has taken off the queue and not written yet.
Ahead == IF worker \in {"begin", "write"} THEN 1 ELSE 0

\* The writer raised, and nobody has drained the queue yet.
Doomed == worker = "finish" /\ raised

\* File, hand and queue are consecutive segments of the accepted records.
SegmentInv ==
    /\ FileIsPrefix
    /\ worker \in {"begin", "write"} =>
          Len(file) < Len(accepted) /\ hand = accepted[Len(file) + 1]
    /\ ~Doomed => \A i \in 1..Len(queue) : queue[i] \in Callers =>
          /\ Len(file) + Ahead + i <= Len(accepted)
          /\ queue[i] = accepted[Len(file) + Ahead + i]
    /\ ~Doomed /\ accepting => Len(accepted) = Len(file) + Ahead + Len(queue)

Durable(c) == \E i \in 1..Len(file) : file[i] = c
Queued(c) == \E i \in 1..Len(queue) : queue[i] = c

\* A receipt nobody has answered is queued or in hand; a positive one is true.
ReceiptInv ==
    /\ worker \in {"begin", "write", "finish"} <=> hand \in Callers
    /\ worker = "finish" /\ ~raised => Durable(hand)
    /\ \A c \in Callers : receipt[c] = "pending" => Queued(c) \/ hand = c
    /\ \A c \in Callers : receipt[c] = "ok" \/ answer[c] = "ok" => Durable(c)

\* The thread ends on the marker, and closed means that it has.
ThreadInv ==
    /\ thread = "dead" => worker = "exit"
    /\ thread = "none" => \A c \in Callers : receipt[c] # "pending"
    /\ ClosedMeansDone

AuditInv == TypeOK /\ MarkerInv /\ SegmentInv /\ ReceiptInv /\ ThreadInv

Answers == {None, "ok", "failed", "closed", "unclosed"}
Receipts == {None, "pending", "ok", "error"}

-----------------------------------------------------------------------------
(* What is done under the worker's lock.                                   *)

\* The members of a sequence are its items.
LEMMA RangeItems ==
  ASSUME NEW S, NEW s \in Seq(S), NEW x
  PROVE  x \in Range(s) <=> \E i \in 1..Len(s) : s[i] = x
BY DEF Range

\* Failing leaves nothing in the queue but a marker, and that only if nobody
\* else has taken it.
LEMMA FailQueue ==
  ASSUME TypeOK, MarkerInv, NEW STATE r, Fail(r)
  PROVE  /\ queue' \in {<<>>, <<Marker>>}
         /\ marked' = TRUE
         /\ worker = "marker" => queue' = <<>>
<1>1. FailStop.marked = TRUE /\ FailStop.queue \in {<<>>, <<Marker>>}
  <2>1. Append(<<>>, Marker) = <<Marker>>
    OBVIOUS
  <2> QED BY <2>1 DEF FailStop, StopRequested, TypeOK
<1>2. worker = "marker" => FailStop.queue = <<>>
  <2>1. queue = <<>> => Marker \notin Range(queue)
    BY DEF Range
  <2> QED BY <2>1 DEF FailStop, StopRequested, MarkerInv
<1> QED BY <1>1, <1>2 DEF Fail

\* Failing answers whoever was in the queue, and nobody positively.
LEMMA FailReceipts ==
  ASSUME TypeOK, NEW STATE r, r \in [Callers -> Receipts], Fail(r)
  PROVE  /\ receipt' \in [Callers -> Receipts]
         /\ \A c \in Callers : /\ receipt'[c] = "pending" => r[c] = "pending" /\ ~Queued(c)
                               /\ receipt'[c] = "ok" => r[c] = "ok"
<1>1. \A c \in Callers : c \in Range(queue) <=> Queued(c)
  BY RangeItems DEF TypeOK, Queued
<1> QED BY <1>1 DEF Fail, DrainedAnswered, Receipts

\* The types of the flags and the queue after failing.
LEMMA FailType ==
  ASSUME TypeOK, MarkerInv, NEW STATE r, Fail(r)
  PROVE  /\ failed' \in BOOLEAN /\ accepting' \in BOOLEAN /\ marked' \in BOOLEAN
         /\ queue' \in Seq(Callers \cup {Marker})
         /\ Len(queue') <= Capacity + 1
<1>1. queue' \in {<<>>, <<Marker>>} /\ marked' = TRUE
  BY FailQueue
<1>2. <<>> \in Seq(Callers \cup {Marker}) /\ Len(<<>>) = 0
  OBVIOUS
<1>3. <<Marker>> \in Seq(Callers \cup {Marker}) /\ Len(<<Marker>>) = 1
  OBVIOUS
<1>4. queue' \in Seq(Callers \cup {Marker}) /\ Len(queue') \in {0, 1}
  <2>1. CASE queue' = <<>>
    BY <2>1, <1>2
  <2>2. CASE queue' = <<Marker>>
    BY <2>2, <1>3
  <2> QED BY <1>1, <2>1, <2>2
<1>5. Len(queue') <= Capacity + 1
  BY <1>4, AuditCapacityAssumption
<1> QED BY <1>1, <1>4, <1>5 DEF Fail, TypeOK

\* Answering a call keeps the types of its place and its answer.
LEMMA AnswerType ==
  ASSUME TypeOK, NEW c \in Callers \cup Closers, NEW a \in Answers, Answer(c, a)
  PROVE  /\ pc' \in [Callers \cup Closers -> {"idle", "waiting", "expired", "joining", "over"}]
         /\ answer' \in [Callers \cup Closers -> Answers]
BY DEF Answer, TypeOK, Answers

-----------------------------------------------------------------------------
(* Type correctness.                                                       *)

LEMMA TypeInit == Init => TypeOK
<1> SUFFICES ASSUME Init PROVE TypeOK
  OBVIOUS
<1>1. <<>> \in Seq(Callers \cup {Marker}) /\ <<>> \in Seq(Callers) /\ Len(<<>>) = 0
  OBVIOUS
<1>2. /\ accepting \in BOOLEAN /\ failed \in BOOLEAN /\ marked \in BOOLEAN
      /\ thread \in {"none", "alive", "dead"}
  BY DEF Init
<1>3. queue \in Seq(Callers \cup {Marker}) /\ Len(queue) <= Capacity + 1
  BY <1>1, AuditCapacityAssumption DEF Init
<1> QED BY <1>1, <1>2, <1>3 DEF Init, TypeOK

\* A step of the worker keeps the types.
LEMMA WorkerType ==
  ASSUME TypeOK, MarkerInv, ReceiptInv, WorkerStep
  PROVE  TypeOK'
<1> USE DEF TypeOK, writer, loop, calls, flags
<1>1. CASE WorkerTake
  <2>1. /\ Head(queue) \in Callers \cup {Marker}
        /\ Tail(queue) \in Seq(Callers \cup {Marker})
        /\ Len(Tail(queue)) <= Capacity + 1
    BY <1>1, AuditCapacityAssumption DEF WorkerTake
  <2> QED BY <1>1, <2>1 DEF WorkerTake
<1>2. CASE WorkerUnmark
  BY <1>2 DEF WorkerUnmark
<1>3. CASE WorkerExit
  BY <1>3 DEF WorkerExit
<1>4. CASE WorkerBegin
  BY <1>4 DEF WorkerBegin, Running, ReceiptInv
<1>5. CASE WorkerWrite
  <2>1. hand \in Callers
    BY <1>5 DEF WorkerWrite, Running, ReceiptInv
  <2>2. Append(file, hand) \in Seq(Callers)
    BY <2>1
  <2>3. /\ file' \in Seq(Callers)
        /\ raised' \in BOOLEAN /\ torn' \in BOOLEAN /\ compromised' \in BOOLEAN
    BY <1>5, <2>2 DEF WorkerWrite
  <2> QED BY <1>5, <2>3 DEF WorkerWrite
<1>6. CASE WorkerFinish
  <2>1. hand \in Callers
    BY <1>6 DEF WorkerFinish, Running, ReceiptInv
  <2>2. \A a \in {"ok", "error"} : Finished(receipt, a) \in [Callers -> Receipts]
    BY <2>1 DEF Finished, Receipts
  <2>3. CASE AppendFailed
    <3>1. Fail(Finished(receipt, "error"))
      BY <1>6, <2>3 DEF WorkerFinish
    <3>2. /\ failed' \in BOOLEAN /\ accepting' \in BOOLEAN /\ marked' \in BOOLEAN
          /\ queue' \in Seq(Callers \cup {Marker})
          /\ Len(queue') <= Capacity + 1
      BY <3>1, FailType
    <3>3. receipt' \in [Callers -> Receipts]
      BY <3>1, <2>2, FailReceipts
    <3> QED BY <1>6, <3>2, <3>3 DEF WorkerFinish, Receipts
  <2>4. CASE ~AppendFailed
    BY <1>6, <2>2, <2>4 DEF WorkerFinish, Receipts
  <2> QED BY <2>3, <2>4
<1> QED BY <1>1, <1>2, <1>3, <1>4, <1>5, <1>6 DEF WorkerStep

\* A step of an append keeps the types.
LEMMA AppendType ==
  ASSUME TypeOK, MarkerInv, NEW c \in Callers, AppendStep(c)
  PROVE  TypeOK'
<1> USE DEF TypeOK, writer, loop, calls, flags
<1>1. CASE AppendRefused(c)
  <2>1. Answer(c, "failed")
    BY <1>1 DEF AppendRefused
  <2> QED BY <1>1, <2>1, AnswerType DEF AppendRefused, Answers
<1>2. CASE AppendOverflow(c)
  <2>1. Answer(c, "failed") /\ Fail(receipt)
    BY <1>2 DEF AppendOverflow
  <2>2. /\ failed' \in BOOLEAN /\ accepting' \in BOOLEAN /\ marked' \in BOOLEAN
        /\ queue' \in Seq(Callers \cup {Marker})
        /\ Len(queue') <= Capacity + 1
    BY <2>1, FailType
  <2>3. receipt' \in [Callers -> Receipts]
    BY <2>1, FailReceipts DEF Receipts
  <2> QED BY <1>2, <2>1, <2>2, <2>3, AnswerType DEF AppendOverflow, Answers, Receipts
<1>3. CASE AppendQueued(c)
  <2>1. /\ Append(queue, c) \in Seq(Callers \cup {Marker})
        /\ Len(Append(queue, c)) <= Capacity + 1
        /\ Append(accepted, c) \in Seq(Callers)
    BY <1>3, AuditCapacityAssumption DEF AppendQueued, QueueFull
  <2> QED BY <1>3, <2>1 DEF AppendQueued
<1>4. CASE AppendReturn(c)
  <2>1. Answer(c, "ok") \/ Answer(c, "failed")
    BY <1>4 DEF AppendReturn
  <2> QED BY <1>4, <2>1, AnswerType DEF AppendReturn, Answers
<1>5. CASE AppendExpire(c)
  BY <1>5 DEF AppendExpire
<1>6. CASE AppendTimeout(c)
  <2>1. Answer(c, "failed")
    BY <1>6 DEF AppendTimeout
  <2>2. CASE receipt[c] = "pending"
    <3>1. /\ Fail([receipt EXCEPT ![c] = "error"])
          /\ [receipt EXCEPT ![c] = "error"] \in [Callers -> Receipts]
      BY <1>6, <2>2 DEF AppendTimeout, Receipts
    <3>2. /\ failed' \in BOOLEAN /\ accepting' \in BOOLEAN /\ marked' \in BOOLEAN
          /\ queue' \in Seq(Callers \cup {Marker})
          /\ Len(queue') <= Capacity + 1
      BY <3>1, FailType
    <3>3. receipt' \in [Callers -> Receipts]
      BY <3>1, FailReceipts
    <3> QED BY <1>6, <2>1, <3>2, <3>3, AnswerType DEF AppendTimeout, Answers, Receipts
  <2>3. CASE receipt[c] # "pending"
    BY <1>6, <2>1, <2>3, AnswerType DEF AppendTimeout, Answers
  <2> QED BY <2>2, <2>3
<1> QED BY <1>1, <1>2, <1>3, <1>4, <1>5, <1>6 DEF AppendStep

\* A step of a close keeps the types.
LEMMA CloseType ==
  ASSUME TypeOK, MarkerInv, NEW x \in Closers, CloseBegin(x) \/ CloseReturn(x)
  PROVE  TypeOK'
<1> USE DEF TypeOK, writer, loop, calls, flags
<1>1. CASE CloseBegin(x)
  <2>1. /\ pc' \in [Callers \cup Closers -> {"idle", "waiting", "expired", "joining", "over"}]
        /\ answer' \in [Callers \cup Closers -> Answers]
    <3>1. CASE Answer(x, "closed") \/ Answer(x, "unclosed")
      BY <3>1, AnswerType DEF Answers
    <3>2. CASE pc' = [pc EXCEPT ![x] = "joining"] /\ UNCHANGED answer
      BY <3>2 DEF Answers
    <3> QED BY <1>1, <3>1, <3>2 DEF CloseBegin
  <2>2. queue' \in Seq(Callers \cup {Marker}) /\ Len(queue') <= Capacity + 1
        /\ marked' \in BOOLEAN
    <3>1. CASE queue' = queue /\ marked' = marked
      BY <3>1
    <3>2. CASE queue' = Append(queue, Marker) /\ marked' = TRUE /\ ~marked
      <4>1. /\ Append(queue, Marker) \in Seq(Callers \cup {Marker})
            /\ Len(Append(queue, Marker)) = Len(queue) + 1
        OBVIOUS
      <4>2. Len(queue) <= Capacity
        BY <3>2 DEF MarkerInv
      <4> QED BY <3>2, <4>1, <4>2, AuditCapacityAssumption
    <3> QED BY <1>1, <3>1, <3>2 DEF CloseBegin, StopRequested
  <2> QED BY <1>1, <2>1, <2>2 DEF CloseBegin, Answers
<1>2. CASE CloseReturn(x)
  <2>1. Answer(x, "closed") \/ Answer(x, "unclosed")
    BY <1>2 DEF CloseReturn
  <2> QED BY <1>2, <2>1, AnswerType DEF CloseReturn, Answers
<1> QED BY <1>1, <1>2

-----------------------------------------------------------------------------
(* The items of a queue that grows or shrinks by one.                      *)

LEMMA TailItems ==
  ASSUME NEW S, NEW s \in Seq(S), s # <<>>
  PROVE  /\ Len(s) \in Nat /\ Len(s) >= 1
         /\ Len(Tail(s)) = Len(s) - 1
         /\ \A i \in 1..Len(Tail(s)) : i + 1 \in 1..Len(s) /\ Tail(s)[i] = s[i + 1]
         /\ Head(s) = s[1]
OBVIOUS

LEMMA AppendItems ==
  ASSUME NEW S, NEW s \in Seq(S), NEW x \in S
  PROVE  /\ Len(s) \in Nat
         /\ Len(Append(s, x)) = Len(s) + 1
         /\ \A i \in 1..Len(s) : Append(s, x)[i] = s[i]
         /\ Append(s, x)[Len(s) + 1] = x
OBVIOUS

LEMMA NoItems ==
  ASSUME NEW S, NEW s \in Seq(S), Len(s) = 0
  PROVE  s = <<>>
OBVIOUS

\* Of an empty queue or one marker the claims about callers are void.
LEMMA MarkersOnly ==
  ASSUME NEW s \in {<<>>, <<Marker>>}
  PROVE  /\ Len(s) \in {0, 1}
         /\ \A i \in 1..Len(s) : i = Len(s) /\ s[i] = Marker
<1>1. CASE s = <<>>
  BY <1>1
<1>2. CASE s = <<Marker>>
  BY <1>2
<1> QED BY <1>1, <1>2

-----------------------------------------------------------------------------
(* The marker.                                                             *)

\* Failing keeps the marker's place, whatever the worker does in the same step
\* short of taking an item.
LEMMA FailMarker ==
  ASSUME TypeOK, MarkerInv, NEW STATE r, Fail(r),
         worker' \in {"marker", "exit"} => worker' = worker
  PROVE  MarkerInv'
<1>1. /\ queue' \in {<<>>, <<Marker>>} /\ marked' = TRUE
      /\ worker = "marker" => queue' = <<>>
  BY FailQueue
<1>2. \A i \in 1..Len(queue') : i = Len(queue') /\ queue'[i] = Marker
  BY <1>1, MarkersOnly
<1>3. failed' = TRUE /\ accepting' = FALSE
  BY DEF Fail
<1> QED BY <1>1, <1>2, <1>3 DEF MarkerInv

LEMMA MarkerUnchanged ==
  ASSUME MarkerInv, UNCHANGED <<flags, queue>>,
         worker' \in {"marker", "exit"} => worker' = worker
  PROVE  MarkerInv'
BY DEF MarkerInv, flags

LEMMA MarkerStep ==
  ASSUME TypeOK, MarkerInv, ReceiptInv, Next
  PROVE  MarkerInv'
<1>1. CASE WorkerTake
  <2>1. /\ Len(queue) \in Nat
        /\ Len(Tail(queue)) = Len(queue) - 1
        /\ \A i \in 1..Len(Tail(queue)) : i + 1 \in 1..Len(queue) /\ Tail(queue)[i] = queue[i + 1]
        /\ Head(queue) = queue[1] /\ 1 \in 1..Len(queue)
    BY <1>1, TailItems DEF WorkerTake, TypeOK
  <2>2. /\ queue' = Tail(queue) /\ UNCHANGED flags
        /\ worker' = IF Head(queue) = Marker THEN "marker" ELSE "begin"
    BY <1>1 DEF WorkerTake
  <2>3. CASE Head(queue) = Marker
    <3>1. Len(queue) = 1 /\ marked /\ ~accepting
      BY <2>1, <2>3 DEF MarkerInv
    <3>2. Tail(queue) = <<>> /\ Len(Tail(queue)) = 0
      <4>1. Len(Tail(queue)) = 0 /\ Tail(queue) \in Seq(Callers \cup {Marker})
        BY <1>1, <2>1, <3>1 DEF TypeOK, WorkerTake
      <4> QED BY <4>1, NoItems
    <3>3. /\ queue' = <<>> /\ Len(queue') = 0 /\ worker' = "marker"
          /\ marked' = marked /\ accepting' = accepting /\ failed' = failed
      BY <2>2, <2>3, <3>2 DEF flags
    <3> QED BY <3>1, <3>3 DEF MarkerInv
  <2>4. CASE Head(queue) # Marker
    <3>1. \A i \in 1..Len(queue') : queue'[i] = Marker => i = Len(queue') /\ marked /\ ~accepting
      BY <2>1, <2>2 DEF MarkerInv
    <3>2. ~marked => Len(queue') <= Capacity
      BY <2>1, <2>2, AuditCapacityAssumption DEF MarkerInv
    <3>3. failed => \A i \in 1..Len(queue') : queue'[i] = Marker
      BY <2>1, <2>2 DEF MarkerInv
    <3> QED BY <2>2, <2>4, <3>1, <3>2, <3>3 DEF MarkerInv, flags
  <2> QED BY <2>3, <2>4
<1>2. CASE WorkerUnmark
  <2>1. /\ queue = <<>> /\ queue' = queue /\ marked' = FALSE /\ worker' = "exit"
        /\ accepting' = accepting /\ failed' = failed /\ ~accepting
    BY <1>2 DEF WorkerUnmark, Running, MarkerInv
  <2>2. Len(queue') = 0
    BY <2>1
  <2> QED BY <2>1, <2>2, AuditCapacityAssumption DEF MarkerInv
<1>3. CASE WorkerExit \/ WorkerBegin \/ WorkerWrite
  BY <1>3, MarkerUnchanged DEF WorkerExit, WorkerBegin, WorkerWrite
<1>4. CASE WorkerFinish
  <2>1. CASE AppendFailed
    BY <1>4, <2>1, FailMarker DEF WorkerFinish
  <2>2. CASE ~AppendFailed
    BY <1>4, <2>2, MarkerUnchanged DEF WorkerFinish, flags
  <2> QED BY <2>1, <2>2
<1>5. ASSUME NEW c \in Callers, AppendStep(c) PROVE MarkerInv'
  <2>1. CASE AppendRefused(c) \/ AppendReturn(c) \/ AppendExpire(c)
    BY <2>1, MarkerUnchanged DEF AppendRefused, AppendReturn, AppendExpire, loop
  <2>2. CASE AppendOverflow(c)
    BY <2>2, FailMarker DEF AppendOverflow, loop
  <2>3. CASE AppendQueued(c)
    <3>1. /\ accepting /\ ~failed /\ queue' = Append(queue, c) /\ Len(queue) < Capacity
          /\ UNCHANGED <<flags, worker>>
      BY <2>3, AuditCapacityAssumption DEF AppendQueued, Healthy, QueueFull, loop, TypeOK
    <3>2. /\ Len(queue) \in Nat /\ Len(queue') = Len(queue) + 1
          /\ \A i \in 1..Len(queue) : queue'[i] = queue[i]
          /\ queue'[Len(queue) + 1] = c
      BY <3>1, AppendItems DEF TypeOK
    <3>3. c # Marker
      BY AuditNamesAssumption DEF Marker
    <3>4. \A i \in 1..Len(queue') : queue'[i] # Marker
      BY <3>1, <3>2, <3>3 DEF MarkerInv
    <3>5. Len(queue') <= Capacity
      BY <3>1, <3>2, AuditCapacityAssumption
    <3> QED BY <3>1, <3>4, <3>5 DEF MarkerInv, flags
  <2>4. CASE AppendTimeout(c)
    <3>1. CASE receipt[c] = "pending"
      BY <2>4, <3>1, FailMarker DEF AppendTimeout, loop
    <3>2. CASE receipt[c] # "pending"
      BY <2>4, <3>2, MarkerUnchanged DEF AppendTimeout, loop, flags
    <3> QED BY <3>1, <3>2
  <2> QED BY <1>5, <2>1, <2>2, <2>3, <2>4 DEF AppendStep
<1>6. ASSUME NEW x \in Closers, CloseBegin(x) PROVE MarkerInv'
  <2>1. accepting' = FALSE /\ failed' = failed /\ worker' = worker
    BY <1>6 DEF CloseBegin, loop
  <2>2. CASE queue' = queue /\ marked' = marked
    BY <2>1, <2>2 DEF MarkerInv
  <2>3. CASE queue' = Append(queue, Marker) /\ marked' = TRUE /\ ~marked
    <3>1. /\ Len(queue) \in Nat /\ Len(queue') = Len(queue) + 1
          /\ \A i \in 1..Len(queue) : queue'[i] = queue[i]
          /\ queue'[Len(queue) + 1] = Marker
      BY <2>3, AppendItems DEF TypeOK
    <3>2. worker # "marker"
      BY <2>3 DEF MarkerInv
    <3>3. \A i \in 1..Len(queue') : queue'[i] = Marker => i = Len(queue')
      BY <2>3, <3>1 DEF MarkerInv
    <3>4. failed => \A i \in 1..Len(queue') : queue'[i] = Marker
      BY <3>1 DEF MarkerInv
    <3> QED BY <2>1, <2>3, <3>2, <3>3, <3>4 DEF MarkerInv
  <2> QED BY <1>6, <2>2, <2>3 DEF CloseBegin, StopRequested
<1>7. ASSUME NEW x \in Closers, CloseReturn(x) PROVE MarkerInv'
  BY <1>7, MarkerUnchanged DEF CloseReturn, loop
<1>8. CASE Finis
  BY <1>8, MarkerUnchanged DEF Finis, vars, loop
<1> QED BY <1>1, <1>2, <1>3, <1>4, <1>5, <1>6, <1>7, <1>8 DEF Next, WorkerStep

-----------------------------------------------------------------------------
(* File, hand and queue.                                                   *)

\* Failing leaves the segments as they are, if the step writes nothing.
LEMMA FailSegment ==
  ASSUME TypeOK, MarkerInv, SegmentInv, NEW STATE r, Fail(r),
         UNCHANGED <<file, accepted>>,
         worker' \in {"begin", "write"} => worker' = worker /\ hand' = hand
  PROVE  SegmentInv'
<1>1. queue' \in {<<>>, <<Marker>>} /\ accepting' = FALSE
  BY FailQueue DEF Fail
<1>2. \A i \in 1..Len(queue') : queue'[i] = Marker
  BY <1>1, MarkersOnly
<1>3. Marker \notin Callers
  BY AuditNamesAssumption DEF Marker
<1>4. FileIsPrefix'
  BY DEF SegmentInv, FileIsPrefix
<1>5. worker' \in {"begin", "write"} => Len(file') < Len(accepted') /\ hand' = accepted'[Len(file') + 1]
  BY DEF SegmentInv
<1> QED BY <1>1, <1>2, <1>3, <1>4, <1>5 DEF SegmentInv

\* So does a step that touches none of them.
LEMMA SegmentUnchanged ==
  ASSUME SegmentInv, UNCHANGED <<file, accepted, queue, worker, hand, raised, accepting>>
  PROVE  SegmentInv'
BY DEF SegmentInv, FileIsPrefix, Ahead, Doomed

LEMMA SegmentStep ==
  ASSUME TypeOK, MarkerInv, SegmentInv, ReceiptInv, Next
  PROVE  SegmentInv'
<1> USE DEF loop, flags, writer
<1>1. CASE WorkerTake
  <2>1. /\ Len(queue) \in Nat
        /\ Len(Tail(queue)) = Len(queue) - 1
        /\ \A i \in 1..Len(Tail(queue)) : i + 1 \in 1..Len(queue) /\ Tail(queue)[i] = queue[i + 1]
        /\ Head(queue) = queue[1] /\ 1 \in 1..Len(queue)
    BY <1>1, TailItems DEF WorkerTake, TypeOK
  <2>2. /\ queue' = Tail(queue) /\ hand' = queue[1]
        /\ worker' = IF queue[1] = Marker THEN "marker" ELSE "begin"
        /\ worker = "get" /\ UNCHANGED <<file, accepted, accepting>>
    BY <1>1, <2>1 DEF WorkerTake, Running
  <2>3. FileIsPrefix' /\ Ahead = 0 /\ ~Doomed
    BY <2>2 DEF SegmentInv, FileIsPrefix, Ahead, Doomed
  <2>4. CASE queue[1] = Marker
    <3>1. Len(queue) = 1 /\ ~accepting
      BY <2>1, <2>4 DEF MarkerInv
    <3>2. Len(queue') = 0
      BY <2>1, <2>2, <3>1
    <3>3. \A i \in 1..Len(queue') : FALSE
      BY <3>2
    <3>4. worker' = "marker" /\ ~accepting'
      BY <2>2, <2>4, <3>1
    <3> QED BY <2>3, <3>3, <3>4 DEF SegmentInv
  <2>5. CASE queue[1] # Marker
    <3>1. queue[1] \in Callers
      BY <2>1, <2>5 DEF TypeOK
    <3>2. Ahead' = 1 /\ ~Doomed'
      BY <2>2, <2>5 DEF Ahead, Doomed
    <3>3. Len(file) \in Nat /\ Len(accepted) \in Nat
      BY DEF TypeOK
    <3>4. Len(file) + 1 <= Len(accepted) /\ queue[1] = accepted[Len(file) + 1]
      BY <2>1, <2>3, <3>1, <3>3 DEF SegmentInv
    <3>5. ASSUME NEW i \in 1..Len(queue'), queue'[i] \in Callers
          PROVE  /\ Len(file') + Ahead' + i <= Len(accepted')
                 /\ queue'[i] = accepted'[Len(file') + Ahead' + i]
      <4>1. i + 1 \in 1..Len(queue) /\ queue'[i] = queue[i + 1]
        BY <2>1, <2>2
      <4>2. /\ Len(file) + 0 + (i + 1) <= Len(accepted)
            /\ queue[i + 1] = accepted[Len(file) + 0 + (i + 1)]
        BY <3>5, <4>1, <2>3 DEF SegmentInv
      <4>3. Len(file') + Ahead' + i = Len(file) + 0 + (i + 1) /\ accepted' = accepted
        BY <2>2, <3>2, <3>3
      <4>4. Len(file') + Ahead' + i <= Len(accepted')
        BY <4>2, <4>3
      <4>5. queue'[i] = accepted'[Len(file') + Ahead' + i]
        BY <4>1, <4>2, <4>3, Zenon
      <4> QED BY <4>4, <4>5
    <3>6. accepting' => Len(accepted') = Len(file') + Ahead' + Len(queue')
      <4>1. accepting => Len(accepted) = Len(file) + Ahead + Len(queue)
        BY <2>3 DEF SegmentInv
      <4>2. Len(queue') = Len(queue) - 1 /\ UNCHANGED <<accepting, accepted, file>>
        BY <2>1, <2>2
      <4>3. SUFFICES ASSUME accepting' PROVE Len(accepted') = Len(file') + Ahead' + Len(queue')
        OBVIOUS
      <4>4. Len(accepted) = Len(file) + 0 + Len(queue)
        BY <4>1, <4>2, <4>3, <2>3
      <4>5. /\ Len(accepted') = Len(accepted) /\ Len(file') = Len(file) /\ Ahead' = 1
            /\ Len(queue') = Len(queue) - 1
        BY <4>2, <3>2
      <4> QED BY <4>4, <4>5, <2>1, <3>3
    <3>7. Len(file') < Len(accepted') /\ hand' = accepted'[Len(file') + 1]
      BY <2>2, <3>3, <3>4
    <3> QED BY <2>3, <3>5, <3>6, <3>7 DEF SegmentInv
  <2> QED BY <2>4, <2>5
<1>2. CASE WorkerUnmark
  <2>1. /\ UNCHANGED <<file, accepted, queue, raised, accepting>>
        /\ worker = "marker" /\ worker' = "exit"
    BY <1>2 DEF WorkerUnmark, Running
  <2>2. Ahead = 0 /\ Ahead' = 0 /\ ~Doomed /\ ~Doomed'
    BY <2>1 DEF Ahead, Doomed
  <2> QED BY <2>1, <2>2 DEF SegmentInv, FileIsPrefix
<1>3. CASE WorkerExit
  BY <1>3, SegmentUnchanged DEF WorkerExit
<1>4. CASE WorkerBegin
  <2>1. /\ UNCHANGED <<file, accepted, queue, raised, accepting, hand>>
        /\ worker = "begin" /\ worker' = "write"
    BY <1>4 DEF WorkerBegin, Running
  <2>2. Ahead = 1 /\ Ahead' = 1 /\ ~Doomed /\ ~Doomed'
    BY <2>1 DEF Ahead, Doomed
  <2> QED BY <2>1, <2>2 DEF SegmentInv, FileIsPrefix
<1>5. CASE WorkerWrite
  <2>1. /\ worker = "write" /\ worker' = "finish"
        /\ UNCHANGED <<accepted, queue, accepting, hand>>
    BY <1>5 DEF WorkerWrite, Running
  <2>2. Ahead = 1 /\ Ahead' = 0 /\ ~Doomed
    BY <2>1 DEF Ahead, Doomed
  <2>3. Len(file) \in Nat /\ Len(accepted) \in Nat
    BY DEF TypeOK
  <2>4. Len(file) < Len(accepted) /\ hand = accepted[Len(file) + 1] /\ hand \in Callers
    BY <2>1 DEF SegmentInv, ReceiptInv
  <2>5. CASE file' = Append(file, hand)
    <3>1. /\ Len(file') = Len(file) + 1
          /\ \A i \in 1..Len(file) : file'[i] = file[i]
          /\ file'[Len(file) + 1] = hand
      BY <2>4, <2>5, AppendItems DEF TypeOK
    <3>2. FileIsPrefix'
      BY <2>1, <2>3, <2>4, <3>1 DEF SegmentInv, FileIsPrefix
    <3>3. ASSUME NEW i \in 1..Len(queue'), queue'[i] \in Callers
          PROVE  /\ Len(file') + Ahead' + i <= Len(accepted')
                 /\ queue'[i] = accepted'[Len(file') + Ahead' + i]
      <4>1. /\ Len(file) + 1 + i <= Len(accepted)
            /\ queue[i] = accepted[Len(file) + 1 + i]
        BY <3>3, <2>1, <2>2 DEF SegmentInv
      <4>2. Len(file') + Ahead' + i = Len(file) + 1 + i
        BY <2>2, <2>3, <3>1
      <4> QED BY <2>1, <4>1, <4>2
    <3>4. accepting' => Len(accepted') = Len(file') + Ahead' + Len(queue')
      <4>1. Len(queue) \in Nat
        BY DEF TypeOK
      <4> QED BY <2>1, <2>2, <2>3, <3>1, <4>1 DEF SegmentInv
    <3> QED BY <2>1, <3>2, <3>3, <3>4 DEF SegmentInv
  <2>6. CASE file' = file /\ raised' = TRUE
    <3>1. Doomed'
      BY <2>1, <2>6 DEF Doomed
    <3> QED BY <2>1, <2>6, <3>1 DEF SegmentInv, FileIsPrefix
  <2> QED BY <1>5, <2>5, <2>6 DEF WorkerWrite
<1>6. CASE WorkerFinish
  <2>1. worker = "finish" /\ worker' = "get" /\ UNCHANGED <<file, accepted>>
    BY <1>6 DEF WorkerFinish, Running
  <2>2. CASE raised
    <3>1. Fail(Finished(receipt, "error"))
      BY <1>6, <2>2 DEF WorkerFinish, AppendFailed
    <3> QED BY <2>1, <3>1, FailSegment
  <2>3. CASE ~raised
    <3>1. UNCHANGED <<queue, accepting>>
      BY <1>6, <2>3 DEF WorkerFinish, AppendFailed
    <3>2. Ahead = 0 /\ Ahead' = 0 /\ ~Doomed /\ ~Doomed'
      BY <2>1, <2>3 DEF Ahead, Doomed
    <3> QED BY <2>1, <3>1, <3>2 DEF SegmentInv, FileIsPrefix
  <2> QED BY <2>2, <2>3 DEF TypeOK
<1>7. ASSUME NEW c \in Callers, AppendStep(c) PROVE SegmentInv'
  <2>1. CASE AppendRefused(c) \/ AppendReturn(c) \/ AppendExpire(c)
    BY <2>1, SegmentUnchanged DEF AppendRefused, AppendReturn, AppendExpire
  <2>2. CASE AppendOverflow(c)
    BY <2>2, FailSegment DEF AppendOverflow
  <2>3. CASE AppendQueued(c)
    <3>1. /\ accepting /\ accepting' = accepting
          /\ queue' = Append(queue, c) /\ accepted' = Append(accepted, c)
          /\ UNCHANGED <<file, worker, hand, raised>>
      BY <2>3 DEF AppendQueued, Healthy
    <3>2. /\ Len(queue) \in Nat /\ Len(queue') = Len(queue) + 1
          /\ \A i \in 1..Len(queue) : queue'[i] = queue[i]
          /\ queue'[Len(queue) + 1] = c
      BY <3>1, AppendItems DEF TypeOK
    <3>3. /\ Len(accepted) \in Nat /\ Len(accepted') = Len(accepted) + 1
          /\ \A i \in 1..Len(accepted) : accepted'[i] = accepted[i]
          /\ accepted'[Len(accepted) + 1] = c
      BY <3>1, AppendItems DEF TypeOK
    <3>4. Len(file) \in Nat /\ Ahead \in {0, 1} /\ Ahead' = Ahead /\ Doomed' = Doomed
      BY <3>1 DEF TypeOK, Ahead, Doomed
    <3>5. FileIsPrefix'
      BY <3>1, <3>3, <3>4 DEF SegmentInv, FileIsPrefix
    <3>6. worker' \in {"begin", "write"} =>
             Len(file') < Len(accepted') /\ hand' = accepted'[Len(file') + 1]
      BY <3>1, <3>3, <3>4 DEF SegmentInv
    <3>7. ASSUME ~Doomed, NEW i \in 1..Len(queue'), queue'[i] \in Callers
          PROVE  /\ Len(file') + Ahead' + i <= Len(accepted')
                 /\ queue'[i] = accepted'[Len(file') + Ahead' + i]
      <4>1. Len(accepted) = Len(file) + Ahead + Len(queue)
        BY <3>1, <3>7 DEF SegmentInv
      <4>2. CASE i = Len(queue) + 1
        BY <4>1, <4>2, <3>1, <3>2, <3>3, <3>4
      <4>3. CASE i \in 1..Len(queue)
        <5>1. /\ Len(file) + Ahead + i <= Len(accepted)
              /\ queue[i] = accepted[Len(file) + Ahead + i]
          BY <4>3, <3>2, <3>7 DEF SegmentInv
        <5> QED BY <5>1, <4>3, <3>1, <3>2, <3>3, <3>4
      <4> QED BY <4>2, <4>3, <3>2
    <3>8. ~Doomed => Len(accepted') = Len(file') + Ahead' + Len(queue')
      BY <3>1, <3>2, <3>3, <3>4 DEF SegmentInv
    <3> QED BY <3>4, <3>5, <3>6, <3>7, <3>8 DEF SegmentInv
  <2>4. CASE AppendTimeout(c)
    <3>1. CASE receipt[c] = "pending"
      BY <2>4, <3>1, FailSegment DEF AppendTimeout
    <3>2. CASE receipt[c] # "pending"
      BY <2>4, <3>2, SegmentUnchanged DEF AppendTimeout
    <3> QED BY <3>1, <3>2
  <2> QED BY <1>7, <2>1, <2>2, <2>3, <2>4 DEF AppendStep
<1>8. ASSUME NEW x \in Closers, CloseBegin(x) PROVE SegmentInv'
  <2>1. accepting' = FALSE /\ UNCHANGED <<file, accepted, worker, hand, raised>>
    BY <1>8 DEF CloseBegin
  <2>2. FileIsPrefix' /\ Ahead' = Ahead /\ Doomed' = Doomed
    BY <2>1 DEF SegmentInv, FileIsPrefix, Ahead, Doomed
  <2>3. CASE queue' = queue
    BY <2>1, <2>2, <2>3 DEF SegmentInv
  <2>4. CASE queue' = Append(queue, Marker)
    <3>1. /\ Len(queue) \in Nat /\ Len(queue') = Len(queue) + 1
          /\ \A i \in 1..Len(queue) : queue'[i] = queue[i]
          /\ queue'[Len(queue) + 1] = Marker
      BY <2>4, AppendItems DEF TypeOK
    <3>2. Marker \notin Callers
      BY AuditNamesAssumption DEF Marker
    <3>3. \A i \in 1..Len(queue') : queue'[i] \in Callers => i \in 1..Len(queue)
      BY <3>1, <3>2
    <3> QED BY <2>1, <2>2, <3>1, <3>3 DEF SegmentInv
  <2> QED BY <1>8, <2>3, <2>4 DEF CloseBegin, StopRequested
<1>9. ASSUME NEW x \in Closers, CloseReturn(x) PROVE SegmentInv'
  BY <1>9, SegmentUnchanged DEF CloseReturn
<1>10. CASE Finis
  BY <1>10, SegmentUnchanged DEF Finis, vars
<1> QED BY <1>1, <1>2, <1>3, <1>4, <1>5, <1>6, <1>7, <1>8, <1>9, <1>10 DEF Next, WorkerStep

-----------------------------------------------------------------------------
(* The receipts and the answers.                                           *)

\* What is in the file stays there, and what is in a queue stays in a longer
\* one.
LEMMA WriteKeepsDurable ==
  ASSUME TypeOK, NEW x \in Callers, file' = file \/ file' = Append(file, x), NEW c, Durable(c)
  PROVE  Durable(c)'
<1>1. CASE file' = file
  BY <1>1 DEF Durable
<1>2. CASE file' = Append(file, x)
  <2>1. /\ Len(file) \in Nat /\ Len(file') = Len(file) + 1
        /\ \A i \in 1..Len(file) : file'[i] = file[i]
    BY <1>2, AppendItems DEF TypeOK
  <2> QED BY <2>1 DEF Durable
<1> QED BY <1>1, <1>2

LEMMA AppendKeepsQueued ==
  ASSUME TypeOK, NEW x \in Callers \cup {Marker}, queue' = Append(queue, x), NEW c
  PROVE  Queued(c) \/ c = x => Queued(c)'
<1>1. /\ Len(queue) \in Nat /\ Len(queue') = Len(queue) + 1
      /\ \A i \in 1..Len(queue) : queue'[i] = queue[i]
      /\ queue'[Len(queue) + 1] = x
  BY AppendItems DEF TypeOK
<1> QED BY <1>1 DEF Queued

\* A step that fails the worker, or leaves queue and receipts, keeps the
\* claims about receipts, if it neither moves the worker nor writes.
LEMMA FailReceiptInv ==
  ASSUME TypeOK, ReceiptInv, NEW STATE r, r \in [Callers -> Receipts], Fail(r),
         UNCHANGED <<file, worker, hand, raised>>,
         \A c \in Callers : r[c] \in {"pending", "ok"} => r[c] = receipt[c],
         \A c \in Callers : answer'[c] = "ok" => receipt[c] = "ok" \/ answer[c] = "ok"
  PROVE  ReceiptInv'
<1>1. \A c \in Callers : /\ receipt'[c] = "pending" => receipt[c] = "pending" /\ ~Queued(c)
                         /\ receipt'[c] = "ok" => receipt[c] = "ok"
  BY FailReceipts
<1> QED BY <1>1 DEF ReceiptInv, Durable

LEMMA ReceiptUnchanged ==
  ASSUME ReceiptInv, UNCHANGED <<file, worker, hand, raised, queue, receipt>>,
         \A c \in Callers : answer'[c] = "ok" => receipt[c] = "ok" \/ answer[c] = "ok"
  PROVE  ReceiptInv'
BY DEF ReceiptInv, Durable, Queued

\* Answering one call leaves the others' answers.
LEMMA OthersAnswers ==
  ASSUME TypeOK, NEW x \in Callers \cup Closers, NEW a \in Answers, Answer(x, a), NEW y \in Callers \cup Closers
  PROVE  answer'[y] = IF x = y THEN a ELSE answer[y]
BY DEF Answer, TypeOK

LEMMA ReceiptStep ==
  ASSUME TypeOK, MarkerInv, ReceiptInv, Next
  PROVE  ReceiptInv'
<1> USE DEF loop, flags, writer, calls
<1> Marker \notin Callers /\ None \notin Callers
  BY AuditNamesAssumption DEF Marker
<1>1. CASE WorkerTake
  <2>1. /\ Len(queue) \in Nat
        /\ Len(Tail(queue)) = Len(queue) - 1
        /\ \A i \in 1..Len(Tail(queue)) : Tail(queue)[i] = queue[i + 1]
        /\ Head(queue) = queue[1] /\ 1 \in 1..Len(queue)
    BY <1>1, TailItems DEF WorkerTake, TypeOK
  <2>2. /\ queue' = Tail(queue) /\ hand' = queue[1]
        /\ worker' = IF queue[1] = Marker THEN "marker" ELSE "begin"
        /\ worker = "get" /\ UNCHANGED <<file, receipt, answer, raised>>
    BY <1>1, <2>1 DEF WorkerTake, Running
  <2>3. queue[1] \in Callers \cup {Marker} /\ hand \notin Callers
    BY <2>1, <2>2 DEF TypeOK, ReceiptInv
  <2>4. ASSUME NEW c \in Callers, Queued(c)
        PROVE  Queued(c)' \/ hand' = c
    <3>1. PICK i \in 1..Len(queue) : queue[i] = c
      BY <2>4 DEF Queued
    <3>2. CASE i = 1
      BY <2>2, <3>1, <3>2
    <3>3. CASE i # 1
      <4>1. i - 1 \in 1..Len(queue') /\ queue'[i - 1] = c
        BY <2>1, <2>2, <3>1, <3>3
      <4> QED BY <4>1 DEF Queued
    <3> QED BY <3>2, <3>3
  <2>5. (worker' \in {"begin", "write", "finish"} <=> hand' \in Callers)
    BY <2>2, <2>3
  <2>6. \A c \in Callers : receipt'[c] = "pending" => Queued(c)' \/ hand' = c
    BY <2>2, <2>3, <2>4 DEF ReceiptInv
  <2>7. \A c \in Callers : receipt'[c] = "ok" \/ answer'[c] = "ok" => Durable(c)'
    BY <2>2 DEF ReceiptInv, Durable
  <2> QED BY <2>2, <2>5, <2>6, <2>7 DEF ReceiptInv
<1>2. CASE WorkerUnmark
  BY <1>2 DEF WorkerUnmark, Running, ReceiptInv, Durable, Queued
<1>3. CASE WorkerExit
  BY <1>3, ReceiptUnchanged DEF WorkerExit
<1>4. CASE WorkerBegin
  BY <1>4 DEF WorkerBegin, Running, ReceiptInv, Durable, Queued
<1>5. CASE WorkerWrite
  <2>1. /\ worker = "write" /\ worker' = "finish" /\ hand \in Callers
        /\ UNCHANGED <<hand, queue, receipt, answer>>
        /\ file' = file \/ file' = Append(file, hand)
    BY <1>5 DEF WorkerWrite, Running, ReceiptInv
  <2>2. \A c \in Callers : Durable(c) => Durable(c)'
    BY <2>1, WriteKeepsDurable
  <2>3. ~raised' => Durable(hand)'
    <3>1. SUFFICES ASSUME ~raised' PROVE Durable(hand)'
      OBVIOUS
    <3>2. file' = Append(file, hand)
      BY <1>5, <3>1 DEF WorkerWrite
    <3>3. Len(file) \in Nat /\ Len(file') = Len(file) + 1 /\ file'[Len(file) + 1] = hand
      BY <2>1, <3>2, AppendItems DEF TypeOK
    <3> QED BY <2>1, <3>3 DEF Durable
  <2>4. \A c \in Callers : receipt'[c] = "pending" => Queued(c)' \/ hand' = c
    BY <2>1 DEF ReceiptInv, Queued
  <2> QED BY <2>1, <2>2, <2>3, <2>4 DEF ReceiptInv, Durable
<1>6. CASE WorkerFinish
  <2>1. /\ worker = "finish" /\ worker' = "get" /\ hand \in Callers /\ hand' = None
        /\ UNCHANGED <<file, answer>>
    BY <1>6 DEF WorkerFinish, Running, ReceiptInv
  <2>2. CASE raised
    <3> DEFINE r == Finished(receipt, "error")
    <3>1. Fail(r)
      BY <1>6, <2>2 DEF WorkerFinish, AppendFailed
    <3>2. r \in [Callers -> Receipts]
      BY <2>1 DEF Finished, TypeOK, Receipts
    <3>3. ASSUME NEW c \in Callers
          PROVE  receipt'[c] # "pending" /\ (receipt'[c] = "ok" => receipt[c] = "ok")
      <4>1. /\ r[c] = "pending" => receipt[c] = "pending" /\ c # hand
            /\ r[c] = "ok" => receipt[c] = "ok"
        BY <2>1 DEF Finished, TypeOK
      <4>2. /\ receipt'[c] = "pending" => r[c] = "pending" /\ ~Queued(c)
            /\ receipt'[c] = "ok" => r[c] = "ok"
        <5> HIDE DEF r
        <5> QED BY <3>1, <3>2, FailReceipts
      <4>3. receipt[c] = "pending" => Queued(c) \/ hand = c
        BY DEF ReceiptInv
      <4> QED BY <4>1, <4>2, <4>3
    <3>4. ~raised' /\ worker' = "get" /\ None \notin Callers
      BY <1>6 DEF WorkerFinish
    <3> QED BY <2>1, <3>3, <3>4 DEF ReceiptInv, Durable
  <2>3. CASE ~raised
    <3>1. receipt' = Finished(receipt, "ok") /\ queue' = queue
      BY <1>6, <2>3 DEF WorkerFinish, AppendFailed
    <3>2. \A c \in Callers : /\ receipt'[c] = "pending" => receipt[c] = "pending" /\ c # hand
                             /\ receipt'[c] = "ok" => receipt[c] = "ok" \/ c = hand
      BY <2>1, <3>1 DEF Finished, TypeOK
    <3>3. ASSUME NEW c \in Callers, receipt'[c] = "pending" PROVE Queued(c)'
      <4>1. receipt[c] = "pending" /\ c # hand
        BY <3>2, <3>3
      <4>2. Queued(c)
        BY <4>1 DEF ReceiptInv
      <4> QED BY <3>1, <4>2 DEF Queued
    <3>4. \A c \in Callers : receipt'[c] = "ok" \/ answer'[c] = "ok" => Durable(c)'
      BY <2>1, <2>3, <3>2 DEF ReceiptInv, Durable
    <3> QED BY <2>1, <3>3, <3>4 DEF ReceiptInv
  <2> QED BY <2>2, <2>3
<1>7. ASSUME NEW c \in Callers, AppendStep(c) PROVE ReceiptInv'
  <2>1. CASE AppendRefused(c)
    <3>1. Answer(c, "failed")
      BY <2>1 DEF AppendRefused
    <3>2. \A y \in Callers : answer'[y] = "ok" => answer[y] = "ok"
      BY <3>1, OthersAnswers DEF Answers
    <3> QED BY <2>1, <3>2, ReceiptUnchanged DEF AppendRefused
  <2>2. CASE AppendOverflow(c)
    <3>1. Answer(c, "failed") /\ Fail(receipt)
      BY <2>2 DEF AppendOverflow
    <3>2. \A y \in Callers : answer'[y] = "ok" => answer[y] = "ok"
      BY <3>1, OthersAnswers DEF Answers
    <3>3. receipt \in [Callers -> Receipts]
      BY DEF TypeOK, Receipts
    <3> QED BY <2>2, <3>1, <3>2, <3>3, FailReceiptInv DEF AppendOverflow
  <2>3. CASE AppendQueued(c)
    <3>1. /\ queue' = Append(queue, c) /\ receipt' = [receipt EXCEPT ![c] = "pending"]
          /\ UNCHANGED <<file, worker, hand, raised, answer>>
      BY <2>3 DEF AppendQueued
    <3>2. \A y \in Callers : Queued(y) \/ y = c => Queued(y)'
      BY <3>1, AppendKeepsQueued
    <3>3. \A y \in Callers : /\ receipt'[y] = "pending" => receipt[y] = "pending" \/ y = c
                             /\ receipt'[y] = "ok" => receipt[y] = "ok"
      BY <3>1 DEF TypeOK
    <3> QED BY <3>1, <3>2, <3>3 DEF ReceiptInv, Durable
  <2>4. CASE AppendReturn(c)
    <3>1. PICK a \in {"ok", "failed"} : Answer(c, a) /\ (a = "ok" => receipt[c] = "ok")
      BY <2>4 DEF AppendReturn
    <3>2. \A y \in Callers : answer'[y] = "ok" => receipt[y] = "ok" \/ answer[y] = "ok"
      BY <3>1, OthersAnswers DEF Answers
    <3> QED BY <2>4, <3>2, ReceiptUnchanged DEF AppendReturn
  <2>5. CASE AppendExpire(c)
    BY <2>5, ReceiptUnchanged DEF AppendExpire
  <2>6. CASE AppendTimeout(c)
    <3>1. Answer(c, "failed")
      BY <2>6 DEF AppendTimeout
    <3>2. \A y \in Callers : answer'[y] = "ok" => answer[y] = "ok"
      BY <3>1, OthersAnswers DEF Answers
    <3>3. CASE receipt[c] = "pending"
      <4> DEFINE r == [receipt EXCEPT ![c] = "error"]
      <4>1. /\ Fail(r) /\ r \in [Callers -> Receipts]
            /\ \A y \in Callers : r[y] \in {"pending", "ok"} => r[y] = receipt[y]
        BY <2>6, <3>3 DEF AppendTimeout, TypeOK, Receipts
      <4>2. UNCHANGED <<file, worker, hand, raised>>
        BY <2>6 DEF AppendTimeout
      <4> HIDE DEF r
      <4> QED BY <3>2, <4>1, <4>2, FailReceiptInv
    <3>4. CASE receipt[c] # "pending"
      BY <2>6, <3>2, <3>4, ReceiptUnchanged DEF AppendTimeout
    <3> QED BY <3>3, <3>4
  <2> QED BY <1>7, <2>1, <2>2, <2>3, <2>4, <2>5, <2>6 DEF AppendStep
<1>8. ASSUME NEW x \in Closers, CloseBegin(x) \/ CloseReturn(x) PROVE ReceiptInv'
  <2>1. UNCHANGED <<file, worker, hand, raised, receipt>>
    BY <1>8 DEF CloseBegin, CloseReturn
  <2>2. answer' = answer \/ \E a \in {"closed", "unclosed"} : Answer(x, a)
    BY <1>8 DEF CloseBegin, CloseReturn
  <2>3. \A y \in Callers : answer'[y] = "ok" => answer[y] = "ok"
    BY <2>2, OthersAnswers DEF Answers
  <2>4. CASE queue' = queue
    BY <2>1, <2>3, <2>4, ReceiptUnchanged
  <2>5. CASE queue' = Append(queue, Marker)
    <3>1. \A y \in Callers : Queued(y) => Queued(y)'
      BY <2>5, AppendKeepsQueued
    <3> QED BY <2>1, <2>3, <3>1 DEF ReceiptInv, Durable
  <2> QED BY <1>8, <2>4, <2>5 DEF CloseBegin, CloseReturn, StopRequested
<1>9. CASE Finis
  BY <1>9, ReceiptUnchanged DEF Finis, vars
<1> QED BY <1>1, <1>2, <1>3, <1>4, <1>5, <1>6, <1>7, <1>8, <1>9 DEF Next, WorkerStep

-----------------------------------------------------------------------------
(* The thread.                                                             *)

\* No step but the queueing of an append by a live worker makes a receipt
\* pending.
LEMMA PendingStep ==
  ASSUME TypeOK, MarkerInv, ReceiptInv, Next, thread # "alive",
         NEW c \in Callers, receipt'[c] = "pending"
  PROVE  receipt[c] = "pending"
<1>1. ~WorkerStep
  BY DEF WorkerStep, WorkerTake, WorkerUnmark, WorkerExit, WorkerBegin, WorkerWrite, WorkerFinish, Running
<1>2. ASSUME NEW b \in Callers, AppendStep(b) PROVE receipt[c] = "pending"
  <2>1. CASE UNCHANGED receipt
    BY <2>1
  <2>2. CASE AppendTimeout(b) /\ receipt[b] = "pending"
    <3> DEFINE r == [receipt EXCEPT ![b] = "error"]
    <3>1. /\ Fail(r) /\ r \in [Callers -> Receipts]
          /\ r[c] = "pending" => receipt[c] = "pending"
      BY <2>2 DEF AppendTimeout, TypeOK, Receipts
    <3> HIDE DEF r
    <3>2. receipt'[c] = "pending" => r[c] = "pending"
      BY <3>1, FailReceipts
    <3> QED BY <3>1, <3>2
  <2> QED BY <1>2, <2>1, <2>2 DEF AppendStep, AppendRefused, AppendOverflow, AppendQueued,
             AppendReturn, AppendExpire, AppendTimeout, Healthy
<1>3. ASSUME NEW x \in Closers, CloseBegin(x) \/ CloseReturn(x) PROVE receipt[c] = "pending"
  BY <1>3 DEF CloseBegin, CloseReturn
<1>4. CASE Finis
  BY <1>4 DEF Finis, vars
<1> QED BY <1>1, <1>2, <1>3, <1>4 DEF Next

\* Only the exit changes the thread.
LEMMA ThreadStep ==
  ASSUME Next
  PROVE  UNCHANGED thread \/ WorkerExit
<1> USE DEF loop
<1>1. CASE WorkerStep
  BY <1>1 DEF WorkerStep, WorkerTake, WorkerUnmark, WorkerBegin, WorkerWrite, WorkerFinish
<1>2. ASSUME NEW c \in Callers, AppendStep(c) PROVE UNCHANGED thread
  BY <1>2 DEF AppendStep, AppendRefused, AppendOverflow, AppendQueued, AppendReturn,
              AppendExpire, AppendTimeout
<1>3. ASSUME NEW x \in Closers, CloseBegin(x) \/ CloseReturn(x) PROVE UNCHANGED thread
  BY <1>3 DEF CloseBegin, CloseReturn
<1> QED BY <1>1, <1>2, <1>3 DEF Next, Finis, vars

\* A call is told "closed" only by a thread that ended, or never was.
LEMMA ClosedStep ==
  ASSUME TypeOK, Next, NEW x \in Closers, answer'[x] = "closed"
  PROVE  answer[x] = "closed" \/ ClosedCleanly
<1>1. CASE WorkerStep \/ Finis
  BY <1>1 DEF WorkerStep, WorkerTake, WorkerUnmark, WorkerExit, WorkerBegin, WorkerWrite,
              WorkerFinish, Finis, vars, calls
<1>2. ASSUME NEW c \in Callers, AppendStep(c) PROVE answer[x] = "closed"
  <2>1. UNCHANGED answer \/ \E a \in {"ok", "failed"} : Answer(c, a)
    BY <1>2 DEF AppendStep, AppendRefused, AppendOverflow, AppendQueued, AppendReturn,
                AppendExpire, AppendTimeout
  <2> QED BY <2>1, OthersAnswers DEF Answers
<1>3. ASSUME NEW y \in Closers, CloseBegin(y) \/ CloseReturn(y)
      PROVE  answer[x] = "closed" \/ ClosedCleanly
  <2>1. \/ UNCHANGED answer
        \/ Answer(y, "unclosed")
        \/ Answer(y, "closed") /\ ClosedCleanly
    BY <1>3 DEF CloseBegin, CloseReturn, ClosedCleanly
  <2> QED BY <2>1, OthersAnswers DEF Answers
<1> QED BY <1>1, <1>2, <1>3 DEF Next

LEMMA ThreadInvStep ==
  ASSUME TypeOK, MarkerInv, ReceiptInv, ThreadInv, Next
  PROVE  ThreadInv'
<1>1. thread' = "dead" => worker' = "exit"
  <2>1. CASE WorkerExit
    BY <2>1 DEF WorkerExit, Running
  <2>2. CASE thread' = "dead" /\ UNCHANGED thread
    <3>1. ~WorkerStep
      BY <2>2 DEF WorkerStep, WorkerTake, WorkerUnmark, WorkerExit, WorkerBegin, WorkerWrite,
                  WorkerFinish, Running
    <3>2. UNCHANGED worker
      BY <3>1 DEF Next, AppendStep, AppendRefused, AppendOverflow, AppendQueued, AppendReturn,
             AppendExpire, AppendTimeout, CloseBegin, CloseReturn, Finis, vars, loop
    <3> QED BY <2>2, <3>2 DEF ThreadInv
  <2> QED BY <2>1, <2>2, ThreadStep
<1>2. thread' = "none" => \A c \in Callers : receipt'[c] # "pending"
  <2>1. thread' = "none" => thread = "none"
    BY ThreadStep DEF WorkerExit
  <2> QED BY <2>1, PendingStep DEF ThreadInv
<1>3. ASSUME NEW x \in Closers, answer'[x] = "closed"
      PROVE  thread' # "alive" /\ \A c \in Callers : receipt'[c] # "pending"
  <2>1. thread # "alive" /\ \A c \in Callers : receipt[c] # "pending"
    <3>1. CASE answer[x] = "closed"
      BY <3>1 DEF ThreadInv, ClosedMeansDone
    <3>2. CASE thread = "none"
      BY <3>2 DEF ThreadInv
    <3>3. CASE Finishable
      <4>1. thread = "dead" /\ queue = <<>> /\ worker = "exit"
        BY <3>3 DEF Finishable, ThreadInv
      <4>2. \A c \in Callers : ~Queued(c) /\ hand # c
        BY <4>1 DEF Queued, ReceiptInv
      <4> QED BY <4>1, <4>2 DEF ReceiptInv
    <3> QED BY <1>3, <3>1, <3>2, <3>3, ClosedStep DEF ClosedCleanly
  <2>2. thread' # "alive"
    BY <2>1, ThreadStep DEF WorkerExit
  <2> QED BY <2>1, <2>2, PendingStep
<1> QED BY <1>1, <1>2, <1>3 DEF ThreadInv, ClosedMeansDone

-----------------------------------------------------------------------------
(* The theorems.                                                           *)

LEMMA AuditInit == Init => AuditInv
<1> SUFFICES ASSUME Init PROVE AuditInv
  OBVIOUS
<1>1. TypeOK
  BY TypeInit
<1>2. /\ worker = "get" /\ Len(queue) = 0 /\ Len(file) = 0 /\ Len(accepted) = 0
      /\ thread \in {"alive", "none"} /\ hand = None
      /\ accepting \in BOOLEAN /\ failed \in BOOLEAN /\ (failed => ~accepting)
      /\ \A c \in Callers : receipt[c] = None /\ answer[c] = None
      /\ \A x \in Closers : answer[x] = None
  BY DEF Init
<1>3. MarkerInv
  BY <1>2, AuditCapacityAssumption DEF MarkerInv
<1>4. SegmentInv
  BY <1>2 DEF SegmentInv, FileIsPrefix, Ahead
<1>5. ReceiptInv
  BY <1>2, AuditNamesAssumption DEF ReceiptInv
<1>6. ThreadInv
  BY <1>2, AuditNamesAssumption DEF ThreadInv, ClosedMeansDone
<1> QED BY <1>1, <1>3, <1>4, <1>5, <1>6 DEF AuditInv

LEMMA AuditStep == AuditInv /\ [Next]_vars => AuditInv'
<1> SUFFICES ASSUME AuditInv, [Next]_vars PROVE AuditInv'
  OBVIOUS
<1>1. TypeOK /\ MarkerInv /\ SegmentInv /\ ReceiptInv /\ ThreadInv
  BY DEF AuditInv
<1>2. CASE Next
  <2>1. TypeOK'
    <3>1. CASE Finis
      BY <1>1, <3>1 DEF Finis, vars, flags, writer, loop, calls, TypeOK
    <3> QED BY <1>1, <1>2, <3>1, WorkerType, AppendType, CloseType DEF Next
  <2> QED BY <1>1, <1>2, <2>1, MarkerStep, SegmentStep, ReceiptStep, ThreadInvStep DEF AuditInv
<1>3. CASE UNCHANGED vars
  <2>1. TypeOK' /\ MarkerInv'
    BY <1>1, <1>3, MarkerUnchanged DEF vars, flags, writer, loop, calls, TypeOK
  <2>2. SegmentInv' /\ ReceiptInv'
    BY <1>1, <1>3, SegmentUnchanged, ReceiptUnchanged DEF vars, flags, writer, loop, calls
  <2>3. ThreadInv'
    BY <1>1, <1>3 DEF vars, flags, writer, loop, calls, ThreadInv, ClosedMeansDone
  <2> QED BY <2>1, <2>2, <2>3 DEF AuditInv
<1> QED BY <1>2, <1>3

\* The worker's queue, its hand, its file and every receipt stay in step,
\* whatever the calls, the writer and the timeouts do: the inductive invariant.
THEOREM AuditInvariant == Spec => []AuditInv
<1> QED BY AuditInit, AuditStep, PTL DEF Spec

\* Every variable keeps its type, and the audit queue its bound of one
\* reserved slot above the capacity.
THEOREM AuditTypeCorrect == Spec => []TypeOK
<1>1. AuditInv => TypeOK
  BY DEF AuditInv
<1> QED BY <1>1, AuditInvariant, PTL

\* The audit file is a prefix of the accepted records, in their order: no
\* record is lost between two others.
THEOREM FileStaysPrefix == Spec => []FileIsPrefix
<1>1. AuditInv => FileIsPrefix
  BY DEF AuditInv, SegmentInv
<1> QED BY <1>1, AuditInvariant, PTL

\* A caller that is told its record was appended finds it in the file.
THEOREM AnswersAreDurable == Spec => []AnsweredIsDurable
<1>1. AuditInv => AnsweredIsDurable
  <2> SUFFICES ASSUME AuditInv, NEW c \in Callers, answer[c] = "ok" PROVE c \in Range(file)
    BY DEF AnsweredIsDurable
  <2>1. Durable(c) /\ file \in Seq(Callers)
    BY DEF AuditInv, ReceiptInv, TypeOK
  <2> QED BY <2>1, RangeItems DEF Durable
<1> QED BY <1>1, AuditInvariant, PTL

\* close() answers true only of a worker that is gone and owes no answer.
THEOREM ClosedWorkersAreDone == Spec => []ClosedMeansDone
<1>1. AuditInv => ClosedMeansDone
  BY DEF AuditInv, ThreadInv
<1> QED BY <1>1, AuditInvariant, PTL
=============================================================================
