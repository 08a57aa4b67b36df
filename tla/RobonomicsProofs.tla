-------------------------- MODULE RobonomicsProofs --------------------------
(***************************************************************************)
(* Proofs about Robonomics for any payloads, any number of endpoints and   *)
(* of interrupts.  TypeOK is inductive by itself except that the worker's  *)
(* steps need item[t] to be a payload, so typing and WorkerInv are proved  *)
(* together; the other parts of SafetyInv are then proved on top of them,  *)
(* and last that the steps are those of DatalogDelivery.                   *)
(***************************************************************************)
EXTENDS Robonomics, SequenceTheorems, TLAPS

(* The inductive invariant behind the properties, in named parts.           *)

\* _worker_task is None or names a live task, and a task inside the loop body
\* holds a payload.
WorkerInv ==
  /\ SoleWorker
  /\ workerTask # None => pc[workerTask] # "done"
  /\ queue # <<>> /\ workerTask = None =>
       \E p \in Payload : request[p] = "locking"
  /\ \A t \in Task : pc[t] \in {"sending", "unpinning"} => item[t] \in Payload

\* A payload waits in the queue at most once, untried; one not yet requested
\* has no thread; one being unpinned has been given up.
QueueInv ==
  /\ \A i \in 1 .. Len(queue) : /\ request[queue[i]] # "new"
                                /\ thread[queue[i]] = "idle"
  /\ \A i, j \in 1 .. Len(queue) : queue[i] = queue[j] => i = j
  /\ \A p \in Payload : request[p] = "new" => thread[p] = "idle"
  /\ \A p \in Payload : thread[p] = "idle" => tried[p] = <<>> /\ p \in pinned
  /\ \A t \in Task : pc[t] = "unpinning" => GivenUp(item[t])

\* A running thread belongs to the worker that waits for it, unless that
\* worker was interrupted and left it behind.
ThreadInv ==
  \A p \in Payload \ abandoned : Sending(p) =>
    \E t \in Task : pc[t] = "sending" /\ item[t] = p

\* What a worker holds has been taken from the queue and is not left behind.
HeldInv ==
  /\ \A p \in Payload : Held(p) => thread[p] # "idle"
  /\ \A p \in abandoned : thread[p] # "idle" /\ ~Held(p)

\* A send makes at most as many attempts as there are endpoints, one that is
\* ready for another has made fewer, and a new one has made none.
CountInv ==
  \A p \in Payload :
    /\ Len(tried[p]) <= NumEndpoints
    /\ thread[p] = "ready" => Len(tried[p]) < NumEndpoints
    /\ thread[p] = "exhausted" => Len(tried[p]) = NumEndpoints

\* The endpoints of a send are consecutive from where it began, wss is the
\* next one (or, during a call, the one in use).
Wrap(k) == IF k < NumEndpoints THEN k ELSE k - NumEndpoints

RotationInv ==
  abandoned = {} => \A p \in Payload :
    /\ \A i \in 1 .. Len(tried[p]) : tried[p][i] = Wrap(tried[p][1] + i - 1)
    /\ thread[p] = "ready" /\ tried[p] # <<>> =>
         wss = Wrap(tried[p][1] + Len(tried[p]))
    /\ thread[p] = "calling" =>
         tried[p] # <<>> /\ wss = Wrap(tried[p][1] + Len(tried[p]) - 1)

SafetyInv ==
  /\ WorkerInv
  /\ QueueInv
  /\ HeldInv
  /\ ThreadInv
  /\ CountInv
  /\ RotationInv
  /\ FifoOnce
  /\ UnpinOnlyAfterGivingUp

-----------------------------------------------------------------------------
(* Typing, and the worker the loop body belongs to.                         *)

\* Rotating stays within the endpoints.
LEMMA NextWssType ==
  ASSUME NEW w \in Endpoint
  PROVE  NextWss(w) \in Endpoint
BY EndpointsAssumption DEF NextWss, Endpoint

\* Typing: every variable stays in its type, and a task inside the loop body
\* holds a payload.
Typed == TypeOK /\ WorkerInv

LEMMA TypedInit == Init => Typed
<1> SUFFICES ASSUME Init PROVE Typed
  OBVIOUS
<1>1. 0 \in Endpoint
  BY EndpointsAssumption DEF Endpoint
<1>2. TypeOK
  BY <1>1 DEF Init, TypeOK, Request, WorkerPc, Thread
<1>3. WorkerInv
  BY DEF Init, WorkerInv, SoleWorker
<1> QED
  BY <1>2, <1>3 DEF Typed

LEMMA TypedStep == Typed /\ [Next]_vars => Typed'
<1> SUFFICES ASSUME TypeOK, WorkerInv, [Next]_vars PROVE Typed'
  BY DEF Typed
<1> USE NoneAssumption DEF TypeOK, WorkerInv, SoleWorker, Request, WorkerPc, Thread
<1>1. ASSUME NEW p \in Payload, SendDatalog(p) PROVE Typed'
  <2>1. TypeOK'
    BY <1>1 DEF SendDatalog, Enqueue
  <2>2. WorkerInv'
    BY <1>1 DEF SendDatalog
  <2> QED
    BY <2>1, <2>2 DEF Typed
<1>2. ASSUME NEW p \in Payload, EnsureWorker(p) PROVE Typed'
  <2>1. CASE NoWorker /\ \E t \in Task : CreateWorker(t, pc)
    <3>1. PICK t \in Task : CreateWorker(t, pc)
      BY <2>1
    <3>2. workerTask = None
      BY <2>1 DEF NoWorker
    <3>3. pc' = [pc EXCEPT ![t] = "loop"] /\ workerTask' = t
      BY <3>1 DEF CreateWorker
    <3>4. TypeOK'
      BY <1>2, <3>3 DEF EnsureWorker
    <3>5. WorkerInv'
      BY <1>2, <3>2, <3>3 DEF EnsureWorker
    <3> QED
      BY <3>4, <3>5 DEF Typed
  <2>2. CASE ~NoWorker /\ UNCHANGED <<workerTask, pc>>
    <3>1. workerTask # None
      BY <2>2 DEF NoWorker
    <3>2. TypeOK'
      BY <1>2, <2>2 DEF EnsureWorker
    <3>3. WorkerInv'
      BY <1>2, <2>2, <3>1 DEF EnsureWorker
    <3> QED
      BY <3>2, <3>3 DEF Typed
  <2> QED
    BY <1>2, <2>1, <2>2 DEF EnsureWorker
<1>3. ASSUME NEW p \in Payload, AttemptBegins(p) PROVE Typed'
  <2>1. TypeOK'
    BY <1>3 DEF AttemptBegins
  <2>2. WorkerInv'
    BY <1>3 DEF AttemptBegins
  <2> QED
    BY <2>1, <2>2 DEF Typed
<1>4. ASSUME NEW p \in Payload, AttemptEnds(p) PROVE Typed'
  <2>1. NextWss(wss) \in Endpoint
    BY NextWssType
  <2>2. TypeOK'
    <3>1. ASSUME AttemptSucceeds(p) PROVE TypeOK'
      BY <3>1 DEF AttemptSucceeds
    <3>2. ASSUME AttemptRejected(p) PROVE TypeOK'
      BY <3>2 DEF AttemptRejected
    <3>3. ASSUME AttemptFails(p) PROVE TypeOK'
      BY <2>1, <3>3 DEF AttemptFails, Retry
    <3> QED
      BY <1>4, <3>1, <3>2, <3>3 DEF AttemptEnds
  <2>3. WorkerInv'
    BY <1>4 DEF AttemptEnds, AttemptSucceeds, AttemptRejected, AttemptFails
  <2> QED
    BY <2>2, <2>3 DEF Typed
<1>5. ASSUME NEW t \in Task, WorkerStep(t) PROVE Typed'
  <2>1. CASE WorkerPops(t)
    <3>1. Head(queue) \in Payload /\ Tail(queue) \in Seq(Payload)
      BY <2>1, HeadTailProperties DEF WorkerPops
    <3>2. TypeOK'
      BY <2>1, <3>1 DEF WorkerPops
    <3>3. WorkerInv'
      BY <2>1, <3>1 DEF WorkerPops
    <3> QED
      BY <3>2, <3>3 DEF Typed
  <2>2. CASE WorkerDrained(t)
    <3>1. TypeOK'
      BY <2>2 DEF WorkerDrained
    <3>2. WorkerInv'
      BY <2>2 DEF WorkerDrained
    <3> QED
      BY <3>1, <3>2 DEF Typed
  <2>3. CASE WorkerResumes(t)
    <3>1. TypeOK'
      BY <2>3 DEF WorkerResumes, AfterSend
    <3>2. WorkerInv'
      BY <2>3 DEF WorkerResumes, AfterSend
    <3> QED
      BY <3>1, <3>2 DEF Typed
  <2>4. CASE WorkerUnpins(t)
    <3>1. TypeOK'
      BY <2>4 DEF WorkerUnpins
    <3>2. WorkerInv'
      BY <2>4 DEF WorkerUnpins
    <3> QED
      BY <3>1, <3>2 DEF Typed
  <2>5. CASE WorkerFinishes(t)
    <3> DEFINE ended == [pc EXCEPT ![t] = "done"]
    <3>1. CASE Respawn /\ \E u \in Task \ {t} : CreateWorker(u, ended)
      <4>1. PICK u \in Task \ {t} : CreateWorker(u, ended)
        BY <3>1
      <4>2. pc' = [ended EXCEPT ![u] = "loop"] /\ workerTask' = u
        BY <4>1 DEF CreateWorker
      <4>3. workerTask = t
        BY <2>5 DEF WorkerFinishes
      <4>4. TypeOK'
        BY <2>5, <4>2 DEF WorkerFinishes
      <4>5. WorkerInv'
        BY <2>5, <4>2, <4>3 DEF WorkerFinishes
      <4> QED
        BY <4>4, <4>5 DEF Typed
    <3>2. CASE ~Respawn /\ workerTask' = None /\ pc' = ended
      <4>1. TypeOK'
        BY <2>5, <3>2 DEF WorkerFinishes
      <4>2. WorkerInv'
        BY <2>5, <3>2 DEF WorkerFinishes, Respawn
      <4> QED
        BY <4>1, <4>2 DEF Typed
    <3> QED
      BY <2>5, <3>1, <3>2 DEF WorkerFinishes
  <2> QED
    BY <1>5, <2>1, <2>2, <2>3, <2>4, <2>5 DEF WorkerStep
<1>6. ASSUME NEW t \in Task, Interrupt(t) PROVE Typed'
  <2>1. TypeOK'
    BY <1>6 DEF Interrupt
  <2>2. WorkerInv'
    BY <1>6 DEF Interrupt
  <2> QED
    BY <2>1, <2>2 DEF Typed
<1>7. CASE UNCHANGED vars
  BY <1>7 DEF vars, Typed
<1> QED
  BY <1>1, <1>2, <1>3, <1>4, <1>5, <1>6, <1>7 DEF Next, Quiescent

\* Type correctness, and the book-keeping of workers: the lock around the test
\* and the creation, and the hand-over in `finally', suffice.
THEOREM TypeCorrect == Spec => [](TypeOK /\ WorkerInv)
<1>1. Init => Typed
  BY TypedInit
<1>2. Typed /\ [Next]_vars => Typed'
  BY TypedStep
<1>3. Typed => TypeOK /\ WorkerInv
  BY DEF Typed
<1> QED
  BY <1>1, <1>2, <1>3, PTL DEF Spec

\* There is never a second worker, for any number of requests, task names and
\* interrupts.
THEOREM SoleWorkerAlways == Spec => []SoleWorker
<1>1. WorkerInv => SoleWorker
  BY DEF WorkerInv
<1> QED
  BY <1>1, TypeCorrect, PTL
-----------------------------------------------------------------------------
(* The queue: FIFO, no payload twice, nothing unpinned that may succeed.    *)

QueueSafe == QueueInv /\ FifoOnce /\ UnpinOnlyAfterGivingUp

LEMMA QueueInit == Init => QueueSafe
BY DEF Init, QueueSafe, QueueInv, FifoOnce, UnpinOnlyAfterGivingUp, GivenUp

\* A step that changes none of the queue's variables, and moves no task into
\* "unpinning", keeps the queue safe.
LEMMA QueueFrame ==
  ASSUME QueueSafe,
         UNCHANGED <<request, queue, thread, tried, pinned, accepted, started>>,
         \A t \in Task : pc'[t] = "unpinning" =>
           pc[t] = "unpinning" /\ item'[t] = item[t]
  PROVE  QueueSafe'
BY DEF QueueSafe, QueueInv, FifoOnce, UnpinOnlyAfterGivingUp, GivenUp

\* An attempt changes the thread of one payload that is out of the queue.
LEMMA QueueAttempt ==
  ASSUME TypeOK, WorkerInv, QueueSafe, NEW p \in Payload,
         NEW st \in Thread \ {"idle"},
         Sending(p),
         thread' = [thread EXCEPT ![p] = st],
         \A q \in Payload \ {p} : tried'[q] = tried[q],
         UNCHANGED <<request, queue, pc, item, pinned, accepted, started>>
  PROVE  QueueSafe'
<1> USE DEF TypeOK, QueueSafe, QueueInv, UnpinOnlyAfterGivingUp, GivenUp, Sending, Thread
<1>1. thread'[p] = st /\ \A q \in Payload \ {p} : thread'[q] = thread[q]
  OBVIOUS
<1>2. thread[p] # "idle" /\ p \in pinned /\ request[p] # "new"
  OBVIOUS
<1>3. \A i \in 1 .. Len(queue) : queue[i] \in Payload \ {p}
  OBVIOUS
<1>4. QueueInv'
  <2>1. \A i \in 1 .. Len(queue) : request[queue[i]] # "new" /\ thread'[queue[i]] = "idle"
    BY <1>1, <1>3
  <2>2. \A q \in Payload : request[q] = "new" => thread'[q] = "idle"
    BY <1>1, <1>2
  <2>3. \A q \in Payload : thread'[q] = "idle" => tried'[q] = <<>> /\ q \in pinned
    BY <1>1
  <2>4. \A t \in Task : pc[t] = "unpinning" => item[t] # p
    BY <1>2
  <2>5. \A t \in Task : pc[t] = "unpinning" => item[t] \in Payload
    BY DEF WorkerInv
  <2> QED
    BY <1>1, <2>1, <2>2, <2>3, <2>4, <2>5
<1>5. FifoOnce'
  BY DEF FifoOnce
<1>6. UnpinOnlyAfterGivingUp'
  BY <1>1, <1>2
<1> QED
  BY <1>4, <1>5, <1>6

\* Appending to the second of two concatenated sequences appends to the whole.
LEMMA AppendToConcat ==
  ASSUME NEW S, NEW s \in Seq(S), NEW q \in Seq(S), NEW e \in S
  PROVE  s \o Append(q, e) = Append(s \o q, e)
<1>1. <<e>> \in Seq(S)
  OBVIOUS
<1>2. s \o q \in Seq(S)
  BY ConcatProperties
<1>3. Append(q, e) = q \o <<e>> /\ Append(s \o q, e) = (s \o q) \o <<e>>
  BY <1>2, AppendIsConcat
<1> QED
  BY <1>1, <1>3, ConcatAssociative

\* Moving the head of a queue to the end of a history keeps the whole.
LEMMA MoveHead ==
  ASSUME NEW S, NEW s \in Seq(S), NEW q \in Seq(S), q # <<>>
  PROVE  Append(s, Head(q)) \o Tail(q) = s \o q
<1>1. Head(q) \in S /\ Tail(q) \in Seq(S) /\ <<Head(q)>> \in Seq(S)
  BY HeadTailProperties
<1>2. q = <<Head(q)>> \o Tail(q)
  <2>1. Len(<<Head(q)>> \o Tail(q)) = Len(q) /\ <<Head(q)>> \o Tail(q) \in Seq(S)
    BY <1>1, ConcatProperties, HeadTailProperties, LenProperties
  <2>2. ASSUME NEW i \in 1 .. Len(q) PROVE (<<Head(q)>> \o Tail(q))[i] = q[i]
    BY <1>1, ConcatProperties, HeadTailProperties, LenProperties
  <2> QED
    BY <2>1, <2>2, SeqEqual
<1>3. Append(s, Head(q)) = s \o <<Head(q)>>
  BY <1>1, AppendIsConcat
<1> QED
  BY <1>1, <1>2, <1>3, ConcatAssociative

\* An index into a sequence that grew by one is an old one or the new one.
LEMMA OneLonger ==
  ASSUME NEW n \in Nat
  PROVE  \A i \in 1 .. n + 1 : i \in 1 .. n \/ i = n + 1
OBVIOUS

LEMMA QueuedIsPayload ==
  ASSUME TypeOK, NEW i \in 1 .. Len(queue)
  PROVE  queue[i] \in Payload
BY DEF TypeOK

LEMMA QueueStep == Typed /\ QueueSafe /\ [Next]_vars => QueueSafe'
<1> SUFFICES ASSUME TypeOK, WorkerInv, QueueSafe, [Next]_vars PROVE QueueSafe'
  BY DEF Typed
<1>1. ASSUME NEW p \in Payload, SendDatalog(p) PROVE QueueSafe'
  <2> USE DEF TypeOK, QueueSafe, SendDatalog, Enqueue
  <2>1. /\ queue' = Append(queue, p) /\ accepted' = Append(accepted, p)
        /\ request[p] = "new" /\ request' = [request EXCEPT ![p] = "locking"]
    BY <1>1
  <2>2. /\ Len(queue') = Len(queue) + 1
        /\ \A i \in 1 .. Len(queue) : queue'[i] = queue[i]
        /\ queue'[Len(queue) + 1] = p
        /\ Len(queue) \in Nat
    BY <2>1
  <2>3. \A i \in 1 .. Len(queue) : queue[i] \in Payload \ {p}
    <3> TAKE i \in 1 .. Len(queue)
    <3>1. queue[i] \in Payload
      BY QueuedIsPayload
    <3>2. request[queue[i]] # "new"
      BY DEF QueueInv
    <3> QED
      BY <2>1, <3>1, <3>2
  <2>4. thread[p] = "idle"
    BY <2>1 DEF QueueInv
  <2>5. \A i \in 1 .. Len(queue') : request'[queue'[i]] # "new" /\ thread[queue'[i]] = "idle"
    <3>1. \A i \in 1 .. Len(queue) :
            request'[queue'[i]] # "new" /\ thread[queue'[i]] = "idle"
      BY <2>1, <2>2, <2>3 DEF QueueInv
    <3>2. request'[queue'[Len(queue) + 1]] # "new"
      BY <2>1, <2>2
    <3> QED
      BY <2>2, <2>4, <3>1, <3>2, OneLonger
  <2>6. \A i, j \in 1 .. Len(queue') : queue'[i] = queue'[j] => i = j
    <3>1. \A i, j \in 1 .. Len(queue) : queue'[i] = queue'[j] => i = j
      BY <2>2 DEF QueueInv
    <3>2. \A i \in 1 .. Len(queue) : queue'[i] # queue'[Len(queue) + 1]
      BY <2>2, <2>3
    <3> QED
      BY <2>2, <3>1, <3>2, OneLonger
  <2>7. QueueInv'
    BY <1>1, <2>1, <2>5, <2>6 DEF QueueInv, GivenUp
  <2>8. FifoOnce'
    <3>1. started \o queue' = Append(started \o queue, p)
      BY <2>1, AppendToConcat
    <3> QED
      BY <1>1, <2>1, <3>1 DEF FifoOnce
  <2>9. UnpinOnlyAfterGivingUp'
    BY <1>1 DEF UnpinOnlyAfterGivingUp, GivenUp
  <2> QED
    BY <2>7, <2>8, <2>9
<1>2. ASSUME NEW p \in Payload, EnsureWorker(p) PROVE QueueSafe'
  <2>1. \A q \in Payload : request'[q] = "new" <=> request[q] = "new"
    BY <1>2 DEF EnsureWorker, TypeOK
  <2>2. \A t \in Task : pc'[t] = "unpinning" => pc[t] = "unpinning"
    BY <1>2 DEF EnsureWorker, CreateWorker, TypeOK
  <2>3. \A i \in 1 .. Len(queue) : queue[i] \in Payload
    BY DEF TypeOK
  <2> QED
    BY <1>2, <2>1, <2>2, <2>3
       DEF EnsureWorker, QueueSafe, QueueInv, FifoOnce, UnpinOnlyAfterGivingUp, GivenUp
<1>3. ASSUME NEW p \in Payload, AttemptBegins(p) PROVE QueueSafe'
  <2>1. \A q \in Payload \ {p} : tried'[q] = tried[q]
    BY <1>3 DEF AttemptBegins, TypeOK
  <2> QED
    BY <1>3, <2>1, QueueAttempt DEF AttemptBegins, Sending, Thread
<1>4. ASSUME NEW p \in Payload, AttemptEnds(p) PROVE QueueSafe'
  <2>1. PICK st \in Thread \ {"idle"} : thread' = [thread EXCEPT ![p] = st]
    BY <1>4 DEF AttemptEnds, AttemptSucceeds, AttemptRejected, AttemptFails, Retry, Thread
  <2> QED
    BY <1>4, <2>1, QueueAttempt
       DEF AttemptEnds, AttemptSucceeds, AttemptRejected, AttemptFails, Sending
<1>5. ASSUME NEW t \in Task, WorkerPops(t) PROVE QueueSafe'
  <2> DEFINE h == Head(queue)
  <2> USE DEF TypeOK, QueueSafe
  <2>1. /\ queue # <<>> /\ queue' = Tail(queue) /\ started' = Append(started, h)
        /\ thread' = [thread EXCEPT ![h] = "ready"]
        /\ item' = [item EXCEPT ![t] = h] /\ pc' = [pc EXCEPT ![t] = "sending"]
        /\ UNCHANGED <<request, tried, pinned, accepted>>
    BY <1>5 DEF WorkerPops
  <2>2. /\ h \in Payload /\ h = queue[1] /\ Len(queue) \in Nat \ {0}
        /\ Len(queue') = Len(queue) - 1
        /\ \A i \in 1 .. Len(queue') : queue'[i] = queue[i + 1]
    BY <2>1, HeadTailProperties
  <2>3. thread[h] = "idle" /\ request[h] # "new"
    BY <2>2 DEF QueueInv
  <2>4. \A i \in 1 .. Len(queue') : queue'[i] # h
    <3> TAKE i \in 1 .. Len(queue')
    <3>1. i + 1 \in 1 .. Len(queue) /\ 1 \in 1 .. Len(queue) /\ i + 1 # 1
      BY <2>2
    <3> QED
      BY <2>2, <3>1 DEF QueueInv
  <2>5. \A i \in 1 .. Len(queue') : i + 1 \in 1 .. Len(queue)
    BY <2>2
  <2>6. \A i \in 1 .. Len(queue') : request[queue'[i]] # "new" /\ thread'[queue'[i]] = "idle"
    BY <2>1, <2>2, <2>4, <2>5 DEF QueueInv
  <2>7. \A i, j \in 1 .. Len(queue') : queue'[i] = queue'[j] => i = j
    <3> TAKE i, j \in 1 .. Len(queue')
    <3>1. queue'[i] = queue[i + 1] /\ queue'[j] = queue[j + 1]
      BY <2>2
    <3>2. queue[i + 1] = queue[j + 1] => i + 1 = j + 1
      BY <2>5 DEF QueueInv
    <3>3. i + 1 = j + 1 => i = j
      BY <2>2
    <3> QED
      BY <3>1, <3>2, <3>3
  <2>8. \A u \in Task : pc'[u] = "unpinning" => GivenUp(item[u]) /\ item'[u] = item[u] /\ item[u] # h
    BY <2>1, <2>3 DEF QueueInv, GivenUp
  <2>9. QueueInv'
    BY <2>1, <2>3, <2>6, <2>7, <2>8 DEF QueueInv, GivenUp, WorkerInv
  <2>10. FifoOnce'
    <3>1. Append(started, h) \o Tail(queue) = started \o queue
      BY <2>1, MoveHead
    <3> QED
      BY <2>1, <3>1 DEF FifoOnce
  <2>11. UnpinOnlyAfterGivingUp'
    BY <2>1, <2>2, <2>3 DEF UnpinOnlyAfterGivingUp, GivenUp
  <2> QED
    BY <2>9, <2>10, <2>11
<1>6. ASSUME NEW t \in Task, WorkerDrained(t) PROVE QueueSafe'
  <2>1. \A u \in Task : pc'[u] = "unpinning" => pc[u] = "unpinning"
    BY <1>6 DEF WorkerDrained, TypeOK
  <2> QED
    BY <1>6, <2>1, QueueFrame DEF WorkerDrained
<1>7. ASSUME NEW t \in Task, WorkerResumes(t) PROVE QueueSafe'
  <2>1. \A u \in Task : pc'[u] = "unpinning" => GivenUp(item[u])
    BY <1>7 DEF WorkerResumes, AfterSend, TypeOK, QueueSafe, QueueInv
  <2> QED
    BY <1>7, <2>1
       DEF WorkerResumes, QueueSafe, QueueInv, FifoOnce, UnpinOnlyAfterGivingUp, GivenUp
<1>8. ASSUME NEW t \in Task, WorkerUnpins(t) PROVE QueueSafe'
  <2>1. \A u \in Task : pc'[u] = "unpinning" => pc[u] = "unpinning"
    BY <1>8 DEF WorkerUnpins, TypeOK
  <2>2. GivenUp(item[t]) /\ item[t] \in Payload
    BY <1>8 DEF WorkerUnpins, QueueSafe, QueueInv, WorkerInv
  <2>3. \A q \in Payload \ pinned' : GivenUp(q)
    BY <1>8, <2>2 DEF WorkerUnpins, QueueSafe, UnpinOnlyAfterGivingUp
  <2>4. \A q \in Payload : thread[q] = "idle" => q \in pinned'
    BY <2>3 DEF GivenUp
  <2> QED
    BY <1>8, <2>1, <2>3, <2>4
       DEF WorkerUnpins, QueueSafe, QueueInv, FifoOnce, UnpinOnlyAfterGivingUp, GivenUp
<1>9. ASSUME NEW t \in Task, WorkerFinishes(t) PROVE QueueSafe'
  <2>1. \A u \in Task : pc'[u] = "unpinning" => pc[u] = "unpinning"
    BY <1>9 DEF WorkerFinishes, CreateWorker, TypeOK
  <2> QED
    BY <1>9, <2>1, QueueFrame DEF WorkerFinishes
<1>10. ASSUME NEW t \in Task, Interrupt(t) PROVE QueueSafe'
  <2>1. \A u \in Task : pc'[u] = "unpinning" => pc[u] = "unpinning"
    BY <1>10 DEF Interrupt, TypeOK
  <2> QED
    BY <1>10, <2>1, QueueFrame DEF Interrupt
<1>11. CASE UNCHANGED vars
  BY <1>11, QueueFrame DEF vars
<1> QED
  BY <1>1, <1>2, <1>3, <1>4, <1>5, <1>6, <1>7, <1>8, <1>9, <1>10, <1>11
     DEF Next, WorkerStep, Quiescent

\* Requests are served in their order, none skipped and none twice, for any
\* number of payloads, endpoints and interrupts.
THEOREM FifoOrder == Spec => []FifoOnce
<1>1. Init => Typed /\ QueueSafe
  BY TypedInit, QueueInit
<1>2. Typed /\ QueueSafe /\ [Next]_vars => (Typed /\ QueueSafe)'
  BY TypedStep, QueueStep
<1>3. QueueSafe => FifoOnce
  BY DEF QueueSafe
<1> QED
  BY <1>1, <1>2, <1>3, PTL DEF Spec

\* A report's archive is never unpinned while its datalog may still succeed.
THEOREM PinsAreKept == Spec => []UnpinOnlyAfterGivingUp
<1>1. Init => Typed /\ QueueSafe
  BY TypedInit, QueueInit
<1>2. Typed /\ QueueSafe /\ [Next]_vars => (Typed /\ QueueSafe)'
  BY TypedStep, QueueStep
<1>3. QueueSafe => UnpinOnlyAfterGivingUp
  BY DEF QueueSafe
<1> QED
  BY <1>1, <1>2, <1>3, PTL DEF Spec

\* A queued payload always has somebody to send it: part of WorkerInv.
THEOREM NothingStranded == Spec => []NoStrandedPayload
<1>1. TypeOK /\ WorkerInv => NoStrandedPayload
  BY NoneAssumption DEF TypeOK, WorkerInv, NoStrandedPayload
<1> QED
  BY <1>1, TypeCorrect, PTL
-----------------------------------------------------------------------------
(* The threads: one at a time, each over all endpoints.                     *)

LEMMA ThreadInit == Init => ThreadInv /\ CountInv /\ RotationInv
<1> SUFFICES ASSUME Init PROVE ThreadInv /\ CountInv /\ RotationInv
  OBVIOUS
<1>1. \A p \in Payload : thread[p] = "idle" /\ tried[p] = <<>>
  BY DEF Init
<1>2. ThreadInv
  BY <1>1 DEF ThreadInv, Sending
<1>3. \A p \in Payload : Len(tried[p]) = 0
  BY <1>1
<1>4. CountInv /\ RotationInv
  BY <1>1, <1>3, EndpointsAssumption DEF CountInv, RotationInv
<1> QED
  BY <1>2, <1>4

LEMMA ThreadStep == Typed /\ ThreadInv /\ [Next]_vars => ThreadInv'
<1> SUFFICES ASSUME TypeOK, WorkerInv, ThreadInv, [Next]_vars PROVE ThreadInv'
  BY DEF Typed
<1> USE DEF TypeOK, WorkerInv, SoleWorker
<1>1. \A p \in Payload \ abandoned : Sending(p) =>
        \E t \in Task : pc[t] = "sending" /\ item[t] = p
  BY DEF ThreadInv
<1>2. ASSUME NEW p \in Payload, SendDatalog(p) \/ EnsureWorker(p) PROVE ThreadInv'
  BY <1>1, <1>2 DEF SendDatalog, EnsureWorker, CreateWorker, Sending, ThreadInv
<1>3. ASSUME NEW p \in Payload, AttemptBegins(p) \/ AttemptEnds(p) PROVE ThreadInv'
  <2>1. /\ UNCHANGED <<pc, item, abandoned>>
        /\ \A q \in Payload : Sending(q)' => Sending(q)
    BY <1>3 DEF AttemptBegins, AttemptEnds, AttemptSucceeds, AttemptRejected,
                AttemptFails, Sending
  <2> QED
    BY <1>1, <2>1 DEF ThreadInv
<1>4. ASSUME NEW t \in Task, WorkerPops(t) PROVE ThreadInv'
  <2>1. \A u \in Task : pc[u] # "sending"
    BY <1>4 DEF WorkerPops
  <2>2. \A q \in Payload \ abandoned : Sending(q)' => q = Head(queue)
    BY <1>1, <1>4, <2>1 DEF WorkerPops, Sending
  <2> QED
    BY <1>4, <2>2 DEF WorkerPops, ThreadInv
<1>5. ASSUME NEW t \in Task, WorkerDrained(t) \/ WorkerUnpins(t) PROVE ThreadInv'
  BY <1>1, <1>5 DEF WorkerDrained, WorkerUnpins, Sending, ThreadInv
<1>6. ASSUME NEW t \in Task, WorkerResumes(t) PROVE ThreadInv'
  BY <1>1, <1>6 DEF WorkerResumes, ThreadEnded, GivenUp, Sending, ThreadInv
<1>7. ASSUME NEW t \in Task, WorkerFinishes(t) PROVE ThreadInv'
  BY <1>1, <1>7 DEF WorkerFinishes, CreateWorker, Sending, ThreadInv
<1>8. ASSUME NEW t \in Task, Interrupt(t) PROVE ThreadInv'
  <2>1. abandoned' = abandoned \cup {item[t]} /\ UNCHANGED <<thread, item>>
    BY <1>8 DEF Interrupt
  <2>2. ASSUME NEW q \in Payload \ abandoned', Sending(q)
        PROVE  \E u \in Task : pc'[u] = "sending" /\ item'[u] = q
    <3>1. PICK u \in Task : pc[u] = "sending" /\ item[u] = q
      BY <1>1, <2>1, <2>2
    <3>2. u # t
      BY <2>1, <2>2, <3>1
    <3>3. pc'[u] = pc[u]
      BY <1>8, <3>2 DEF Interrupt
    <3> QED
      BY <2>1, <3>1, <3>3
  <2> QED
    BY <2>1, <2>2 DEF ThreadInv, Sending
<1>9. CASE UNCHANGED vars
  BY <1>1, <1>9 DEF vars, Sending, ThreadInv
<1> QED
  BY <1>2, <1>3, <1>4, <1>5, <1>6, <1>7, <1>8, <1>9 DEF Next, WorkerStep, Quiescent

LEMMA HeldInit == Init => HeldInv
BY DEF Init, HeldInv, Held, Holds

\* A step that takes nothing up and leaves nothing behind.
LEMMA HeldFrame ==
  ASSUME HeldInv, abandoned' = abandoned,
         \A p \in Payload : thread'[p] = "idle" => thread[p] = "idle",
         \A p \in Payload : Held(p)' => Held(p),
         abandoned \subseteq Payload
  PROVE  HeldInv'
BY DEF HeldInv

LEMMA HeldStep == Typed /\ QueueSafe /\ HeldInv /\ [Next]_vars => HeldInv'
<1> SUFFICES ASSUME TypeOK, WorkerInv, QueueSafe, HeldInv, [Next]_vars PROVE HeldInv'
  BY DEF Typed
<1> USE DEF TypeOK, WorkerInv, SoleWorker, Held, Holds
<1>1. ASSUME NEW p \in Payload, SendDatalog(p) \/ EnsureWorker(p) PROVE HeldInv'
  <2>1. UNCHANGED <<thread, item, abandoned>>
    BY <1>1 DEF SendDatalog, EnsureWorker
  <2>2. \A t \in Task : pc'[t] \in {"sending", "unpinning"} => pc'[t] = pc[t]
    BY <1>1 DEF SendDatalog, EnsureWorker, CreateWorker
  <2> QED
    BY <2>1, <2>2, HeldFrame
<1>2. ASSUME NEW p \in Payload, AttemptBegins(p) \/ AttemptEnds(p) PROVE HeldInv'
  <2>1. /\ UNCHANGED <<pc, item, abandoned>>
        /\ \A q \in Payload : thread'[q] = "idle" => thread[q] = "idle"
    BY <1>2 DEF AttemptBegins, AttemptEnds, AttemptSucceeds, AttemptRejected,
                AttemptFails, Retry
  <2> QED
    BY <2>1, HeldFrame
<1>3. ASSUME NEW t \in Task, WorkerPops(t) PROVE HeldInv'
  <2>1. /\ Head(queue) \in Payload /\ Head(queue) = queue[1] /\ 1 \in 1 .. Len(queue)
        /\ abandoned' = abandoned
        /\ pc' = [pc EXCEPT ![t] = "sending"] /\ item' = [item EXCEPT ![t] = Head(queue)]
        /\ thread' = [thread EXCEPT ![Head(queue)] = "ready"]
    BY <1>3, HeadTailProperties DEF WorkerPops
  <2>2. thread[Head(queue)] = "idle"
    BY <2>1 DEF QueueSafe, QueueInv
  <2>3. Head(queue) \notin abandoned
    BY <2>2 DEF HeldInv
  <2>4. \A q \in Payload \ {Head(queue)} : Held(q)' => Held(q)
    BY <2>1
  <2> QED
    BY <2>1, <2>3, <2>4 DEF HeldInv
<1>4. ASSUME NEW t \in Task,
             WorkerDrained(t) \/ WorkerResumes(t) \/ WorkerUnpins(t) \/ WorkerFinishes(t)
      PROVE  HeldInv'
  <2>1. UNCHANGED <<thread, abandoned>>
    BY <1>4 DEF WorkerDrained, WorkerResumes, WorkerUnpins, WorkerFinishes
  <2>2. \A u \in Task : pc'[u] \in {"sending", "unpinning"} =>
          pc[u] \in {"sending", "unpinning"} /\ item'[u] = item[u]
    BY <1>4 DEF WorkerDrained, WorkerResumes, WorkerUnpins, WorkerFinishes, CreateWorker,
                AfterSend
  <2>3. \A q \in Payload : Held(q)' => Held(q)
    BY <2>2
  <2> QED
    BY <2>1, <2>3, HeldFrame
<1>5. ASSUME NEW t \in Task, Interrupt(t) PROVE HeldInv'
  <2>1. /\ abandoned' = abandoned \cup {item[t]} /\ item[t] \in Payload
        /\ pc' = [pc EXCEPT ![t] = "finally"] /\ UNCHANGED <<item, thread>>
        /\ pc[t] \in {"sending", "unpinning"}
    BY <1>5 DEF Interrupt
  <2>2. Held(item[t]) /\ \A u \in Task \ {t} : pc[u] = "done"
    BY <2>1
  <2>3. \A q \in Payload : ~Held(q)'
    BY <2>1, <2>2
  <2> QED
    BY <2>1, <2>2, <2>3 DEF HeldInv
<1>6. CASE UNCHANGED vars
  BY <1>6, HeldFrame DEF vars
<1> QED
  BY <1>1, <1>2, <1>3, <1>4, <1>5, <1>6 DEF Next, WorkerStep, Quiescent

LEMMA SoleThread ==
  ASSUME TypeOK, WorkerInv, ThreadInv
  PROVE  OneSendAtATime
<1> SUFFICES ASSUME NEW p \in Payload \ abandoned, NEW q \in Payload \ abandoned,
                    Sending(p), Sending(q)
             PROVE  p = q
  BY DEF OneSendAtATime
<1>1. PICK t \in Task : pc[t] = "sending" /\ item[t] = p
  BY DEF ThreadInv
<1>2. PICK u \in Task : pc[u] = "sending" /\ item[u] = q
  BY DEF ThreadInv
<1>3. t = u
  BY <1>1, <1>2 DEF WorkerInv, SoleWorker
<1> QED
  BY <1>1, <1>2, <1>3

\* Rotating moves on to the next endpoint of the cycle.
LEMMA NextWssWraps ==
  ASSUME NEW f \in Endpoint, NEW k \in 0 .. NumEndpoints - 1
  PROVE  NextWss(Wrap(f + k)) = Wrap(f + k + 1)
BY EndpointsAssumption DEF NextWss, Wrap, Endpoint

LEMMA PlusMinusOne ==
  ASSUME NEW a \in Nat, NEW n \in Nat
  PROVE  a + (n + 1) - 1 = a + n
OBVIOUS

LEMMA CountStep == Typed /\ QueueSafe /\ CountInv /\ [Next]_vars => CountInv'
<1> SUFFICES ASSUME TypeOK, QueueSafe, CountInv, [Next]_vars PROVE CountInv'
  BY DEF Typed
<1>1. ASSUME NEW p \in Payload, AttemptBegins(p) PROVE CountInv'
  <2>1. /\ thread[p] = "ready" /\ thread' = [thread EXCEPT ![p] = "calling"]
        /\ tried' = [tried EXCEPT ![p] = Append(@, wss)]
    BY <1>1 DEF AttemptBegins
  <2>2. tried[p] \in Seq(Endpoint) /\ wss \in Endpoint
    BY DEF TypeOK
  <2>3. Len(tried[p]) \in Nat /\ Len(tried'[p]) = Len(tried[p]) + 1
    BY <2>1, <2>2, AppendProperties DEF TypeOK
  <2>4. Len(tried[p]) < NumEndpoints
    BY <2>1 DEF CountInv
  <2>5. Len(tried'[p]) <= NumEndpoints /\ thread'[p] = "calling"
    BY <2>1, <2>3, <2>4, EndpointsAssumption DEF TypeOK
  <2>6. \A q \in Payload \ {p} : tried'[q] = tried[q] /\ thread'[q] = thread[q]
    BY <2>1 DEF TypeOK
  <2> QED
    BY <2>5, <2>6 DEF CountInv
<1>2. ASSUME NEW p \in Payload, AttemptSucceeds(p) \/ AttemptRejected(p) PROVE CountInv'
  BY <1>2 DEF AttemptSucceeds, AttemptRejected, CountInv, TypeOK
<1>3. ASSUME NEW p \in Payload, AttemptFails(p) PROVE CountInv'
  <2>1. thread' = [thread EXCEPT ![p] = Retry(p)] /\ tried' = tried
    BY <1>3 DEF AttemptFails
  <2>2. tried[p] \in Seq(Endpoint) /\ Len(tried[p]) \in Nat
    BY DEF TypeOK
  <2> QED
    BY <2>1, <2>2, EndpointsAssumption DEF Retry, CountInv, TypeOK
<1>4. ASSUME NEW t \in Task, WorkerPops(t) PROVE CountInv'
  <2>1. /\ Head(queue) \in Payload /\ Head(queue) = queue[1] /\ 1 \in 1 .. Len(queue)
        /\ thread' = [thread EXCEPT ![Head(queue)] = "ready"] /\ tried' = tried
    BY <1>4, HeadTailProperties DEF WorkerPops, TypeOK
  <2>2. Len(tried[Head(queue)]) = 0
    BY <2>1 DEF QueueSafe, QueueInv
  <2> QED
    BY <2>1, <2>2, EndpointsAssumption DEF CountInv, TypeOK
<1>5. ASSUME UNCHANGED <<thread, tried>> PROVE CountInv'
  BY <1>5 DEF CountInv
<1> QED
  BY <1>1, <1>2, <1>3, <1>4, <1>5
     DEF Next, WorkerStep, AttemptEnds, SendDatalog, EnsureWorker, WorkerDrained,
         WorkerResumes, WorkerUnpins, WorkerFinishes, Interrupt, Quiescent, vars

LEMMA RotationStep ==
  Typed /\ QueueSafe /\ ThreadInv /\ CountInv /\ RotationInv /\ [Next]_vars
    => RotationInv'
<1> SUFFICES ASSUME TypeOK, WorkerInv, QueueSafe, ThreadInv, CountInv, RotationInv,
                    [Next]_vars, abandoned' = {}
             PROVE  RotationInv'
  BY DEF Typed, RotationInv
<1> DEFINE Rot(p) ==
    /\ Len(tried[p]) <= NumEndpoints
    /\ \A i \in 1 .. Len(tried[p]) : tried[p][i] = Wrap(tried[p][1] + i - 1)
    /\ thread[p] = "ready" =>
         /\ Len(tried[p]) < NumEndpoints
         /\ tried[p] # <<>> => wss = Wrap(tried[p][1] + Len(tried[p]))
    /\ thread[p] = "calling" =>
         tried[p] # <<>> /\ wss = Wrap(tried[p][1] + Len(tried[p]) - 1)
    /\ thread[p] = "exhausted" => Len(tried[p]) = NumEndpoints
<1>1. abandoned = {}
  BY DEF Next, WorkerStep, AttemptEnds, SendDatalog, EnsureWorker, AttemptBegins,
         AttemptSucceeds, AttemptRejected, AttemptFails, WorkerPops, WorkerDrained,
         WorkerResumes, WorkerUnpins, WorkerFinishes, Interrupt, Quiescent, vars, TypeOK
<1>2. \A p \in Payload : Rot(p)
  BY <1>1 DEF CountInv, RotationInv
<1>3. \A p, q \in Payload : Sending(p) /\ Sending(q) => p = q
  BY <1>1, SoleThread DEF OneSendAtATime
<1>4. SUFFICES \A p \in Payload : Rot(p)'
  BY DEF RotationInv
<1>5. ASSUME UNCHANGED <<thread, tried, wss>> PROVE \A p \in Payload : Rot(p)'
  BY <1>2, <1>5
<1>6. ASSUME NEW p \in Payload, AttemptBegins(p) PROVE \A q \in Payload : Rot(q)'
  <2> USE DEF TypeOK
  <2>1. /\ thread[p] = "ready" /\ thread' = [thread EXCEPT ![p] = "calling"]
        /\ tried' = [tried EXCEPT ![p] = Append(@, wss)] /\ wss' = wss
    BY <1>6 DEF AttemptBegins
  <2>2. ASSUME NEW q \in Payload \ {p} PROVE Rot(q)'
    BY <1>2, <2>1, <2>2
  <2>3. Rot(p)'
    <3> DEFINE n == Len(tried[p])
    <3>1. /\ n \in Nat /\ n < NumEndpoints /\ tried[p] \in Seq(Endpoint) /\ wss \in Endpoint
          /\ tried'[p] = Append(tried[p], wss) /\ thread'[p] = "calling"
      BY <1>2, <2>1
    <3>2. /\ Len(tried'[p]) = n + 1 /\ tried'[p][n + 1] = wss /\ tried'[p] # <<>>
          /\ \A i \in 1 .. n : tried'[p][i] = tried[p][i]
      <4> HIDE DEF TypeOK
      <4>1. \A i \in 1 .. n : Append(tried[p], wss)[i] = tried[p][i]
        BY <3>1, AppendProperties
      <4>2. Len(Append(tried[p], wss)) = n + 1 /\ Append(tried[p], wss)[n + 1] = wss
        BY <3>1, AppendProperties
      <4>3. Append(tried[p], wss) # <<>>
        BY <3>1, AppendProperties
      <4> QED
        BY <3>1, <4>1, <4>2, <4>3
    <3>3. tried'[p][n + 1] = Wrap(tried'[p][1] + n)
      <4>1. CASE n = 0
        BY <3>1, <3>2, <4>1, EndpointsAssumption DEF Wrap, Endpoint
      <4>2. CASE n # 0
        <5>1. tried[p] # <<>> /\ 1 \in 1 .. n
          BY <3>1, <4>2
        <5>2. wss = Wrap(tried[p][1] + n)
          BY <1>2, <2>1, <5>1
        <5> QED
          BY <3>2, <5>1, <5>2
      <4> QED
        BY <4>1, <4>2
    <3>4. tried'[p][1] + (n + 1) - 1 = tried'[p][1] + n
      <4>1. 1 \in 1 .. n + 1
        BY <3>1
      <4>2. tried'[p] \in Seq(Endpoint) /\ 1 \in 1 .. Len(tried'[p])
        BY <3>1, <3>2, <4>1
      <4>3. tried'[p][1] \in Endpoint
        BY <4>2, ElementOfSeq
      <4>4. tried'[p][1] \in Nat
        BY <4>3 DEF Endpoint
      <4> QED
        BY <3>1, <4>4, PlusMinusOne
    <3>5. \A i \in 1 .. n + 1 : tried'[p][i] = Wrap(tried'[p][1] + i - 1)
      <4>1. \A i \in 1 .. n : tried'[p][i] = Wrap(tried'[p][1] + i - 1)
        <5> TAKE i \in 1 .. n
        <5>1. 1 \in 1 .. n
          BY <3>1
        <5> QED
          BY <1>2, <3>2, <5>1
      <4> QED
        BY <3>1, <3>3, <3>4, <4>1, OneLonger
    <3>6. wss' = wss /\ wss = Wrap(tried'[p][1] + (n + 1) - 1)
      BY <2>1, <3>2, <3>3, <3>4
    <3>7. n + 1 <= NumEndpoints
      BY <3>1, EndpointsAssumption
    <3> HIDE DEF TypeOK
    <3> QED
      BY <3>1, <3>2, <3>5, <3>6, <3>7
  <2> QED
    BY <2>2, <2>3
<1>7. ASSUME NEW p \in Payload, AttemptSucceeds(p) \/ AttemptRejected(p)
      PROVE  \A q \in Payload : Rot(q)'
  <2>1. /\ UNCHANGED <<tried, wss>>
        /\ thread'[p] \notin {"ready", "calling", "exhausted"}
        /\ \A q \in Payload \ {p} : thread'[q] = thread[q]
    BY <1>7 DEF AttemptSucceeds, AttemptRejected, TypeOK
  <2> QED
    BY <1>2, <2>1
<1>8. ASSUME NEW p \in Payload, AttemptFails(p) PROVE \A q \in Payload : Rot(q)'
  <2> USE DEF TypeOK
  <2>1. /\ thread[p] = "calling" /\ thread' = [thread EXCEPT ![p] = Retry(p)]
        /\ tried' = tried /\ wss' = NextWss(wss)
    BY <1>8 DEF AttemptFails
  <2>2. ASSUME NEW q \in Payload \ {p} PROVE Rot(q)'
    <3>1. ~Sending(q)
      BY <1>3, <2>1, <2>2 DEF Sending
    <3> QED
      BY <1>2, <2>1, <2>2, <3>1 DEF Sending
  <2>3. Rot(p)'
    <3> DEFINE n == Len(tried[p])
    <3>1. /\ tried[p] # <<>> /\ n \in Nat /\ n <= NumEndpoints
          /\ wss = Wrap(tried[p][1] + n - 1)
      BY <1>2, <2>1
    <3>2. n # 0 /\ tried[p][1] \in Endpoint
      BY <3>1
    <3>3. wss' = Wrap(tried[p][1] + n)
      <4>1. n - 1 \in 0 .. NumEndpoints - 1
        BY <3>1, <3>2, EndpointsAssumption
      <4>2. NextWss(Wrap(tried[p][1] + (n - 1))) = Wrap(tried[p][1] + (n - 1) + 1)
        BY <3>2, <4>1, NextWssWraps
      <4>3. tried[p][1] + n - 1 = tried[p][1] + (n - 1) /\ tried[p][1] + (n - 1) + 1 = tried[p][1] + n
        BY <3>1, <3>2 DEF Endpoint
      <4> QED
        BY <2>1, <3>1, <4>2, <4>3
    <3>4. thread'[p] = Retry(p)
      BY <2>1
    <3> QED
      BY <1>2, <2>1, <3>1, <3>3, <3>4, EndpointsAssumption DEF Retry
  <2> QED
    BY <2>2, <2>3
<1>9. ASSUME NEW t \in Task, WorkerPops(t) PROVE \A q \in Payload : Rot(q)'
  <2>1. /\ Head(queue) \in Payload /\ Head(queue) = queue[1] /\ 1 \in 1 .. Len(queue)
        /\ thread' = [thread EXCEPT ![Head(queue)] = "ready"] /\ UNCHANGED <<tried, wss>>
    BY <1>9, HeadTailProperties DEF WorkerPops, TypeOK
  <2>2. tried[Head(queue)] = <<>>
    BY <2>1 DEF QueueSafe, QueueInv
  <2> QED
    BY <1>2, <2>1, <2>2, EndpointsAssumption DEF TypeOK
<1> QED
  BY <1>1, <1>5, <1>6, <1>7, <1>8, <1>9
     DEF Next, WorkerStep, AttemptEnds, SendDatalog, EnsureWorker, WorkerDrained,
         WorkerResumes, WorkerUnpins, WorkerFinishes, Interrupt, Quiescent, vars

\* The parts of the invariant, together.
Safe == Typed /\ QueueSafe /\ HeldInv /\ ThreadInv /\ CountInv /\ RotationInv

LEMMA SafeAlways == Spec => []Safe
<1>1. Init => Safe
  BY TypedInit, QueueInit, HeldInit, ThreadInit DEF Safe
<1>2. Safe /\ [Next]_vars => Safe'
  BY TypedStep, QueueStep, HeldStep, ThreadStep, CountStep, RotationStep DEF Safe
<1> QED
  BY <1>1, <1>2, PTL DEF Spec

\* Datalogs are sent one after another: apart from the threads of interrupted
\* workers none share the endpoint and the account they rotate.
THEOREM SendsDoNotOverlap == Spec => []OneSendAtATime
<1>1. Safe => OneSendAtATime
  BY SoleThread DEF Safe, Typed
<1> QED
  BY <1>1, SafeAlways, PTL

\* N consecutive endpoints from any start are all the endpoints.
LEMMA WrapCovers ==
  ASSUME NEW f \in Endpoint, NEW e \in Endpoint
  PROVE  \E i \in 1 .. NumEndpoints : Wrap(f + i - 1) = e
<1> USE EndpointsAssumption DEF Endpoint, Wrap
<1>1. CASE e >= f
  <2>1. e - f + 1 \in 1 .. NumEndpoints /\ Wrap(f + (e - f + 1) - 1) = e
    BY <1>1
  <2> QED
    BY <2>1
<1>2. CASE e < f
  <2>1. /\ NumEndpoints + e - f + 1 \in 1 .. NumEndpoints
        /\ Wrap(f + (NumEndpoints + e - f + 1) - 1) = e
    BY <1>2
  <2> QED
    BY <2>1
<1> QED
  BY <1>1, <1>2

\* A send that used up its attempts has been to every endpoint exactly once,
\* wherever the rotation stood: the number of endpoints is also the limit.
\* (Next to a thread left behind only the number of attempts is certain.)
THEOREM EveryEndpointTried == Spec => []EndpointCoverage
<1>1. ASSUME Safe PROVE EndpointCoverage
  <2>0. \A p \in Payload : thread[p] = "exhausted" => Len(tried[p]) = NumEndpoints
    BY <1>1 DEF Safe, CountInv
  <2> SUFFICES ASSUME abandoned = {}, NEW p \in Payload, thread[p] = "exhausted"
               PROVE  \A e \in Endpoint :
                        \E i \in 1 .. NumEndpoints : tried[p][i] = e
    BY <2>0 DEF EndpointCoverage
  <2>1. /\ Len(tried[p]) = NumEndpoints
        /\ \A i \in 1 .. NumEndpoints : tried[p][i] = Wrap(tried[p][1] + i - 1)
    BY <1>1, <2>0 DEF Safe, RotationInv
  <2>2. tried[p] \in Seq(Endpoint) /\ 1 \in 1 .. Len(tried[p])
    BY <1>1, <2>1, EndpointsAssumption DEF Safe, Typed, TypeOK
  <2>3. tried[p][1] \in Endpoint
    BY <2>2, ElementOfSeq
  <2>4. \A e \in Endpoint : \E i \in 1 .. NumEndpoints : Wrap(tried[p][1] + i - 1) = e
    BY <2>3, WrapCovers
  <2> QED
    BY <2>1, <2>4
<1> QED
  BY <1>1, SafeAlways, PTL

\* All parts of the inductive invariant.
THEOREM SafetyInvariant == Spec => []SafetyInv
<1>1. Safe => SafetyInv
  BY DEF Safe, Typed, QueueSafe, SafetyInv
<1> QED
  BY <1>1, SafeAlways, PTL
-----------------------------------------------------------------------------
(* Refinement: every step of the queue, its workers and their threads is a  *)
(* step of the delivery service or leaves it as it was.                     *)

\* What FateOf reads of a payload; if that is unchanged, so is its fate.
Waiting(p) == Held(p) \/ ~ThreadEnded(p)

LEMMA SameFate ==
  ASSUME NEW p \in Payload,
         p \in abandoned' <=> p \in abandoned,
         request'[p] = "new" <=> request[p] = "new",
         Waiting(p)' <=> Waiting(p),
         thread'[p] = "returned" <=> thread[p] = "returned"
  PROVE  FateOf(p)' = FateOf(p)
BY DEF FateOf, Waiting

\* The service sees only the queue, who is held and the fates.
LEMMA Stutters ==
  ASSUME queue' = queue,
         \A p \in Payload : Held(p)' <=> Held(p),
         \A p \in Payload : FateOf(p)' = FateOf(p)
  PROVE  UNCHANGED Delivery!vars
<1>1. {p \in Payload : Held(p)}' = {p \in Payload : Held(p)}
  OBVIOUS
<1>2. [p \in Payload |-> FateOf(p)]' = [p \in Payload |-> FateOf(p)]
  OBVIOUS
<1> QED
  BY <1>1, <1>2 DEF Delivery!vars

\* With one worker at most, what is held is one payload.
LEMMA OnlyHeld ==
  ASSUME TypeOK, WorkerInv, NEW t \in Task, pc[t] \in {"sending", "unpinning"}
  PROVE  /\ item[t] \in Payload
         /\ {p \in Payload : Held(p)} = {item[t]}
         /\ \A u \in Task \ {t} : pc[u] = "done"
<1>1. item[t] \in Payload
  BY DEF WorkerInv
<1>2. \A u \in Task \ {t} : pc[u] = "done"
  BY DEF WorkerInv, SoleWorker
<1>3. \A p \in Payload : Held(p) <=> p = item[t]
  BY <1>2 DEF Held, Holds, TypeOK
<1> QED
  BY <1>1, <1>2, <1>3

LEMMA DeliveryInit == Init => Delivery!Init
<1> SUFFICES ASSUME Init PROVE Delivery!Init
  OBVIOUS
<1>1. \A p \in Payload : ~Held(p)
  BY DEF Init, Held, Holds
<1>2. \A p \in Payload : FateOf(p) = "unsent"
  BY DEF Init, FateOf
<1> QED
  BY <1>1, <1>2 DEF Init, Delivery!Init

\* A step that ends the work on item[t] is the service's settling of it.
LEMMA Settles ==
  ASSUME Safe, NEW t \in Task, pc[t] \in {"sending", "unpinning"},
         NEW f \in Delivery!Fate,
         pc' = [pc EXCEPT ![t] = "loop"] \/ pc' = [pc EXCEPT ![t] = "finally"],
         FateOf(item[t])' = f,
         \A q \in abandoned' : q \in abandoned \/ q = item[t],
         abandoned \subseteq abandoned',
         UNCHANGED <<request, queue, item, thread>>
  PROVE  Delivery!Settle(item[t])
<1> DEFINE p == item[t]
           fates == [q \in Payload |-> FateOf(q)]
<1>1. TypeOK /\ WorkerInv
  BY DEF Safe, Typed
<1>2. /\ p \in Payload /\ {q \in Payload : Held(q)} = {p}
      /\ \A u \in Task \ {t} : pc[u] = "done"
  BY <1>1, OnlyHeld
<1>3. \A u \in Task : pc'[u] \notin {"sending", "unpinning"}
  BY <1>1, <1>2 DEF TypeOK
<1>4. \A q \in Payload : ~Held(q)'
  BY <1>3 DEF Held, Holds
<1>5. ASSUME NEW q \in Payload \ {p} PROVE FateOf(q)' = FateOf(q)
  <2>1. ~Held(q) /\ ~Held(q)'
    BY <1>2, <1>4
  <2>2. Waiting(q)' <=> Waiting(q)
    BY <2>1 DEF Waiting, ThreadEnded, GivenUp
  <2> QED
    BY <1>5, <2>2, SameFate
<1>6. fates' = [fates EXCEPT ![p] = f]
  BY <1>2, <1>5
<1>7. {q \in Payload : Held(q)}' = {}
  BY <1>4
<1> QED
  BY <1>2, <1>6, <1>7 DEF Delivery!Settle

LEMMA DeliveryStep == Safe /\ [Next]_vars => [Delivery!Next]_(Delivery!vars)
<1> SUFFICES ASSUME Safe, [Next]_vars PROVE [Delivery!Next]_(Delivery!vars)
  OBVIOUS
<1> DEFINE fates == [q \in Payload |-> FateOf(q)]
           held == {q \in Payload : Held(q)}
<1>0. TypeOK /\ WorkerInv /\ QueueInv /\ HeldInv /\ ThreadInv
  BY DEF Safe, Typed, QueueSafe
<1>1. ASSUME NEW p \in Payload, SendDatalog(p) PROVE Delivery!Accept(p)
  <2>1. /\ request[p] = "new" /\ request' = [request EXCEPT ![p] = "locking"]
        /\ queue' = Append(queue, p)
        /\ UNCHANGED <<pc, item, thread, abandoned>>
    BY <1>1 DEF SendDatalog, Enqueue
  <2>2. thread[p] = "idle"
    BY <1>0, <2>1 DEF QueueInv
  <2>3. p \notin abandoned /\ ~Held(p)
    BY <1>0, <2>2 DEF HeldInv
  <2>4. FateOf(p) = "unsent"
    BY <2>1, <2>3 DEF FateOf
  <2>5. FateOf(p)' = "accepted"
    <3>1. ~ThreadEnded(p)' /\ request'[p] # "new" /\ p \notin abandoned'
      BY <1>0, <2>1, <2>2, <2>3 DEF ThreadEnded, GivenUp, TypeOK
    <3> QED
      BY <3>1 DEF FateOf
  <2>6. \A q \in Payload : Held(q)' <=> Held(q)
    BY <2>1 DEF Held, Holds
  <2>7. ASSUME NEW q \in Payload \ {p} PROVE FateOf(q)' = FateOf(q)
    <3>1. request'[q] = request[q]
      BY <1>0, <2>1 DEF TypeOK
    <3>2. Waiting(q)' <=> Waiting(q)
      BY <2>1, <2>6 DEF Waiting, ThreadEnded, GivenUp
    <3> QED
      BY <2>1, <3>1, <3>2, SameFate
  <2>8. fates' = [fates EXCEPT ![p] = "accepted"]
    BY <2>5, <2>7
  <2>9. held' = held
    BY <2>6
  <2> QED
    BY <2>1, <2>4, <2>8, <2>9 DEF Delivery!Accept
<1>2. ASSUME NEW p \in Payload, EnsureWorker(p) PROVE UNCHANGED Delivery!vars
  <2>1. /\ request[p] = "locking" /\ request' = [request EXCEPT ![p] = "returned"]
        /\ UNCHANGED <<queue, item, thread, abandoned>>
    BY <1>2 DEF EnsureWorker
  <2>2. \A u \in Task : pc'[u] = pc[u] \/ (pc[u] = "done" /\ pc'[u] = "loop")
    BY <1>0, <1>2 DEF EnsureWorker, CreateWorker, TypeOK
  <2>3. \A q \in Payload : Held(q)' <=> Held(q)
    BY <2>1, <2>2 DEF Held, Holds
  <2>4. \A q \in Payload : request'[q] = "new" <=> request[q] = "new"
    BY <1>0, <2>1 DEF TypeOK
  <2>5. \A q \in Payload : Waiting(q)' <=> Waiting(q)
    BY <2>1, <2>3 DEF Waiting, ThreadEnded, GivenUp
  <2>6. \A q \in Payload : FateOf(q)' = FateOf(q)
    BY <2>1, <2>4, <2>5, SameFate
  <2> QED
    BY <2>1, <2>3, <2>6, Stutters
<1>3. ASSUME NEW p \in Payload, AttemptBegins(p) \/ AttemptEnds(p)
      PROVE  UNCHANGED Delivery!vars
  <2>1. /\ UNCHANGED <<request, queue, pc, item, abandoned>>
        /\ Sending(p)
        /\ \A q \in Payload \ {p} : thread'[q] = thread[q]
    BY <1>0, <1>3 DEF AttemptBegins, AttemptEnds, AttemptSucceeds, AttemptRejected,
                      AttemptFails, Sending, TypeOK
  <2>2. \A q \in Payload : Held(q)' <=> Held(q)
    BY <2>1 DEF Held, Holds
  <2>3. ASSUME NEW q \in Payload PROVE FateOf(q)' = FateOf(q)
    <3>1. CASE q # p
      <4>1. Waiting(q)' <=> Waiting(q)
        BY <2>1, <2>2, <3>1 DEF Waiting, ThreadEnded, GivenUp
      <4> QED
        BY <2>1, <3>1, <4>1, SameFate
    <3>2. CASE q = p /\ p \in abandoned
      BY <2>1, <3>2 DEF FateOf
    <3>3. CASE q = p /\ p \notin abandoned
      <4>1. Held(p) /\ Held(p)'
        BY <1>0, <2>1, <2>2, <3>3 DEF ThreadInv, Held, Holds
      <4>2. request[p] # "new"
        BY <1>0, <2>1 DEF QueueInv, Sending
      <4> QED
        BY <2>1, <3>3, <4>1, <4>2 DEF FateOf
    <3> QED
      BY <3>1, <3>2, <3>3
  <2> QED
    BY <2>1, <2>2, <2>3, Stutters
<1>4. ASSUME NEW t \in Task, WorkerPops(t) PROVE Delivery!TakeUp
  <2> DEFINE h == Head(queue)
  <2>1. /\ pc[t] = "loop" /\ queue # <<>> /\ queue' = Tail(queue)
        /\ item' = [item EXCEPT ![t] = h] /\ thread' = [thread EXCEPT ![h] = "ready"]
        /\ pc' = [pc EXCEPT ![t] = "sending"] /\ UNCHANGED <<request, abandoned>>
    BY <1>4 DEF WorkerPops
  <2>2. h \in Payload /\ h = queue[1] /\ 1 \in 1 .. Len(queue)
    BY <1>0, <2>1, HeadTailProperties DEF TypeOK
  <2>3. thread[h] = "idle" /\ request[h] # "new"
    BY <1>0, <2>2 DEF QueueInv
  <2>4. h \notin abandoned
    BY <1>0, <2>3 DEF HeldInv
  <2>5. \A u \in Task \ {t} : pc[u] = "done"
    BY <1>0, <2>1 DEF WorkerInv, SoleWorker
  <2>6. \A q \in Payload : ~Held(q)
    BY <2>1, <2>5 DEF Held, Holds
  <2>7. \A q \in Payload : Held(q)' <=> q = h
    BY <1>0, <2>1, <2>2, <2>5 DEF Held, Holds, TypeOK
  <2>8. ASSUME NEW q \in Payload PROVE FateOf(q)' = FateOf(q)
    <3>1. CASE q # h
      <4>1. thread'[q] = thread[q]
        BY <1>0, <2>1, <3>1 DEF TypeOK
      <4>2. Waiting(q)' <=> Waiting(q)
        BY <2>6, <2>7, <3>1, <4>1 DEF Waiting, ThreadEnded, GivenUp
      <4> QED
        BY <2>1, <4>1, <4>2, SameFate
    <3>2. CASE q = h
      <4>1. thread'[q] = "ready" /\ Held(q)'
        BY <1>0, <2>1, <2>2, <2>7, <3>2 DEF TypeOK
      <4> QED
        BY <2>1, <2>3, <2>4, <3>2, <4>1 DEF FateOf, ThreadEnded, GivenUp
    <3> QED
      BY <3>1, <3>2
  <2>9. fates' = fates
    BY <2>8
  <2>10. held = {} /\ held' = {h}
    BY <2>2, <2>6, <2>7
  <2> QED
    BY <2>1, <2>9, <2>10 DEF Delivery!TakeUp
<1>5. ASSUME NEW t \in Task, WorkerDrained(t) \/ WorkerFinishes(t)
      PROVE  UNCHANGED Delivery!vars
  <2>1. UNCHANGED <<request, queue, thread, abandoned>>
    BY <1>5 DEF WorkerDrained, WorkerFinishes
  <2>2. \A u \in Task : \/ pc'[u] = pc[u] /\ (u # t => item'[u] = item[u])
                       \/ /\ pc[u] \notin {"sending", "unpinning"}
                          /\ pc'[u] \notin {"sending", "unpinning"}
    BY <1>0, <1>5 DEF WorkerDrained, WorkerFinishes, CreateWorker, TypeOK
  <2>3. pc[t] \notin {"sending", "unpinning"}
    BY <1>5 DEF WorkerDrained, WorkerFinishes
  <2>4. \A q \in Payload : Held(q)' <=> Held(q)
    BY <2>2, <2>3 DEF Held, Holds
  <2>5. \A q \in Payload : Waiting(q)' <=> Waiting(q)
    BY <2>1, <2>4 DEF Waiting, ThreadEnded, GivenUp
  <2>6. \A q \in Payload : FateOf(q)' = FateOf(q)
    BY <2>1, <2>5, SameFate
  <2> QED
    BY <2>1, <2>4, <2>6, Stutters
<1>6. ASSUME NEW t \in Task, WorkerResumes(t)
      PROVE  UNCHANGED Delivery!vars \/ \E p \in Payload : Delivery!Settle(p)
  <2>1. /\ pc[t] = "sending" /\ ThreadEnded(item[t])
        /\ pc' = [pc EXCEPT ![t] = AfterSend(item[t])]
        /\ UNCHANGED <<request, queue, item, thread, abandoned>>
    BY <1>6 DEF WorkerResumes
  <2>2. item[t] \in Payload /\ Held(item[t])
    BY <1>0, <2>1 DEF WorkerInv, Held, Holds
  <2>3. CASE GivenUp(item[t])
    <3>1. pc' = [pc EXCEPT ![t] = "unpinning"]
      BY <2>1, <2>3 DEF AfterSend
    <3>2. \A u \in Task : pc'[u] = pc[u] \/ (u = t /\ pc'[u] = "unpinning")
      BY <1>0, <3>1 DEF TypeOK
    <3>3. pc'[t] = "unpinning"
      BY <1>0, <3>1 DEF TypeOK
    <3>4. \A q \in Payload : Held(q)' <=> Held(q)
      BY <2>1, <3>2, <3>3 DEF Held, Holds
    <3>5. \A q \in Payload : Waiting(q)' <=> Waiting(q)
      BY <2>1, <3>4 DEF Waiting, ThreadEnded, GivenUp
    <3>6. \A q \in Payload : FateOf(q)' = FateOf(q)
      BY <2>1, <3>5, SameFate
    <3> QED
      BY <2>1, <3>4, <3>6, Stutters
  <2>4. CASE ~GivenUp(item[t])
    <3>1. pc' = [pc EXCEPT ![t] = "loop"] /\ thread[item[t]] = "returned"
      BY <2>1, <2>4 DEF AfterSend, ThreadEnded
    <3>2. request[item[t]] # "new" /\ item[t] \notin abandoned
      BY <1>0, <2>2, <3>1 DEF QueueInv, HeldInv
    <3>3. ~Held(item[t])'
      <4>1. \A u \in Task : pc'[u] \notin {"sending", "unpinning"}
        BY <1>0, <2>1, <3>1 DEF WorkerInv, SoleWorker, TypeOK
      <4> QED
        BY <4>1 DEF Held, Holds
    <3>4. FateOf(item[t])' = "recorded"
      BY <2>1, <3>1, <3>2, <3>3 DEF FateOf, ThreadEnded
    <3>5. "recorded" \in Delivery!Fate
      BY DEF Delivery!Fate
    <3> QED
      BY <2>1, <2>2, <3>1, <3>4, <3>5, Settles
  <2> QED
    BY <2>3, <2>4
<1>7. ASSUME NEW t \in Task, WorkerUnpins(t) PROVE \E p \in Payload : Delivery!Settle(p)
  <2>1. /\ pc[t] = "unpinning" /\ pc' = [pc EXCEPT ![t] = "loop"]
        /\ UNCHANGED <<request, queue, item, thread, abandoned>>
    BY <1>7 DEF WorkerUnpins
  <2>2. item[t] \in Payload /\ Held(item[t]) /\ GivenUp(item[t])
    BY <1>0, <2>1 DEF WorkerInv, QueueInv, Held, Holds
  <2>3. request[item[t]] # "new" /\ item[t] \notin abandoned
    BY <1>0, <2>2 DEF QueueInv, HeldInv, GivenUp
  <2>4. ~Held(item[t])'
    <3>1. \A u \in Task : pc'[u] \notin {"sending", "unpinning"}
      BY <1>0, <2>1 DEF WorkerInv, SoleWorker, TypeOK
    <3> QED
      BY <3>1 DEF Held, Holds
  <2>5. FateOf(item[t])' = "dropped"
    BY <2>1, <2>2, <2>3, <2>4 DEF FateOf, ThreadEnded, GivenUp
  <2>6. "dropped" \in Delivery!Fate
    BY DEF Delivery!Fate
  <2> QED
    BY <2>1, <2>2, <2>5, <2>6, Settles
<1>8. ASSUME NEW t \in Task, Interrupt(t) PROVE \E p \in Payload : Delivery!Settle(p)
  <2>1. /\ pc[t] \in {"sending", "unpinning"} /\ abandoned' = abandoned \cup {item[t]}
        /\ pc' = [pc EXCEPT ![t] = "finally"]
        /\ UNCHANGED <<request, queue, item, thread>>
    BY <1>8 DEF Interrupt
  <2>2. item[t] \in Payload
    BY <1>0, <2>1 DEF WorkerInv
  <2>3. FateOf(item[t])' = "abandoned"
    BY <2>1 DEF FateOf
  <2>4. "abandoned" \in Delivery!Fate
    BY DEF Delivery!Fate
  <2> QED
    BY <2>1, <2>2, <2>3, <2>4, Settles
<1>9. ASSUME UNCHANGED vars PROVE UNCHANGED Delivery!vars
  <2>1. \A q \in Payload : Held(q)' <=> Held(q)
    BY <1>9 DEF vars, Held, Holds
  <2>2. \A q \in Payload : Waiting(q)' <=> Waiting(q)
    BY <1>9, <2>1 DEF vars, Waiting, ThreadEnded, GivenUp
  <2>3. \A q \in Payload : FateOf(q)' = FateOf(q)
    BY <1>9, <2>2, SameFate DEF vars
  <2> QED
    BY <1>9, <2>1, <2>3, Stutters DEF vars
<1> QED
  BY <1>1, <1>2, <1>3, <1>4, <1>5, <1>6, <1>7, <1>8, <1>9
     DEF Next, WorkerStep, Quiescent, Delivery!Next

\* The queue with its workers, threads, retries and interrupts is one delivery
\* service: payloads are taken up one at a time in the order of acceptance and
\* each gets one fate, which never changes.  (That each gets one in the end
\* rests on fairness and is model-checked, as ImplementsDelivery.)
THEOREM DeliversInOrder == Spec => Delivery!Spec
<1>1. Init => Delivery!Init
  BY DeliveryInit
<1>2. Safe /\ [Next]_vars => [Delivery!Next]_(Delivery!vars)
  BY DeliveryStep
<1> QED
  BY <1>1, <1>2, SafeAlways, PTL DEF Spec, Delivery!Spec
-----------------------------------------------------------------------------
(* What the fates mean, beyond what the delivery service says of them.      *)

Queued(p) == \E i \in 1 .. Len(queue) : queue[i] = p

\* Requested and not yet taken up is waiting in the queue;
IdleInv == \A p \in Payload : request[p] # "new" /\ thread[p] = "idle" => Queued(p)

\* a send that returned has its record, and without an attempt there is none.
ChainInv ==
  \A p \in Payload : /\ thread[p] = "returned" => p \in chain
                     /\ thread[p] = "calling" \/ p \in chain => tried[p] # <<>>

\* What send_datalog accepted and no fate has met is in one place, once: in the
\* deque, or in the hands of the worker.
AcceptedIsKept ==
  /\ \A p \in Payload : /\ FateOf(p) = "accepted" <=> Queued(p) \/ Held(p)
                        /\ ~(Queued(p) /\ Held(p))
  /\ \A i, j \in 1 .. Len(queue) : queue[i] = queue[j] => i = j

\* A fate says what happened on the chain, as far as the code can know it: a
\* payload that is done with counts as recorded only if it is on chain, as
\* dropped only after its attempts were rejected or used up, and a record
\* belongs to a payload that was accepted.
FatesAreTrue ==
  \A p \in Payload : /\ FateOf(p) = "recorded" => p \in chain
                     /\ FateOf(p) = "dropped" => GivenUp(p)
                     /\ FateOf(p) = "unsent" => p \notin chain

\* Nothing is sent again, or given another fate, once it has one.
FatesAreFinal ==
  [][\A p \in Payload : FateOf(p) \in Delivery!Fate => FateOf(p)' = FateOf(p)]_vars

LEMMA FateInit == Init => IdleInv /\ ChainInv
BY DEF Init, IdleInv, ChainInv

\* Appending keeps what is queued, and taking the head up loses only the head.
LEMMA QueuedAfter ==
  ASSUME queue \in Seq(Payload), NEW p \in Payload
  PROVE  /\ \A x \in Payload : queue' = Append(queue, x) /\ (Queued(p) \/ p = x) => Queued(p)'
         /\ queue # <<>> /\ queue' = Tail(queue) /\ p # Head(queue) /\ Queued(p) => Queued(p)'
<1>1. ASSUME NEW x \in Payload, queue' = Append(queue, x), Queued(p) \/ p = x
      PROVE  Queued(p)'
  <2>1. /\ Len(queue') = Len(queue) + 1 /\ queue'[Len(queue) + 1] = x
        /\ \A i \in 1 .. Len(queue) : queue'[i] = queue[i]
    BY <1>1, AppendProperties
  <2>2. \A i \in 1 .. Len(queue) + 1 : i \in 1 .. Len(queue')
    BY <2>1
  <2>3. Len(queue) + 1 \in 1 .. Len(queue) + 1 /\ 1 .. Len(queue) \subseteq 1 .. Len(queue) + 1
    BY LenProperties
  <2> QED
    BY <1>1, <2>1, <2>2, <2>3 DEF Queued
<1>2. ASSUME queue # <<>>, queue' = Tail(queue), p # Head(queue), Queued(p)
      PROVE  Queued(p)'
  <2>1. PICK i \in 1 .. Len(queue) : queue[i] = p
    BY <1>2 DEF Queued
  <2>2. /\ Len(queue') = Len(queue) - 1
        /\ \A j \in 1 .. Len(queue') : queue'[j] = queue[j + 1]
        /\ Head(queue) = queue[1]
    BY <1>2, HeadTailProperties
  <2>3. i - 1 \in 1 .. Len(queue') /\ (i - 1) + 1 = i
    BY <1>2, <2>1, <2>2, LenProperties
  <2>4. queue'[i - 1] = p
    BY <2>1, <2>2, <2>3
  <2> QED
    BY <2>3, <2>4 DEF Queued
<1> QED
  BY <1>1, <1>2

LEMMA IdleStep == Typed /\ IdleInv /\ [Next]_vars => IdleInv'
<1> SUFFICES ASSUME TypeOK, IdleInv, [Next]_vars PROVE IdleInv'
  BY DEF Typed
<1>0. queue \in Seq(Payload)
  BY DEF TypeOK
<1>1. ASSUME NEW p \in Payload, SendDatalog(p) PROVE IdleInv'
  <2>1. /\ request' = [request EXCEPT ![p] = "locking"] /\ queue' = Append(queue, p)
        /\ thread' = thread
    BY <1>1 DEF SendDatalog, Enqueue
  <2>2. ASSUME NEW q \in Payload, request'[q] # "new", thread'[q] = "idle" PROVE Queued(q)'
    <3>1. q # p => Queued(q)
      BY <2>1, <2>2 DEF IdleInv, TypeOK
    <3> QED
      BY <1>0, <2>1, <3>1, QueuedAfter
  <2> QED
    BY <2>2 DEF IdleInv
<1>2. ASSUME NEW t \in Task, WorkerPops(t) PROVE IdleInv'
  <2>1. /\ queue # <<>> /\ queue' = Tail(queue) /\ request' = request
        /\ Head(queue) \in Payload /\ thread' = [thread EXCEPT ![Head(queue)] = "ready"]
    BY <1>0, <1>2, HeadTailProperties DEF WorkerPops
  <2>2. ASSUME NEW q \in Payload, request'[q] # "new", thread'[q] = "idle" PROVE Queued(q)'
    <3>1. q # Head(queue) /\ thread[q] = "idle"
      BY <2>1, <2>2 DEF TypeOK
    <3>2. Queued(q)
      BY <2>1, <2>2, <3>1 DEF IdleInv
    <3> QED
      BY <1>0, <2>1, <3>1, <3>2, QueuedAfter
  <2> QED
    BY <2>2 DEF IdleInv
<1>3. ASSUME NEW p \in Payload, EnsureWorker(p) PROVE IdleInv'
  <2>1. /\ request[p] = "locking" /\ request' = [request EXCEPT ![p] = "returned"]
        /\ queue' = queue /\ thread' = thread
    BY <1>3 DEF EnsureWorker
  <2>2. \A q \in Payload : request'[q] # "new" => request[q] # "new"
    BY <2>1 DEF TypeOK
  <2> QED
    BY <2>1, <2>2 DEF IdleInv, Queued
<1>4. ASSUME NEW p \in Payload, AttemptBegins(p) \/ AttemptEnds(p) PROVE IdleInv'
  <2>1. /\ queue' = queue /\ request' = request
        /\ \A q \in Payload : thread'[q] = "idle" => thread[q] = "idle"
    BY <1>4 DEF AttemptBegins, AttemptEnds, AttemptSucceeds, AttemptRejected, AttemptFails,
                Retry, TypeOK
  <2> QED
    BY <2>1 DEF IdleInv, Queued
<1>5. ASSUME UNCHANGED <<request, queue, thread>> PROVE IdleInv'
  BY <1>5 DEF IdleInv, Queued
<1> QED
  BY <1>1, <1>2, <1>3, <1>4, <1>5
     DEF Next, WorkerStep, WorkerDrained, WorkerResumes, WorkerUnpins, WorkerFinishes,
         Interrupt, Quiescent, vars

LEMMA ChainStep == Typed /\ QueueSafe /\ ChainInv /\ [Next]_vars => ChainInv'
<1> SUFFICES ASSUME TypeOK, QueueSafe, ChainInv, [Next]_vars PROVE ChainInv'
  BY DEF Typed
<1>1. ASSUME NEW p \in Payload, AttemptBegins(p) PROVE ChainInv'
  <2>1. /\ thread' = [thread EXCEPT ![p] = "calling"] /\ chain' = chain
        /\ tried' = [tried EXCEPT ![p] = Append(@, wss)]
        /\ tried[p] \in Seq(Endpoint) /\ wss \in Endpoint
    BY <1>1 DEF AttemptBegins, TypeOK
  <2>2. Append(tried[p], wss) # <<>>
    BY <2>1, AppendProperties
  <2> QED
    BY <2>1, <2>2 DEF ChainInv, TypeOK
<1>2. ASSUME NEW p \in Payload, AttemptEnds(p) PROVE ChainInv'
  BY <1>2 DEF AttemptEnds, AttemptSucceeds, AttemptRejected, AttemptFails, Retry, ChainInv,
              TypeOK
<1>3. ASSUME NEW t \in Task, WorkerPops(t) PROVE ChainInv'
  <2>1. Head(queue) \in Payload /\ thread' = [thread EXCEPT ![Head(queue)] = "ready"]
        /\ UNCHANGED <<tried, chain>>
    BY <1>3, HeadTailProperties DEF WorkerPops, TypeOK
  <2> QED
    BY <2>1 DEF ChainInv, TypeOK
<1>4. ASSUME UNCHANGED <<thread, tried, chain>> PROVE ChainInv'
  BY <1>4 DEF ChainInv
<1> QED
  BY <1>1, <1>2, <1>3, <1>4
     DEF Next, WorkerStep, SendDatalog, EnsureWorker, WorkerDrained, WorkerResumes,
         WorkerUnpins, WorkerFinishes, Interrupt, Quiescent, vars

LEMMA FatesAlways == Spec => [](Safe /\ IdleInv /\ ChainInv)
<1>1. Safe => Typed /\ QueueSafe
  BY DEF Safe
<1>2. (Safe /\ IdleInv /\ ChainInv) /\ [Next]_vars => (IdleInv /\ ChainInv)'
  BY <1>1, IdleStep, ChainStep
<1> QED
  BY <1>2, FateInit, SafeAlways, PTL DEF Spec

LEMMA KeptIfSafe == Safe /\ IdleInv => AcceptedIsKept
<1> SUFFICES ASSUME Safe, IdleInv PROVE AcceptedIsKept
  OBVIOUS
<1>0. TypeOK /\ QueueInv /\ HeldInv /\ ThreadInv
  BY DEF Safe, Typed, QueueSafe
<1>1. ASSUME NEW p \in Payload, FateOf(p) = "accepted", ~Held(p) PROVE Queued(p)
  <2>1. p \notin abandoned /\ request[p] # "new" /\ ~ThreadEnded(p)
    BY <1>1 DEF FateOf
  <2>2. ~Sending(p)
    BY <1>0, <1>1, <2>1 DEF ThreadInv, Held, Holds
  <2>3. thread[p] = "idle"
    BY <1>0, <2>1, <2>2 DEF ThreadEnded, GivenUp, Sending, TypeOK, Thread
  <2> QED
    BY <2>1, <2>3 DEF IdleInv
<1>2. ASSUME NEW p \in Payload, Queued(p)
      PROVE  request[p] # "new" /\ thread[p] = "idle" /\ FateOf(p) = "accepted"
  <2>1. request[p] # "new" /\ thread[p] = "idle"
    BY <1>0, <1>2 DEF Queued, QueueInv
  <2>2. p \notin abandoned /\ ~ThreadEnded(p)
    BY <1>0, <2>1 DEF HeldInv, ThreadEnded, GivenUp
  <2> QED
    BY <2>1, <2>2 DEF FateOf
<1>3. ASSUME NEW p \in Payload, Held(p) PROVE thread[p] # "idle" /\ FateOf(p) = "accepted"
  <2>1. thread[p] # "idle" /\ p \notin abandoned
    BY <1>0, <1>3 DEF HeldInv
  <2>2. request[p] # "new"
    BY <1>0, <2>1 DEF QueueInv
  <2> QED
    BY <1>3, <2>1, <2>2 DEF FateOf
<1>4. \A i, j \in 1 .. Len(queue) : queue[i] = queue[j] => i = j
  BY <1>0 DEF QueueInv
<1> QED
  BY <1>1, <1>2, <1>3, <1>4 DEF AcceptedIsKept

\* No payload gets lost on the way from the request to its fate, and none is
\* worked on twice.
THEOREM NothingLost == Spec => []AcceptedIsKept
<1> QED
  BY FatesAlways, KeptIfSafe, PTL

\* What counts as recorded is on chain, what counts as dropped was given up, and
\* nothing is on chain that was not accepted.
THEOREM FatesTellTheTruth == Spec => []FatesAreTrue
<1>1. Safe /\ IdleInv /\ ChainInv => FatesAreTrue
  <2> SUFFICES ASSUME Safe, ChainInv, NEW p \in Payload
               PROVE  /\ FateOf(p) = "recorded" => p \in chain
                      /\ FateOf(p) = "dropped" => GivenUp(p)
                      /\ FateOf(p) = "unsent" => p \notin chain
    BY DEF FatesAreTrue
  <2>1. FateOf(p) = "recorded" => p \in chain
    BY DEF FateOf, ChainInv
  <2>2. FateOf(p) = "dropped" => GivenUp(p)
    BY DEF FateOf, ThreadEnded
  <2>3. ASSUME FateOf(p) = "unsent" PROVE p \notin chain
    <3>1. request[p] = "new"
      BY <2>3 DEF FateOf
    <3>2. tried[p] = <<>>
      BY <3>1 DEF Safe, QueueSafe, QueueInv
    <3> QED
      BY <3>2 DEF ChainInv
  <2> QED
    BY <2>1, <2>2, <2>3
<1> QED
  BY <1>1, FatesAlways, PTL

\* A fate is never taken back: a payload that is done with is never sent again.
THEOREM FatesStay == Spec => FatesAreFinal
<1>1. ASSUME Safe, IdleInv, [Next]_vars, NEW p \in Payload, FateOf(p) \in Delivery!Fate
      PROVE  FateOf(p)' = FateOf(p)
  <2> DEFINE fates == [q \in Payload |-> FateOf(q)]
             held == {q \in Payload : Held(q)}
  <2>1. FateOf(p) \notin {"unsent", "accepted"}
    BY <1>1 DEF Delivery!Fate
  <2>2. p \notin held
    BY <1>1, <2>1, KeptIfSafe DEF AcceptedIsKept
  <2>3. fates[p] = FateOf(p) /\ fates'[p] = FateOf(p)'
    OBVIOUS
  <2>4. [Delivery!Next]_(Delivery!vars)
    BY <1>1, DeliveryStep
  <2>5. CASE Delivery!Crash
    BY <2>1, <2>3, <2>5 DEF Delivery!Crash
  <2>6. CASE Delivery!TakeUp
    BY <2>3, <2>6 DEF Delivery!TakeUp
  <2>7. ASSUME NEW q \in Payload, Delivery!Accept(q) PROVE FateOf(p)' = FateOf(p)
    <3>1. fates[q] = "unsent" /\ fates' = [fates EXCEPT ![q] = "accepted"]
      BY <2>7 DEF Delivery!Accept
    <3>2. p # q
      BY <2>1, <2>3, <3>1
    <3> QED
      BY <2>3, <3>1, <3>2
  <2>8. ASSUME NEW q \in Payload, Delivery!Settle(q) PROVE FateOf(p)' = FateOf(p)
    <3>1. PICK f \in Delivery!Fate : held = {q} /\ fates' = [fates EXCEPT ![q] = f]
      BY <2>8 DEF Delivery!Settle
    <3>2. p # q
      BY <2>2, <3>1
    <3> QED
      BY <2>3, <3>1, <3>2
  <2>9. CASE UNCHANGED Delivery!vars
    BY <2>3, <2>9 DEF Delivery!vars
  <2> QED
    BY <2>4, <2>5, <2>6, <2>7, <2>8, <2>9 DEF Delivery!Next
<1>2. Safe /\ IdleInv /\ [Next]_vars
        => [\A p \in Payload : FateOf(p) \in Delivery!Fate => FateOf(p)' = FateOf(p)]_vars
  BY <1>1
<1> QED
  BY <1>2, FatesAlways, PTL DEF FatesAreFinal, Spec
=============================================================================
