----------------------------- MODULE Robonomics -----------------------------
(***************************************************************************)
(* The datalog queue of class Robonomics (robonomics.py): send_datalog     *)
(* appends an IPFS hash to a deque and makes sure that one worker task     *)
(* drains it; the worker runs _send_datalog in a thread, which tries the   *)
(* Robonomics endpoints in turn; a hash whose send fails is unpinned from  *)
(* Pinata.                                                                 *)
(*                                                                         *)
(* Atomicity.  A step of a coroutine runs from one await to the next.      *)
(* `async with _queue_lock' is an await, so the append of a request and    *)
(* its critical section are two steps, and so are the worker's last look   *)
(* at the queue and its own critical section.  Both critical sections are  *)
(* free of awaits, hence each is one step and the lock needs no variable.  *)
(* A thread runs concurrently with the event loop: starting a call to the  *)
(* chain and its outcome are two steps.                                    *)
(*                                                                         *)
(* Whether hass.async_create_task runs the first segment of the worker at  *)
(* once or later is left open: a task is born at "loop" and takes its      *)
(* first step whenever it likes.                                           *)
(***************************************************************************)
EXTENDS Naturals, Sequences, FiniteSets

CONSTANTS
  Payload,         \* the IPFS hashes that are passed to send_datalog
  Task,            \* names for the asyncio tasks that run _datalog_worker
  None,
  NumEndpoints,    \* len(self.wss_endpoints)
  MaxInterrupts    \* bound on the exceptions that escape a worker's await

ASSUME EndpointsAssumption == NumEndpoints \in Nat \ {0}
ASSUME InterruptsAssumption == MaxInterrupts \in Nat
ASSUME NoneAssumption == None \notin Task \cup Payload

VARIABLES
  request,       \* the send_datalog call for each payload
  queue,         \* self._datalog_queue
  workerTask,    \* self._worker_task
  pc,            \* where each worker task is
  item,          \* data_to_send of each worker task
  thread,        \* _send_datalog of each payload, in its thread
  tried,         \* the endpoints its attempts have used, in order
  wss,           \* index of self.current_wss, and of sender_account's node
  chain,         \* the payloads with a datalog record (the parachain)
  pinned,        \* the payloads whose archive is pinned (Pinata)
  accepted,      \* history: payloads in the order of their append
  started,       \* history: payloads in the order of their popleft
  abandoned      \* history: payloads whose worker was interrupted

vars == <<request, queue, workerTask, pc, item, thread, tried, wss, chain,
          pinned, accepted, started, abandoned>>

Request == {"new", "locking", "returned"}
WorkerPc == {"loop", "sending", "unpinning", "finally", "done"}
Thread == {"idle", "ready", "calling", "returned", "rejected", "exhausted"}

Endpoint == 0 .. NumEndpoints - 1

Sending(p) == thread[p] \in {"ready", "calling"}

\* RobonomicsError left _send_datalog: an attempt was rejected by the chain,
\* or the attempts are used up.
GivenUp(p) == thread[p] \in {"rejected", "exhausted"}

Holds(t, p) == pc[t] \in {"sending", "unpinning"} /\ item[t] = p

Held(p) == \E t \in Task : Holds(t, p)
-----------------------------------------------------------------------------
Init ==
  /\ request = [p \in Payload |-> "new"]
  /\ queue = <<>>
  /\ workerTask = None
  /\ pc = [t \in Task |-> "done"]
  /\ item = [t \in Task |-> None]
  /\ thread = [p \in Payload |-> "idle"]
  /\ tried = [p \in Payload |-> <<>>]
  /\ wss = 0
  /\ chain = {}
  /\ pinned = Payload        \* ReportService pins before it sends
  /\ accepted = <<>>
  /\ started = <<>>
  /\ abandoned = {}

-----------------------------------------------------------------------------
(* The request: _handle_datalog_request. *)

EnqueueFront(q, p) == <<p>> \o q          \* faulty: appendleft
EnqueueTwice(q, p) == q \o <<p, p>>       \* faulty: appended again on retry

Enqueue(q, p) == Append(q, p)

SendDatalog(p) ==
  /\ request[p] = "new"
  /\ request' = [request EXCEPT ![p] = "locking"]
  /\ queue' = Enqueue(queue, p)
  /\ accepted' = Append(accepted, p)
  /\ UNCHANGED <<workerTask, pc, item, thread, tried, wss, chain, pinned,
                 started, abandoned>>

\* hass.async_create_task(self._datalog_worker()), assigned to _worker_task
CreateWorker(t, pcs) ==
  /\ pc[t] = "done"
  /\ workerTask' = t
  /\ pc' = [pcs EXCEPT ![t] = "loop"]

NoWorkerAlways == TRUE                         \* faulty: no test at all

NoWorker == workerTask # None => pc[workerTask] = "done"

EnsureWorker(p) ==
  /\ request[p] = "locking"
  /\ request' = [request EXCEPT ![p] = "returned"]
  /\ \/ NoWorker /\ \E t \in Task : CreateWorker(t, pc)
     \/ ~NoWorker /\ UNCHANGED <<workerTask, pc>>
  /\ UNCHANGED <<queue, item, thread, tried, wss, chain, pinned, accepted,
                 started, abandoned>>

-----------------------------------------------------------------------------
(* The worker task: _datalog_worker. *)

WorkerPops(t) ==
  /\ pc[t] = "loop"
  /\ queue # <<>>
  /\ queue' = Tail(queue)
  /\ started' = Append(started, Head(queue))
  /\ item' = [item EXCEPT ![t] = Head(queue)]
  /\ thread' = [thread EXCEPT ![Head(queue)] = "ready"]
  /\ pc' = [pc EXCEPT ![t] = "sending"]
  /\ UNCHANGED <<request, workerTask, tried, wss, chain, pinned, accepted,
                 abandoned>>

WorkerDrained(t) ==
  /\ pc[t] = "loop"
  /\ queue = <<>>
  /\ pc' = [pc EXCEPT ![t] = "finally"]
  /\ UNCHANGED <<request, queue, workerTask, item, thread, tried, wss, chain,
                 pinned, accepted, started, abandoned>>

AfterSendAlwaysUnpins(p) == "unpinning"        \* faulty: `finally: unpin'

AfterSend(p) == IF GivenUp(p) THEN "unpinning" ELSE "loop"

ThreadEndedAtOnce(p) == thread[p] # "idle"     \* faulty: to_thread not awaited

\* asyncio.to_thread comes back, with True or with RobonomicsError
ThreadEnded(p) == thread[p] = "returned" \/ GivenUp(p)

WorkerResumes(t) ==
  /\ pc[t] = "sending"
  /\ ThreadEnded(item[t])
  /\ pc' = [pc EXCEPT ![t] = AfterSend(item[t])]
  /\ UNCHANGED <<request, queue, workerTask, item, thread, tried, wss, chain,
                 pinned, accepted, started, abandoned>>

\* IPFS.unpin_files_from_pinata: missing credentials, a refused call and any
\* exception are all swallowed, so the pin may or may not be gone.
WorkerUnpins(t) ==
  /\ pc[t] = "unpinning"
  /\ pinned' \in {pinned, pinned \ {item[t]}}
  /\ pc' = [pc EXCEPT ![t] = "loop"]
  /\ UNCHANGED <<request, queue, workerTask, item, thread, tried, wss, chain,
                 accepted, started, abandoned>>

NeverRespawn == FALSE      \* faulty: `finally' without the second look

Respawn == queue # <<>>

WorkerFinishes(t) ==
  /\ pc[t] = "finally"
  /\ LET ended == [pc EXCEPT ![t] = "done"]
     IN \/ Respawn /\ \E u \in Task \ {t} : CreateWorker(u, ended)
        \/ ~Respawn /\ workerTask' = None /\ pc' = ended
  /\ item' = [item EXCEPT ![t] = None]
  /\ UNCHANGED <<request, queue, thread, tried, wss, chain, pinned, accepted,
                 started, abandoned>>

\* An exception that is not RobonomicsError leaves the awaits of the loop
\* body: CancelledError at shutdown, or RuntimeError of a closed executor.
\* The thread that sends, if any, goes on by itself.
Interrupt(t) ==
  /\ Cardinality(abandoned) < MaxInterrupts
  /\ pc[t] \in {"sending", "unpinning"}
  /\ abandoned' = abandoned \cup {item[t]}
  /\ pc' = [pc EXCEPT ![t] = "finally"]
  /\ UNCHANGED <<request, queue, workerTask, item, thread, tried, wss, chain,
                 pinned, accepted, started>>

-----------------------------------------------------------------------------
(* The thread: _retry_decorator around _send_datalog. *)

\* change_current_wss
NextWss(w) == IF w = NumEndpoints - 1 THEN 0 ELSE w + 1

\* Datalog(self.sender_account, ...).record(data_to_send) is called; the
\* account is bound to the endpoint that is current now.
AttemptBegins(p) ==
  /\ thread[p] = "ready"
  /\ thread' = [thread EXCEPT ![p] = "calling"]
  /\ tried' = [tried EXCEPT ![p] = Append(@, wss)]
  /\ UNCHANGED <<request, queue, workerTask, pc, item, wss, chain, pinned,
                 accepted, started, abandoned>>

AttemptSucceeds(p) ==
  /\ thread[p] = "calling"
  /\ thread' = [thread EXCEPT ![p] = "returned"]
  /\ chain' = chain \cup {p}
  /\ UNCHANGED <<request, queue, workerTask, pc, item, tried, wss, pinned,
                 accepted, started, abandoned>>

\* ExtrinsicFailedException: included and refused, `break'
AttemptRejected(p) ==
  /\ thread[p] = "calling"
  /\ thread' = [thread EXCEPT ![p] = "rejected"]
  /\ UNCHANGED <<request, queue, workerTask, pc, item, tried, wss, chain,
                 pinned, accepted, started, abandoned>>

RetryOnceMore(p) == IF Len(tried[p]) > NumEndpoints    \* faulty: off by one
                    THEN "exhausted" ELSE "ready"

\* stop_after_attempt(len(self.wss_endpoints))
Retry(p) == IF Len(tried[p]) >= NumEndpoints THEN "exhausted" ELSE "ready"

\* TimeoutError, SubstrateRequestException (1014 or not) or any other
\* exception: rotate and let tenacity decide.  The extrinsic may have been
\* submitted before the call raised, so the record may appear all the same.
AttemptFails(p) ==
  /\ thread[p] = "calling"
  /\ thread' = [thread EXCEPT ![p] = Retry(p)]
  /\ wss' = NextWss(wss)
  /\ chain' \in {chain, chain \cup {p}}
  /\ UNCHANGED <<request, queue, workerTask, pc, item, tried, pinned,
                 accepted, started, abandoned>>

-----------------------------------------------------------------------------
\* Nothing to do: the event loop waits for the next report.
Quiescent ==
  /\ \A p \in Payload : request[p] = "returned" /\ ~Sending(p)
  /\ \A t \in Task : pc[t] = "done"
  /\ UNCHANGED vars

WorkerStep(t) ==
  WorkerPops(t) \/ WorkerDrained(t) \/ WorkerResumes(t) \/ WorkerUnpins(t)
    \/ WorkerFinishes(t)

AttemptEnds(p) == AttemptSucceeds(p) \/ AttemptRejected(p) \/ AttemptFails(p)

Next ==
  \/ \E p \in Payload : \/ SendDatalog(p)
                        \/ EnsureWorker(p)
                        \/ AttemptBegins(p)
                        \/ AttemptEnds(p)
  \/ \E t \in Task : WorkerStep(t) \/ Interrupt(t)
  \/ Quiescent

Spec == Init /\ [][Next]_vars

\* The event loop runs every ready coroutine and every call to the chain
\* ends, if only by its timeout.  Requests and interrupts need not happen.
Fairness ==
  /\ \A p \in Payload : /\ WF_vars(EnsureWorker(p))
                        /\ WF_vars(AttemptBegins(p))
                        /\ WF_vars(AttemptEnds(p))
  /\ \A t \in Task : WF_vars(WorkerStep(t))

FairSpec == Spec /\ Fairness
-----------------------------------------------------------------------------
(* Properties. *)

TypeOK ==
  /\ request \in [Payload -> Request]
  /\ queue \in Seq(Payload)
  /\ workerTask \in Task \cup {None}
  /\ pc \in [Task -> WorkerPc]
  /\ item \in [Task -> Payload \cup {None}]
  /\ thread \in [Payload -> Thread]
  /\ tried \in [Payload -> Seq(Endpoint)]
  /\ wss \in Endpoint
  /\ chain \subseteq Payload
  /\ pinned \subseteq Payload
  /\ accepted \in Seq(Payload)
  /\ started \in Seq(Payload)
  /\ abandoned \subseteq Payload

\* There is never a second worker: whatever task is alive is the one that
\* _worker_task names, also while it is inside `finally', after an interrupt
\* and while its successor is being created.
SoleWorker == \A t \in Task : pc[t] # "done" => workerTask = t

\* No payload is left in the queue with nobody to send it: there is a live
\* worker, or a request that has not yet entered its critical section.
\* The second look at the queue in `finally' exists for this.
NoStrandedPayload ==
  queue # <<>> => \/ \E t \in Task : pc[t] # "done"
                  \/ \E p \in Payload : request[p] = "locking"

\* Payloads are taken from the queue in the order of the requests, none is
\* skipped and none is taken twice, whatever worker takes them.
FifoOnce == started \o queue = accepted

\* Datalogs are sent one after another: apart from the threads that interrupted
\* workers left behind, no two are inside _send_datalog, which share wss and
\* account.
OneSendAtATime ==
  \A p, q \in Payload \ abandoned : Sending(p) /\ Sending(q) => p = q

\* A send that used up its attempts made as many as there are endpoints, and
\* tried every one of them, wherever the rotation stood when it began.  (Not
\* so next to a thread that an interrupted worker left behind, which rotates
\* under the other's feet; the number of attempts stays the same even then.)
EndpointCoverage ==
  \A p \in Payload : thread[p] = "exhausted" =>
    /\ Len(tried[p]) = NumEndpoints
    /\ abandoned = {} =>
         \A e \in Endpoint : \E i \in 1 .. NumEndpoints : tried[p][i] = e

\* The archive of a report is unpinned only after its send was given up: as
\* long as an attempt may still succeed, and after one did, the pin stays.
UnpinOnlyAfterGivingUp == \A p \in Payload \ pinned : GivenUp(p)

\* What the README says of a sent report: "the integrator will see the report
\* appear and will be able to download it", so what is on chain is pinned.
OnChainStaysPinned == chain \subseteq pinned

-----------------------------------------------------------------------------
(* Refinement: the queue, its workers and their threads are one FIFO        *)
(* delivery service.                                                        *)

FateOf(p) ==
  CASE p \in abandoned -> "abandoned"
    [] p \notin abandoned /\ request[p] = "new" -> "unsent"
    [] p \notin abandoned /\ request[p] # "new" ->
         IF Held(p) \/ ~ThreadEnded(p) THEN "accepted"
         ELSE IF thread[p] = "returned" THEN "recorded" ELSE "dropped"

Delivery == INSTANCE DatalogDelivery WITH
  pending <- queue,
  inFlight <- {p \in Payload : Held(p)},
  fate <- [p \in Payload |-> FateOf(p)]

\* Each payload gets exactly one fate, one at a time and in order, and every
\* accepted payload gets one in the end.
ImplementsDelivery == Delivery!FairSpec
=============================================================================
