--------------------------- MODULE ReportPipeline ---------------------------
(***************************************************************************)
(* An issue's way from a watcher to the chain: ErrorWatcher._send_report   *)
(* (error_watcher.py) calls the service of the loaded entry, whose         *)
(* ReportService pins the report and hands it to its Robonomics, over      *)
(* reloads of the entry and ends of the process.                           *)
(*                                                                         *)
(* The parts are taken at the level of their contracts, ReportIntake and   *)
(* DatalogDelivery, which ReportService and Robonomics implement. What the *)
(* composition adds is what neither part sees: which instance gets an      *)
(* issue, what unload, reload and crash do to issues on the way, and pins  *)
(* from the upload to the chain.                                           *)
(***************************************************************************)
EXTENDS Naturals, Sequences, FiniteSets, SequencesExt

CONSTANTS
  Issue,
  None,
  NumInstances,    \* bound on the set-ups of the entry
  MaxCrashes,      \* bound on the ends of the process
  MaxInterrupts    \* bound on interrupted workers

ASSUME NoneAssumption == None \notin Issue
ASSUME BoundsAssumption ==
  NumInstances \in Nat /\ MaxCrashes \in Nat /\ MaxInterrupts \in Nat

Instance == 1 .. NumInstances

VARIABLES
  loaded,          \* whether the service is registered
  instance,        \* the set-up that registered it last
  crashes,
  stage,           \* how far the issue's report is
  owner,           \* the instance whose handler took the call
  line,            \* the calls of each instance's send_report, in order
  called,          \* history: all of them
  sent,            \* history: what was handed to each instance's Robonomics
  queue,           \* its datalog queue
  working,         \* the payload its worker holds, or None
  fate,            \* what became of each payload
  chain,           \* the datalog records
  pinned,
  unsure,          \* history: uploads that raised after Pinata had the file
  stuck            \* history: unpins that failed

entryVars == <<loaded, instance, crashes>>
callVars == <<owner, line, called>>
queueVars == <<sent, queue, working, fate>>
outVars == <<chain, pinned, unsure, stuck>>
vars == <<entryVars, callVars, stage, queueVars, outVars>>

Init ==
  /\ loaded = FALSE /\ instance = 0 /\ crashes = 0
  /\ stage = [i \in Issue |-> "none"]
  /\ owner = [i \in Issue |-> 0]
  /\ line = [k \in Instance |-> <<>>] /\ called = [k \in Instance |-> <<>>]
  /\ sent = [k \in Instance |-> <<>>] /\ queue = [k \in Instance |-> <<>>]
  /\ working = [k \in Instance |-> None]
  /\ fate = [i \in Issue |-> "unsent"]
  /\ chain = <<>>
  /\ pinned = {} /\ unsure = {} /\ stuck = {}

Goto(i, next) == stage' = [stage EXCEPT ![i] = next]

-----------------------------------------------------------------------------
(* The watcher: two tasks, one inside the other. *)

\* A flush or a check ends; it may have been under way since before an unload.
\* Its _call is a task,
SendReport(i) ==
  /\ instance > 0 /\ stage[i] = "none"
  /\ Goto(i, "trying")
  /\ UNCHANGED <<entryVars, callVars, queueVars, outVars>>

\* which makes a task of the service call and is done: it sees none of the
\* errors it is there to handle.
MakeCall(i) ==
  /\ stage[i] = "trying"
  /\ Goto(i, "task")
  /\ UNCHANGED <<entryVars, callVars, queueVars, outVars>>

\* async_call finds the handler that is registered now, which waits for the
\* send lock of its ReportService;
Dispatch(i) ==
  /\ stage[i] = "task"
  /\ loaded
  /\ Goto(i, "line")
  /\ owner' = [owner EXCEPT ![i] = instance]
  /\ line' = [line EXCEPT ![instance] = Append(@, i)]
  /\ called' = [called EXCEPT ![instance] = Append(@, i)]
  /\ UNCHANGED <<entryVars, queueVars, outVars>>

\* or raises ServiceNotFound.
NotFound(i) ==
  /\ stage[i] = "task"
  /\ ~loaded
  /\ Goto(i, "notFound")
  /\ UNCHANGED <<entryVars, callVars, queueVars, outVars>>

-----------------------------------------------------------------------------
(* ReportService.send_report, one call at a time. *)

AnyTurn(i) == owner[i] # 0                     \* faulty: the lock is missing

Served(i) == owner[i] # 0 /\ line[owner[i]] # <<>> /\ Head(line[owner[i]]) = i

Pin(i) ==
  /\ stage[i] = "line" /\ Served(i)
  /\ Goto(i, "pinned")
  /\ pinned' = pinned \cup {i}
  /\ UNCHANGED <<entryVars, callVars, queueVars, chain, unsure, stuck>>

InFront(q, i) == <<i>> \o q                    \* faulty: the last one goes first

InTurn(q, i) == Append(q, i)

\* robonomics.send_datalog
Enqueue(i) ==
  /\ stage[i] = "pinned" /\ Served(i)
  /\ Goto(i, "sent")
  /\ sent' = [sent EXCEPT ![owner[i]] = Append(@, i)]
  /\ queue' = [queue EXCEPT ![owner[i]] = InTurn(@, i)]
  /\ fate' = [fate EXCEPT ![i] = "accepted"]
  /\ UNCHANGED <<entryVars, callVars, working, outVars>>

Leave(i) == line' = [line EXCEPT ![owner[i]] = Tail(@)]

\* The clean-up of send_report is over.
ReportEnds(i) ==
  /\ stage[i] = "sent" /\ Served(i)
  /\ Goto(i, "ok") /\ Leave(i)
  /\ UNCHANGED <<entryVars, owner, called, queueVars, outVars>>

\* The upload raises although Pinata has the file by now.
PinUnsure(i) ==
  /\ stage[i] = "line" /\ Served(i)
  /\ Goto(i, "unsure")
  /\ pinned' = pinned \cup {i} /\ unsure' = unsure \cup {i}
  /\ UNCHANGED <<entryVars, callVars, queueVars, chain, stuck>>

\* It raises: no files, the archive, the upload, ...
ReportFails(i) ==
  /\ stage[i] \in {"line", "unsure"} /\ Served(i)
  /\ Goto(i, "failed") /\ Leave(i)
  /\ UNCHANGED <<entryVars, owner, called, queueVars, outVars>>

-----------------------------------------------------------------------------
(* Robonomics, one payload at a time; of an unloaded instance, too. *)

Drained(q) == <<>>                             \* faulty: the others are taken too

Rest(q) == Tail(q)

TakeUp(k) ==
  /\ working[k] = None /\ queue[k] # <<>>
  /\ working' = [working EXCEPT ![k] = Head(queue[k])]
  /\ queue' = [queue EXCEPT ![k] = Rest(@)]
  /\ UNCHANGED <<entryVars, callVars, stage, sent, fate, outVars>>

Settle(k, f) ==
  /\ fate' = [fate EXCEPT ![working[k]] = f]
  /\ working' = [working EXCEPT ![k] = None]
  /\ UNCHANGED <<entryVars, callVars, stage, sent, queue>>

Record(k) ==
  /\ working[k] # None
  /\ chain' = Append(chain, working[k])
  /\ Settle(k, "recorded")
  /\ UNCHANGED <<pinned, unsure, stuck>>

NoCleanUp(i) == {}                             \* faulty: nothing is unpinned

CleanUp(i) == {i}

\* The send is given up, and the archive unpinned unless that fails too.
Drop(k) ==
  /\ working[k] # None
  /\ \/ pinned' = pinned \ CleanUp(working[k]) /\ UNCHANGED stuck
     \/ stuck' = stuck \cup {working[k]} /\ UNCHANGED pinned
  /\ Settle(k, "dropped")
  /\ UNCHANGED <<chain, unsure>>

\* The worker is interrupted; its thread goes on.
Interrupt(k) ==
  /\ working[k] # None
  /\ Cardinality({i \in Issue : fate[i] = "abandoned"}) < MaxInterrupts
  /\ Settle(k, "abandoned")
  /\ UNCHANGED outVars

\* An extrinsic that was submitted before its send timed out or was cut short
\* gets into a block all the same.
LateRecord(i) ==
  /\ fate[i] \in {"dropped", "abandoned", "cut"} /\ i \notin ToSet(chain)
  /\ chain' = Append(chain, i)
  /\ UNCHANGED <<entryVars, callVars, stage, queueVars, pinned, unsure, stuck>>

-----------------------------------------------------------------------------
(* The config entry and the process. *)

\* Set-up ends with the service registered; it has a Robonomics of its own.
Setup ==
  /\ ~loaded /\ instance < NumInstances
  /\ loaded' = TRUE /\ instance' = instance + 1
  /\ UNCHANGED <<crashes, callVars, stage, queueVars, outVars>>

\* Whatever is under way goes on in the objects of the old instance.
Unload ==
  /\ loaded
  /\ loaded' = FALSE
  /\ UNCHANGED <<instance, crashes, callVars, stage, queueVars, outVars>>

Underway(i) == stage[i] \in {"trying", "task", "line", "unsure", "pinned", "sent"}

Crash ==
  /\ crashes < MaxCrashes
  /\ crashes' = crashes + 1
  /\ loaded' = FALSE
  /\ stage' = [i \in Issue |-> IF Underway(i) THEN "dead" ELSE stage[i]]
  /\ line' = [k \in Instance |-> <<>>] /\ queue' = [k \in Instance |-> <<>>]
  /\ working' = [k \in Instance |-> None]
  /\ fate' = [i \in Issue |->
       IF fate[i] # "accepted" THEN fate[i]
       ELSE IF \E k \in Instance : working[k] = i THEN "cut" ELSE "lost"]
  /\ UNCHANGED <<instance, owner, called, sent, outVars>>

-----------------------------------------------------------------------------
CallStep(i) ==
  \/ MakeCall(i) \/ Dispatch(i) \/ NotFound(i)
  \/ Pin(i) \/ PinUnsure(i) \/ Enqueue(i) \/ ReportEnds(i) \/ ReportFails(i)

WorkerStep(k) == TakeUp(k) \/ Record(k) \/ Drop(k)

\* No issue is under way; the next one is a day off.
Quiescent ==
  /\ \A i \in Issue : ~Underway(i)
  /\ \A k \in Instance : queue[k] = <<>> /\ working[k] = None
  /\ UNCHANGED vars

Next ==
  \/ \E i \in Issue : SendReport(i) \/ CallStep(i) \/ LateRecord(i)
  \/ \E k \in Instance : WorkerStep(k) \/ Interrupt(k)
  \/ Setup \/ Unload \/ Crash
  \/ Quiescent

Spec == Init /\ [][Next]_vars

\* Tasks and workers go on; issues, reloads and faults are not forced.
Fairness == /\ \A i \in Issue : WF_vars(CallStep(i))
            /\ \A k \in Instance : WF_vars(WorkerStep(k))

FairSpec == Spec /\ Fairness
-----------------------------------------------------------------------------
(* Properties. *)

TypeOK ==
  /\ loaded \in BOOLEAN /\ instance \in 0 .. NumInstances /\ crashes \in 0 .. MaxCrashes
  /\ stage \in [Issue -> {"none", "trying", "task", "line", "unsure", "pinned", "sent", "ok",
                          "failed", "notFound", "dead"}]
  /\ owner \in [Issue -> 0 .. NumInstances]
  /\ line \in [Instance -> Seq(Issue)] /\ called \in [Instance -> Seq(Issue)]
  /\ sent \in [Instance -> Seq(Issue)] /\ queue \in [Instance -> Seq(Issue)]
  /\ working \in [Instance -> Issue \cup {None}]
  /\ fate \in [Issue -> {"unsent", "accepted", "recorded", "dropped", "abandoned",
                         "cut", "lost"}]
  /\ chain \in Seq(Issue)
  /\ pinned \cup unsure \cup stuck \subseteq Issue

InQueue(i) == \E k \in Instance : i \in ToSet(queue[k]) \cup {working[k]}

\* Each pin has a use, or a fault that accounts for it: the report is on its
\* way, queued or on chain; or the upload's or the unpin's answer was lost, the
\* worker was interrupted, or the process ended before the report's record.
PinsExplained ==
  \A i \in pinned :
    \/ stage[i] = "pinned" \/ InQueue(i) \/ i \in ToSet(chain)
    \/ i \in unsure \cup stuck
    \/ fate[i] = "abandoned"
    \/ crashes > 0 /\ (stage[i] = "dead" \/ fate[i] \in {"cut", "lost"})

\* The datalogs of one instance are recorded in the order in which its service
\* was called, but for those whose send timed out or was cut short.
ChainOrder ==
  \A m, n \in 1 .. Len(chain) :
    LET i == chain[m]
        j == chain[n]
    IN m < n /\ owner[i] = owner[j] /\ fate[i] = "recorded" /\ fate[j] = "recorded" =>
         \E a, b \in 1 .. Len(called[owner[i]]) :
           a < b /\ called[owner[i]][a] = i /\ called[owner[i]][b] = j

\* Each issue of a watcher gets an end, also across a reload: recorded or
\* dropped by the instance that took it, refused, or lost to a crash.
IssuesSettle ==
  \A i \in Issue :
    stage[i] = "trying" ~>
      \/ stage[i] \in {"failed", "notFound", "dead"}
      \/ stage[i] = "ok" /\ fate[i] \notin {"unsent", "accepted"}

\* What became of the payloads of instance k; a send that is cut short is lost.
FateAt(k) ==
  [i \in Issue |->
    IF i \notin ToSet(sent[k]) THEN "unsent"
    ELSE IF fate[i] = "cut" THEN "lost" ELSE fate[i]]

FirstDelivery == INSTANCE DatalogDelivery WITH
  Payload <- Issue,
  pending <- queue[1],
  inFlight <- {working[1]} \ {None},
  fate <- FateAt(1)

\* What was uploaded, whatever became of it,
Uploaded == pinned \cup unsure \cup {i \in Issue : \E k \in Instance : i \in ToSet(sent[k])}

\* and what the caller of send_report knows.
Known(i) ==
  IF owner[i] = 0 THEN "uncalled"
  ELSE IF stage[i] = "dead" THEN "lost"
  ELSE IF stage[i] \in {"ok", "failed"} THEN stage[i] ELSE "open"

Intake == INSTANCE ReportIntake WITH
  Report <- Issue,
  handed <- sent,
  pinned <- Uploaded,
  outcome <- [i \in Issue |-> Known(i)]

\* The parts keep their contracts while instances come and go.  The datalog
\* queue of the first set-up delivers as before, also after its unload, when the
\* next one is in use, until the process ends; and each instance serves its
\* callers in turn.
KeepsContracts == FirstDelivery!FairSpec /\ Intake!Spec
=============================================================================
