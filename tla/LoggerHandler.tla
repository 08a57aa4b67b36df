---------------------------- MODULE LoggerHandler ----------------------------
(***************************************************************************)
(* The accumulated log report of LoggerHandler (logger_handler.py): each   *)
(* system_log event is written to the raw log (see LogRotation) and then   *)
(* counted in a buffer; a timer flushes the buffer into an issue.          *)
(*                                                                         *)
(* Events and flushes are tasks of the event loop.  Both locks are         *)
(* asyncio.Lock, first come first served.  Counting has no await inside    *)
(* its critical section and is one step; a flush holds the lock while it   *)
(* loads the e-mail address from the storage, which is two steps.          *)
(***************************************************************************)
EXTENDS Naturals, Sequences, FiniteSets

CONSTANTS
  Event,           \* events of system_log
  LevelOf,         \* their level,
  MessageOf,       \*   logger name and message,
  Own,             \*   and those logged by this integration itself
  Flush,           \* runs of _flush
  MaxTop,          \* the number of entries an issue lists (25)
  MaxTime          \* bound on the clock

Level == {"CRITICAL", "ERROR", "WARNING"}

ASSUME EventsAssumption ==
  /\ DOMAIN LevelOf = Event /\ DOMAIN MessageOf = Event
  /\ Own \subseteq Event
ASSUME TasksAssumption == Event \cap Flush = {}
ASSUME BoundsAssumption == MaxTop \in Nat \ {0} /\ MaxTime \in Nat

VARIABLES
  now,             \* dt_util.utcnow()
  listening,       \* between setup and remove
  pc,              \* where each task is
  stamp,           \* the time each event counts with
  logLock,         \* the holder of _log_lock, then those that wait
  accLock,         \* the same for _acc_lock
  acc,             \* _accumulated_records, by signature
  periodStart,     \* _period_start
  draft,           \* the figures a flush has taken before it loads the e-mail
  reports,         \* the issues handed to _send_report
  fires,           \* history: how many events were fired,
  order,           \*   and the place of each among them
  countedAt,       \* history: when each event was counted
  batch            \* history: the report it is in, 0 while in the buffer

vars == <<now, listening, pc, stamp, logLock, accLock, acc, periodStart, draft,
          reports, fires, order, countedAt, batch>>

Task == Event \cup Flush
Time == 0 .. MaxTime

\* A digest of name, level and message: equal for equal events.
Signature(e) == <<LevelOf[e], MessageOf[e]>>

NoRecords == <<>>
NoDraft == [end |-> 0, total |-> 0, unique |-> 0, byLevel |-> [l \in Level |-> 0],
            top |-> NoRecords]

Counted(e) == pc[e] = "counted"
-----------------------------------------------------------------------------
Init ==
  /\ now = 0 /\ listening = TRUE
  /\ pc = [t \in Task |-> "new"]
  /\ stamp = [e \in Event |-> 0]
  /\ logLock = <<>> /\ accLock = <<>>
  /\ acc = NoRecords
  /\ periodStart = 0
  /\ draft = NoDraft
  /\ reports = <<>>
  /\ fires = 0 /\ order = [e \in Event |-> 0]
  /\ countedAt = [e \in Event |-> 0]
  /\ batch = [e \in Event |-> 0]

Tick ==
  /\ now < MaxTime
  /\ now' = now + 1
  /\ UNCHANGED <<listening, pc, stamp, logLock, accLock, acc, periodStart, draft,
                 reports, fires, order, countedAt, batch>>

-----------------------------------------------------------------------------
(* Events: _catch_new_log. *)

\* system_log fires; the task waits for, or takes, _log_lock.  The record has a
\* timestamp of its own, from whatever thread has made it before.
Fire(e) ==
  /\ listening
  /\ pc[e] = "new"
  /\ pc' = [pc EXCEPT ![e] = "writing"]
  /\ \E made \in 0 .. now : stamp' = [stamp EXCEPT ![e] = made]
  /\ fires' = fires + 1
  /\ order' = [order EXCEPT ![e] = fires + 1]
  /\ logLock' = Append(logLock, e)
  /\ UNCHANGED <<now, listening, accLock, acc, periodStart, draft, reports,
                 countedAt, batch>>

\* The first tests of _collect_issue_record
Collectable(e) == e \notin Own /\ LevelOf[e] \in Level

HoldsLog(e) == Head(logLock) = e

\* The line is written, or failed to be; the task goes on to count the event.  If
\* it has no timestamp, it counts with the time it is now.
RawLineDone(e) ==
  /\ pc[e] = "writing"
  /\ HoldsLog(e)
  /\ logLock' = Tail(logLock)
  /\ stamp' \in {stamp, [stamp EXCEPT ![e] = now]}
  /\ IF Collectable(e)
     THEN /\ pc' = [pc EXCEPT ![e] = "waiting"]
          /\ accLock' = Append(accLock, e)
     ELSE /\ pc' = [pc EXCEPT ![e] = "ignored"]
          /\ UNCHANGED accLock
  /\ UNCHANGED <<now, listening, acc, periodStart, draft, reports, fires, order,
                 countedAt, batch>>

\* The record of e's signature with e counted in
Record(e) ==
  LET old == acc[Signature(e)]
  IN IF Signature(e) \in DOMAIN acc
     THEN [count |-> old.count + 1, first |-> old.first, last |-> stamp[e]]
     ELSE [count |-> 1, first |-> stamp[e], last |-> stamp[e]]

\* faulty: no lock around the buffer
AnyTime(t) == TRUE

HoldsAcc(t) == Head(accLock) = t

WithRecord(e) ==
  [s \in DOMAIN acc \cup {Signature(e)} |->
     IF s = Signature(e) THEN Record(e) ELSE acc[s]]

Collect(e) ==
  /\ pc[e] = "waiting"
  /\ HoldsAcc(e)
  /\ accLock' = Tail(accLock)
  /\ acc' = WithRecord(e)
  /\ countedAt' = [countedAt EXCEPT ![e] = now]
  /\ pc' = [pc EXCEPT ![e] = "counted"]
  /\ UNCHANGED <<now, listening, stamp, logLock, periodStart, draft, reports,
                 fires, order, batch>>

-----------------------------------------------------------------------------
(* The timer: _flush. *)

StartFlush(f) ==
  /\ listening
  /\ pc[f] = "new"
  /\ pc' = [pc EXCEPT ![f] = "waiting"]
  /\ accLock' = Append(accLock, f)
  /\ UNCHANGED <<now, listening, stamp, logLock, acc, periodStart, draft,
                 reports, fires, order, countedAt, batch>>

KeepAccLock == accLock                \* faulty: acquired, never released

ReleaseAcc == Tail(accLock)

FlushNothing(f) ==
  /\ pc[f] = "waiting"
  /\ HoldsAcc(f)
  /\ acc = NoRecords
  /\ periodStart' = now
  /\ accLock' = ReleaseAcc
  /\ pc' = [pc EXCEPT ![f] = "flushed"]
  /\ UNCHANGED <<now, listening, stamp, logLock, acc, draft, reports, fires, order, countedAt,
                 batch>>

\* One pair for each occurrence that is counted under a signature of S
Occurrences(S) == UNION {{s} \X (1 .. acc[s].count) : s \in S}

Sum(S) == Cardinality(Occurrences(S))

OfLevel(l) == {s \in DOMAIN acc : s[1] = l}

\* The entries with the highest counts.  Which of equal ones are listed is
\* left open (the code lists those first seen first).
IsTop(T) ==
  /\ Cardinality(T) = IF Cardinality(DOMAIN acc) < MaxTop
                      THEN Cardinality(DOMAIN acc) ELSE MaxTop
  /\ \A s \in T, u \in DOMAIN acc \ T : acc[s].count >= acc[u].count

\* The figures are taken, then the e-mail is awaited, the lock held.
TakeFigures(f) ==
  /\ pc[f] = "waiting"
  /\ HoldsAcc(f)
  /\ acc # NoRecords
  /\ pc' = [pc EXCEPT ![f] = "email"]
  /\ \E T \in SUBSET DOMAIN acc :
       /\ IsTop(T)
       /\ draft' = [end |-> now,
                    total |-> Sum(DOMAIN acc),
                    unique |-> Cardinality(DOMAIN acc),
                    byLevel |-> [l \in Level |-> Sum(OfLevel(l))],
                    top |-> [s \in T |-> acc[s]]]
  /\ UNCHANGED <<now, listening, stamp, logLock, accLock, acc, periodStart,
                 reports, fires, order, countedAt, batch>>

KeepRecords == acc                       \* faulty: the buffer is not reset

NewBuffer == NoRecords

KeepPeriod == periodStart             \* faulty: nor is the window

NextPeriod == draft.end

FinishFlush(f) ==
  /\ pc[f] = "email"
  /\ reports' = Append(reports, [start |-> periodStart, end |-> draft.end, figures |-> draft])
  /\ acc' = NewBuffer
  /\ periodStart' = NextPeriod
  /\ draft' = NoDraft
  /\ batch' = [e \in Event |-> IF Counted(e) /\ batch[e] = 0
                               THEN Len(reports) + 1 ELSE batch[e]]
  /\ accLock' = ReleaseAcc
  /\ pc' = [pc EXCEPT ![f] = "flushed"]
  /\ UNCHANGED <<now, listening, stamp, logLock, fires, order, countedAt>>

\* StorageError out of _get_email: buffer and window stay as they are.
FlushFails(f) ==
  /\ pc[f] = "email"
  /\ draft' = NoDraft
  /\ accLock' = ReleaseAcc
  /\ pc' = [pc EXCEPT ![f] = "flushed"]
  /\ UNCHANGED <<now, listening, stamp, logLock, acc, periodStart, reports,
                 fires, order, countedAt, batch>>

-----------------------------------------------------------------------------
\* remove: listener and timer go; running tasks do not.
RemoveHandler ==
  /\ listening
  /\ listening' = FALSE
  /\ UNCHANGED <<now, pc, stamp, logLock, accLock, acc, periodStart, draft,
                 reports, fires, order, countedAt, batch>>

\* Nothing more is fired.  That what was fired is also done is TasksEnd.
Quiescent ==
  /\ ~listening \/ \A t \in Task : pc[t] # "new"
  /\ UNCHANGED vars

EventStep(e) == RawLineDone(e) \/ Collect(e)

FlushStep(f) == FlushNothing(f) \/ TakeFigures(f) \/ FinishFlush(f) \/ FlushFails(f)

Next ==
  \/ Tick
  \/ \E e \in Event : Fire(e) \/ EventStep(e)
  \/ \E f \in Flush : StartFlush(f) \/ FlushStep(f)
  \/ RemoveHandler
  \/ Quiescent

Spec == Init /\ [][Next]_vars

\* Executor jobs and loads from the storage end, and locks are handed on.
Fairness ==
  /\ \A e \in Event : WF_vars(EventStep(e))
  /\ \A f \in Flush : WF_vars(FlushStep(f))

FairSpec == Spec /\ Fairness
-----------------------------------------------------------------------------
(* Properties. *)

Entry == [count : Nat \ {0}, first : Time, last : Time]

TypeOK ==
  /\ now \in Time /\ listening \in BOOLEAN
  /\ DOMAIN pc = Task
  /\ \A e \in Event : pc[e] \in {"new", "writing", "waiting", "counted", "ignored"}
  /\ \A f \in Flush : pc[f] \in {"new", "waiting", "email", "flushed"}
  /\ stamp \in [Event -> Time]
  /\ logLock \in Seq(Event) /\ accLock \in Seq(Task)
  /\ \A s \in DOMAIN acc : s[1] \in Level /\ acc[s] \in Entry
  /\ periodStart \in Time
  /\ draft.end \in Time
  /\ fires \in Nat /\ order \in [Event -> Nat]
  /\ countedAt \in [Event -> Time]
  /\ batch \in [Event -> 0 .. Len(reports)]

\* The time t is that of the event of E that was fired first, or last.
IsFirst(t, E) == \E e \in E : stamp[e] = t /\ \A d \in E : order[e] <= order[d]
IsLast(t, E)  == \E e \in E : stamp[e] = t /\ \A d \in E : order[d] <= order[e]

\* The summary of an issue fits its events: as many as were counted into it, of
\* as many signatures.  A listed entry has the number of its own events, none that
\* is left out has more; it begins with the time of the event that was fired first
\* and ends with that of the one fired last, although each waited for a thread,
\* and neither time is after the window's end.  The times themselves may be in
\* any order: they are those of the records, not of the events.
FiguresFit ==
  \A i \in 1 .. Len(reports) :
    LET mine == {e \in Event : Counted(e) /\ batch[e] = i}
        Of(s) == {e \in mine : Signature(e) = s}
        figures == reports[i].figures
        listed == DOMAIN figures.top
    IN /\ figures.total = Cardinality(mine)
       /\ figures.unique = Cardinality({Signature(e) : e \in mine})
       /\ \A s \in listed :
            /\ figures.top[s].count = Cardinality(Of(s))
            /\ IsFirst(figures.top[s].first, Of(s)) /\ figures.top[s].first <= reports[i].end
            /\ IsLast(figures.top[s].last, Of(s)) /\ figures.top[s].last <= reports[i].end
       /\ \A s \in listed, e \in mine :
            Signature(e) \in listed \/ Cardinality(Of(s)) >= Cardinality(Of(Signature(e)))

\* An event is in the report whose window holds the moment it was counted,
\* and windows do not overlap.
InItsWindow ==
  /\ \A e \in Event : Counted(e) =>
       IF batch[e] = 0 THEN countedAt[e] >= periodStart
       ELSE /\ countedAt[e] >= reports[batch[e]].start
            /\ countedAt[e] <= reports[batch[e]].end
  /\ \A i \in 1 .. Len(reports) : \A j \in 1 .. i - 1 :
       reports[j].end <= reports[i].start

\* Every event is counted, or ignored, in the end, and every flush is over.
TasksEnd ==
  \A t \in Task :
    pc[t] \in {"writing", "waiting", "email"} ~> pc[t] \in {"counted", "ignored", "flushed"}

Windows == INSTANCE ReportWindows WITH
  counted <- [l \in Level |-> Sum(OfLevel(l))],
  published <- [i \in 1 .. Len(reports) |-> reports[i].figures.byLevel]

\* By level, each occurrence is counted in one report and no report starts
\* before the last is out, as if a flush were a single step.
ImplementsWindows == Windows!Spec
=============================================================================
