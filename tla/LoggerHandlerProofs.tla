------------------------- MODULE LoggerHandlerProofs -------------------------
(***************************************************************************)
(* Proofs about LoggerHandler for any events, levels, messages and flushes.*)
(*                                                                         *)
(* Locked says that a flush keeps _acc_lock while it waits for the e-mail  *)
(* address; Windowed, which rests on it, that whatever is counted between  *)
(* two resets of the buffer is counted within one window.  InOrder follows *)
(* the events through both lines, Tallied what the buffer says of them.    *)
(***************************************************************************)
EXTENDS LoggerHandler, SequenceTheorems, FiniteSetTheorems, TLAPS

In(line, t) == \E k \in 1 .. Len(line) : line[k] = t

\* Tasks that wait are in line, and a flush that has taken its figures is first.
Locked ==
  /\ \A t \in Task : pc[t] = "waiting" => In(accLock, t)
  /\ \A e \in Event :
       /\ pc[e] = "writing" => In(logLock, e)
       /\ pc[e] = "waiting" => LevelOf[e] \in Level
  /\ \A f \in Flush : pc[f] = "email" => Len(accLock) > 0 /\ Head(accLock) = f

\* The reports are a list, whatever their figures.
Listed == \E S : reports \in Seq(S)

Kept == TypeOK /\ Listed /\ Locked

LEMMA KeptInit == Init => Kept
<1> SUFFICES ASSUME Init PROVE Kept
  OBVIOUS
<1>1. 0 \in Time
  BY BoundsAssumption DEF Time
<1>2. batch \in [Event -> 0 .. Len(reports)] /\ \A t \in Task : pc[t] = "new"
  BY DEF Init
<1>3. TypeOK
  BY <1>1, <1>2 DEF Init, TypeOK, NoDraft, NoRecords, Task
<1>4. Locked
  BY <1>2 DEF Locked, Task
<1>5. Listed
  BY DEF Init, Listed
<1> QED
  BY <1>3, <1>4, <1>5 DEF Kept

\* What stays in a line when the first of it leaves
LEMMA OthersStay ==
  ASSUME NEW S, NEW s \in Seq(S), Len(s) > 0
  PROVE  /\ Tail(s) \in Seq(S)
         /\ \A x : x # Head(s) /\ In(s, x) => In(Tail(s), x)
<1>1. s # <<>> /\ Head(s) = s[1]
  OBVIOUS
<1>2. /\ Tail(s) \in Seq(S) /\ Len(Tail(s)) = Len(s) - 1
      /\ \A k \in 1 .. Len(Tail(s)) : Tail(s)[k] = s[k + 1]
  BY <1>1, HeadTailProperties
<1>3. ASSUME NEW x, x # Head(s), NEW k \in 1 .. Len(s), s[k] = x
      PROVE  \E j \in 1 .. Len(Tail(s)) : Tail(s)[j] = x
  <2>1. k - 1 \in 1 .. Len(Tail(s)) /\ Tail(s)[k - 1] = s[k]
    BY <1>1, <1>2, <1>3 DEF In
  <2> QED
    BY <1>3, <2>1
<1> QED
  BY <1>2, <1>3 DEF In

\* What stays in a line when another joins it
LEMMA AllStay ==
  ASSUME NEW S, NEW s \in Seq(S), NEW y \in S
  PROVE  /\ Append(s, y) \in Seq(S) /\ Len(Append(s, y)) > 0
         /\ In(Append(s, y), y)
         /\ \A x : In(s, x) => In(Append(s, y), x)
         /\ Len(s) > 0 => Head(Append(s, y)) = Head(s)
<1>1. /\ Append(s, y) \in Seq(S) /\ Len(Append(s, y)) = Len(s) + 1
      /\ \A k \in 1 .. Len(s) : Append(s, y)[k] = s[k]
      /\ Append(s, y)[Len(s) + 1] = y
  BY AppendProperties
<1>2. Len(s) + 1 \in 1 .. Len(Append(s, y)) /\ \A k \in 1 .. Len(s) : k \in 1 .. Len(Append(s, y))
  BY <1>1
<1>3. Len(s) > 0 => Head(Append(s, y)) = Head(s)
  BY <1>1
<1> QED
  BY <1>1, <1>2, <1>3 DEF In

\* A task that waits is in a line that is not empty.
LEMMA LineNotEmpty ==
  ASSUME Kept
  PROVE  /\ \A t \in Task : pc[t] \in {"waiting", "email"} => Len(accLock) > 0
         /\ \A e \in Event : pc[e] = "writing" => Len(logLock) > 0
<1>1. Len(accLock) \in Nat /\ Len(logLock) \in Nat
  BY DEF Kept, TypeOK
<1>2. \A e \in Event : pc[e] # "email"
  BY DEF Kept, TypeOK
<1> QED
  BY <1>1, <1>2 DEF Kept, Locked, Task, In

\* A report is added to the list.
LEMMA ReportAdded ==
  ASSUME Kept, NEW r, reports' = Append(reports, r)
  PROVE  /\ Listed' /\ Len(reports') = Len(reports) + 1 /\ Len(reports) \in Nat
         /\ \A i \in 1 .. Len(reports) : reports'[i] = reports[i]
         /\ reports'[Len(reports) + 1] = r
<1>1. PICK S : reports \in Seq(S)
  BY DEF Kept, Listed
<1>2. reports \in Seq(S \cup {r})
  BY <1>1
<1> QED
  BY <1>2, AppendProperties DEF Listed
-----------------------------------------------------------------------------
(* Typing. *)

LEMMA RecordTyped ==
  ASSUME TypeOK, NEW e \in Event, LevelOf[e] \in Level
  PROVE  \A s \in DOMAIN WithRecord(e) : s[1] \in Level /\ WithRecord(e)[s] \in Entry
<1>1. Signature(e)[1] = LevelOf[e]
  BY DEF Signature
<1>2. stamp[e] \in Time
  BY DEF TypeOK
<1>3. Record(e) \in Entry
  <2>1. CASE Signature(e) \in DOMAIN acc
    <3>1. acc[Signature(e)].count \in Nat \ {0} /\ acc[Signature(e)].first \in Time
      BY <2>1 DEF TypeOK, Entry
    <3>2. acc[Signature(e)].count + 1 \in Nat \ {0}
      BY <3>1
    <3> QED
      BY <1>2, <2>1, <3>1, <3>2 DEF Record, Entry
  <2>2. CASE Signature(e) \notin DOMAIN acc
    BY <1>2, <2>2 DEF Record, Entry
  <2> QED
    BY <2>1, <2>2
<1> QED
  BY <1>1, <1>3 DEF WithRecord, TypeOK

LEMMA TypeStep == Kept /\ [Next]_vars => TypeOK'
<1> SUFFICES ASSUME Kept, [Next]_vars PROVE TypeOK'
  OBVIOUS
<1>t. TypeOK
  BY DEF Kept
<1>d. \A e \in Event : e \in Task /\ e \notin Flush
  BY TasksAssumption DEF Task
<1>f. \A f \in Flush : f \in Task /\ f \notin Event
  BY TasksAssumption DEF Task
<1>1. CASE Tick
  BY <1>t, <1>1, BoundsAssumption DEF Tick, TypeOK, Time
<1>2. ASSUME NEW e \in Event, Fire(e) PROVE TypeOK'
  <2>1. logLock' \in Seq(Event)
    BY <1>t, <1>2 DEF Fire, TypeOK
  <2>2. /\ stamp' \in [Event -> Time] /\ fires' \in Nat /\ order' \in [Event -> Nat]
        /\ \A u \in Task \ {e} : pc'[u] = pc[u]
    <3>1. 0 .. now \subseteq Time
      BY <1>t, BoundsAssumption DEF TypeOK, Time
    <3> QED
      BY <1>t, <1>2, <3>1 DEF Fire, TypeOK, Task
  <2> QED
    BY <1>t, <1>d, <1>2, <2>1, <2>2 DEF Fire, TypeOK
<1>3. ASSUME NEW e \in Event, RawLineDone(e) PROVE TypeOK'
  <2>1. logLock' \in Seq(Event)
    BY <1>t, <1>3, LineNotEmpty, OthersStay DEF RawLineDone, TypeOK
  <2>2. accLock' \in Seq(Task)
    <3>1. accLock' \in {accLock, Append(accLock, e)}
      BY <1>3 DEF RawLineDone
    <3>2. accLock \in Seq(Task) /\ e \in Task
      BY <1>t, <1>d DEF TypeOK
    <3> QED
      BY <3>1, <3>2, AppendProperties
  <2>3. /\ DOMAIN pc' = Task /\ pc'[e] \in {"waiting", "ignored"}
        /\ \A u \in Task \ {e} : pc'[u] = pc[u]
        /\ stamp' \in [Event -> Time]
        /\ UNCHANGED <<now, listening, acc, periodStart, draft, reports, fires, order,
                      countedAt, batch>>
    BY <1>t, <1>d, <1>3 DEF RawLineDone, TypeOK
  <2> QED
    BY <1>t, <1>d, <1>f, <2>1, <2>2, <2>3 DEF TypeOK
<1>4. ASSUME NEW e \in Event, Collect(e) PROVE TypeOK'
  <2>1. Len(accLock) > 0 /\ LevelOf[e] \in Level
    BY <1>d, <1>4, LineNotEmpty DEF Collect, Kept, Locked
  <2>2. accLock' \in Seq(Task)
    BY <1>t, <1>4, <2>1, OthersStay DEF Collect, TypeOK
  <2>3. \A s \in DOMAIN acc' : s[1] \in Level /\ acc'[s] \in Entry
    BY <1>t, <1>4, <2>1, RecordTyped DEF Collect
  <2> QED
    BY <1>t, <1>d, <1>4, <2>2, <2>3 DEF Collect, TypeOK
<1>5. ASSUME NEW f \in Flush, StartFlush(f) PROVE TypeOK'
  <2>1. accLock' \in Seq(Task)
    BY <1>t, <1>f, <1>5 DEF StartFlush, TypeOK
  <2> QED
    BY <1>t, <1>f, <1>5, <2>1 DEF StartFlush, TypeOK
<1>a. ASSUME NEW f \in Flush, pc[f] \in {"waiting", "email"}
      PROVE  Tail(accLock) \in Seq(Task)
  BY <1>t, <1>f, <1>a, LineNotEmpty, OthersStay DEF TypeOK
<1>6. ASSUME NEW f \in Flush, FlushNothing(f) PROVE TypeOK'
  BY <1>t, <1>f, <1>a, <1>6 DEF FlushNothing, ReleaseAcc, TypeOK
<1>7. ASSUME NEW f \in Flush, TakeFigures(f) PROVE TypeOK'
  <2>1. draft'.end \in Time
    BY <1>t, <1>7 DEF TakeFigures, TypeOK
  <2> QED
    BY <1>t, <1>f, <1>7, <2>1 DEF TakeFigures, TypeOK
<1>8. ASSUME NEW f \in Flush, FinishFlush(f) PROVE TypeOK'
  <2>1. draft'.end \in Time /\ periodStart' \in Time
    BY <1>t, <1>8, BoundsAssumption DEF FinishFlush, NoDraft, NextPeriod, TypeOK, Time
  <2>2. Len(reports') = Len(reports) + 1 /\ Len(reports) \in Nat
    BY <1>8, ReportAdded DEF FinishFlush
  <2>3. batch' \in [Event -> 0 .. Len(reports')]
    BY <1>t, <1>8, <2>2 DEF FinishFlush, TypeOK
  <2>4. \A s \in DOMAIN acc' : s[1] \in Level /\ acc'[s] \in Entry
    BY <1>8 DEF FinishFlush, NewBuffer, NoRecords
  <2> QED
    BY <1>t, <1>f, <1>a, <1>8, <2>1, <2>3, <2>4 DEF FinishFlush, ReleaseAcc, TypeOK
<1>9. ASSUME NEW f \in Flush, FlushFails(f) PROVE TypeOK'
  <2>1. draft'.end \in Time
    BY <1>9, BoundsAssumption DEF FlushFails, NoDraft, Time
  <2> QED
    BY <1>t, <1>f, <1>a, <1>9, <2>1 DEF FlushFails, ReleaseAcc, TypeOK
<1>10. CASE RemoveHandler
  BY <1>t, <1>10 DEF RemoveHandler, TypeOK
<1>11. CASE UNCHANGED vars
  BY <1>t, <1>11 DEF vars, TypeOK
<1> QED
  BY <1>1, <1>2, <1>3, <1>4, <1>5, <1>6, <1>7, <1>8, <1>9, <1>10, <1>11
     DEF Next, EventStep, FlushStep, Quiescent
-----------------------------------------------------------------------------
(* The lock. *)

LEMMA LockedStep == Kept /\ [Next]_vars => Locked'
<1> SUFFICES ASSUME Kept, [Next]_vars PROVE Locked'
  OBVIOUS
<1>t. TypeOK /\ Locked /\ accLock \in Seq(Task) /\ logLock \in Seq(Event)
  BY DEF Kept, TypeOK
<1>d. \A e \in Event : e \in Task /\ e \notin Flush
  BY TasksAssumption DEF Task
<1>f. \A f \in Flush : f \in Task /\ f \notin Event
  BY TasksAssumption DEF Task
<1>1. CASE UNCHANGED <<pc, accLock, logLock>>
  BY <1>t, <1>1 DEF Locked
<1>2. ASSUME NEW e \in Event, Fire(e) PROVE Locked'
  <2>1. /\ pc'[e] = "writing" /\ UNCHANGED accLock /\ logLock' = Append(logLock, e)
        /\ \A u \in Task \ {e} : pc'[u] = pc[u]
    BY <1>t, <1>d, <1>2 DEF Fire, TypeOK
  <2>2. /\ In(logLock', e)
        /\ \A u : In(logLock, u) => In(logLock', u)
    BY <1>t, <2>1, AllStay
  <2> QED
    BY <1>t, <1>d, <1>f, <2>1, <2>2 DEF Locked
<1>3. ASSUME NEW e \in Event, RawLineDone(e) PROVE Locked'
  <2>1. /\ pc[e] = "writing" /\ logLock' = Tail(logLock) /\ Head(logLock) = e
        /\ \/ pc'[e] = "ignored" /\ UNCHANGED accLock
           \/ pc'[e] = "waiting" /\ LevelOf[e] \in Level /\ accLock' = Append(accLock, e)
        /\ \A u \in Task \ {e} : pc'[u] = pc[u]
    BY <1>t, <1>d, <1>3 DEF RawLineDone, HoldsLog, Collectable, TypeOK
  <2>2. \A u \in Event \ {e} : pc'[u] = "writing" => In(logLock', u)
    BY <1>t, <1>d, <2>1, LineNotEmpty, OthersStay DEF Locked
  <2>3. /\ pc'[e] = "waiting" => In(accLock', e)
        /\ \A u : In(accLock, u) => In(accLock', u)
        /\ Len(accLock) > 0 => Head(accLock') = Head(accLock) /\ Len(accLock') > 0
    <3>1. CASE UNCHANGED accLock /\ pc'[e] = "ignored"
      BY <3>1
    <3>2. CASE accLock' = Append(accLock, e)
      BY <1>t, <1>d, <3>2, AllStay
    <3> QED
      BY <2>1, <3>1, <3>2
  <2> QED
    BY <1>t, <1>d, <1>f, <2>1, <2>2, <2>3 DEF Locked
<1>4. ASSUME NEW t \in Task, pc[t] \in {"waiting", "email"}, Head(accLock) = t,
             accLock' = Tail(accLock), UNCHANGED logLock,
             pc'[t] \in {"counted", "flushed"}, \A u \in Task \ {t} : pc'[u] = pc[u]
      PROVE  Locked'
  <2>1. Len(accLock) > 0
    BY <1>4, LineNotEmpty
  <2>2. \A u \in Task \ {t} : pc'[u] = "waiting" => In(accLock', u)
    BY <1>t, <1>4, <2>1, OthersStay DEF Locked
  <2>3. \A f \in Flush : pc'[f] # "email"
    BY <1>t, <1>f, <1>4 DEF Locked
  <2> QED
    BY <1>t, <1>d, <1>4, <2>2, <2>3 DEF Locked
<1>5. ASSUME NEW e \in Event, Collect(e) PROVE Locked'
  BY <1>t, <1>d, <1>4, <1>5 DEF Collect, HoldsAcc, TypeOK
<1>6. ASSUME NEW f \in Flush, StartFlush(f) PROVE Locked'
  <2>1. /\ pc'[f] = "waiting" /\ UNCHANGED logLock /\ accLock' = Append(accLock, f)
        /\ \A u \in Task \ {f} : pc'[u] = pc[u]
    BY <1>t, <1>f, <1>6 DEF StartFlush, TypeOK
  <2>2. /\ In(accLock', f)
        /\ \A u : In(accLock, u) => In(accLock', u)
        /\ Len(accLock') > 0 /\ (Len(accLock) > 0 => Head(accLock') = Head(accLock))
    BY <1>t, <1>f, <2>1, AllStay
  <2> QED
    BY <1>t, <1>d, <1>f, <2>1, <2>2 DEF Locked
<1>7. ASSUME NEW f \in Flush, TakeFigures(f) PROVE Locked'
  <2>1. /\ pc[f] = "waiting" /\ pc'[f] = "email" /\ Head(accLock) = f
        /\ UNCHANGED <<accLock, logLock>>
        /\ \A u \in Task \ {f} : pc'[u] = pc[u]
    BY <1>t, <1>f, <1>7 DEF TakeFigures, HoldsAcc, TypeOK
  <2>2. Len(accLock) > 0
    BY <1>f, <2>1, LineNotEmpty
  <2> QED
    BY <1>t, <1>d, <1>f, <2>1, <2>2 DEF Locked
<1>8. ASSUME NEW f \in Flush, FlushNothing(f) PROVE Locked'
  BY <1>t, <1>f, <1>4, <1>8 DEF FlushNothing, HoldsAcc, ReleaseAcc, TypeOK
<1>9. ASSUME NEW f \in Flush, FinishFlush(f) \/ FlushFails(f) PROVE Locked'
  <2>1. pc[f] = "email" /\ Head(accLock) = f
    BY <1>t, <1>9 DEF FinishFlush, FlushFails, Locked
  <2> QED
    BY <1>t, <1>f, <1>4, <1>9, <2>1 DEF FinishFlush, FlushFails, ReleaseAcc, TypeOK
<1>10. CASE Tick \/ RemoveHandler \/ UNCHANGED vars
  BY <1>1, <1>10 DEF Tick, RemoveHandler, vars
<1> QED
  BY <1>2, <1>3, <1>5, <1>6, <1>7, <1>8, <1>9, <1>10 DEF Next, EventStep, FlushStep, Quiescent

LEMMA ListedStep == Kept /\ [Next]_vars => Listed'
<1> SUFFICES ASSUME Kept, [Next]_vars PROVE Listed'
  OBVIOUS
<1>1. CASE UNCHANGED reports
  BY <1>1 DEF Kept, Listed
<1>2. ASSUME NEW f \in Flush, FinishFlush(f) PROVE Listed'
  BY <1>2, ReportAdded DEF FinishFlush
<1> QED
  BY <1>1, <1>2 DEF Next, Tick, Fire, EventStep, RawLineDone, Collect, StartFlush, FlushStep,
                    FlushNothing, TakeFigures, FlushFails, RemoveHandler, Quiescent, vars

LEMMA KeptAlways == Spec => []Kept
<1>1. Kept /\ [Next]_vars => Kept'
  BY TypeStep, ListedStep, LockedStep DEF Kept
<1> QED
  BY <1>1, KeptInit, PTL DEF Spec

\* Type correctness; in it, that each release finds the lock held.
THEOREM TypeCorrect == Spec => []TypeOK
<1>1. Kept => TypeOK
  BY DEF Kept
<1> QED
  BY <1>1, KeptAlways, PTL
-----------------------------------------------------------------------------
(* The windows. *)

Pending(e) == Counted(e) /\ batch[e] = 0

\* The buffer holds what was counted since the window began, and a flush that
\* waits for the e-mail has seen all of it.
Windowed ==
  /\ periodStart <= now
  /\ \A e \in Event :
       /\ batch[e] # 0 => Counted(e)
       /\ countedAt[e] <= now
       /\ Pending(e) => Signature(e) \in DOMAIN acc /\ countedAt[e] >= periodStart
       /\ batch[e] # 0 => /\ countedAt[e] >= reports[batch[e]].start
                          /\ countedAt[e] <= reports[batch[e]].end
  /\ \A f \in Flush : pc[f] = "email" =>
       /\ periodStart <= draft.end /\ draft.end <= now
       /\ \A e \in Event : Pending(e) => countedAt[e] <= draft.end
  /\ \A i \in 1 .. Len(reports) :
       /\ reports[i].end <= periodStart /\ reports[i].end \in Time
       /\ \A j \in 1 .. i - 1 : reports[j].end <= reports[i].start

LEMMA WindowedInit == Init => Windowed
BY TasksAssumption DEF Init, Windowed, Pending, Counted, Task

LEMMA WindowedStep == Kept /\ Windowed /\ [Next]_vars => Windowed'
<1> SUFFICES ASSUME Kept, Windowed, [Next]_vars PROVE Windowed'
  OBVIOUS
<1>t. TypeOK /\ Locked
  BY DEF Kept
<1>n. /\ now \in Nat /\ periodStart \in Nat /\ draft.end \in Nat
      /\ \A e \in Event : countedAt[e] \in Nat
  BY <1>t DEF TypeOK, Time
<1>d. \A e \in Event : e \in Task /\ e \notin Flush
  BY TasksAssumption DEF Task
<1>f. \A f \in Flush : f \in Task /\ f \notin Event
  BY TasksAssumption DEF Task
<1>1. ASSUME now <= now', now' \in Nat, UNCHANGED <<acc, periodStart, draft, reports, countedAt, batch>>,
             \A e \in Event : Counted(e)' <=> Counted(e),
             \A f \in Flush : pc'[f] = "email" => pc[f] = "email"
      PROVE  Windowed'
  BY <1>n, <1>1 DEF Windowed, Pending
<1>2. CASE Tick \/ RemoveHandler \/ UNCHANGED vars
  BY <1>n, <1>1, <1>2 DEF Tick, RemoveHandler, vars, Counted
<1>3. ASSUME NEW e \in Event, Fire(e) \/ RawLineDone(e) PROVE Windowed'
  <2>1. /\ UNCHANGED <<now, acc, periodStart, draft, reports, countedAt, batch>>
        /\ pc[e] # "counted" /\ pc'[e] # "counted" /\ \A u \in Task \ {e} : pc'[u] = pc[u]
    BY <1>t, <1>d, <1>3 DEF Fire, RawLineDone, TypeOK
  <2> QED
    BY <1>n, <1>d, <1>f, <1>1, <2>1 DEF Counted
<1>4. ASSUME NEW f \in Flush, StartFlush(f) PROVE Windowed'
  <2>1. /\ UNCHANGED <<now, acc, periodStart, draft, reports, countedAt, batch>>
        /\ pc'[f] = "waiting" /\ \A u \in Task \ {f} : pc'[u] = pc[u]
    BY <1>t, <1>f, <1>4 DEF StartFlush, TypeOK
  <2> QED
    BY <1>n, <1>d, <1>f, <1>1, <2>1 DEF Counted
<1>5. ASSUME NEW f \in Flush, FlushFails(f) PROVE Windowed'
  <2>1. /\ UNCHANGED <<now, acc, periodStart, reports, countedAt, batch>> /\ pc[f] = "email"
        /\ pc'[f] = "flushed" /\ \A u \in Task \ {f} : pc'[u] = pc[u]
    BY <1>t, <1>f, <1>5 DEF FlushFails, TypeOK
  <2>2. \A g \in Flush : pc'[g] # "email"
    BY <1>t, <1>f, <2>1 DEF Locked
  <2>3. \A e \in Event : Counted(e)' <=> Counted(e)
    BY <1>d, <2>1 DEF Counted
  <2> QED
    BY <2>1, <2>2, <2>3 DEF Windowed, Pending
<1>6. ASSUME NEW e \in Event, Collect(e) PROVE Windowed'
  <2>1. /\ pc[e] = "waiting" /\ pc'[e] = "counted" /\ Head(accLock) = e
        /\ \A u \in Task \ {e} : pc'[u] = pc[u]
        /\ countedAt'[e] = now /\ \A u \in Event \ {e} : countedAt'[u] = countedAt[u]
        /\ UNCHANGED <<now, periodStart, draft, reports, batch>>
        /\ DOMAIN acc' = DOMAIN acc \cup {Signature(e)}
    BY <1>t, <1>d, <1>6 DEF Collect, HoldsAcc, WithRecord, TypeOK
  <2>2. \A f \in Flush : pc'[f] # "email"
    BY <1>t, <1>d, <1>f, <2>1 DEF Locked
  <2>3. batch[e] = 0 /\ Counted(e)'
    BY <2>1 DEF Windowed, Counted
  <2>4. \A u \in Event \ {e} : Counted(u)' <=> Counted(u)
    BY <1>d, <2>1 DEF Counted
  <2>5. ASSUME NEW u \in Event
        PROVE  /\ batch'[u] # 0 => Counted(u)'
               /\ countedAt'[u] <= now'
               /\ Pending(u)' => Signature(u) \in DOMAIN acc' /\ countedAt'[u] >= periodStart'
               /\ batch'[u] # 0 => /\ countedAt'[u] >= reports'[batch'[u]].start
                                   /\ countedAt'[u] <= reports'[batch'[u]].end
    <3>1. CASE u = e
      BY <1>n, <2>1, <2>3, <3>1 DEF Windowed, Signature
    <3>2. CASE u # e
      BY <2>1, <2>4, <3>2 DEF Windowed, Pending, Signature
    <3> QED
      BY <3>1, <3>2
  <2> QED
    BY <2>1, <2>2, <2>5 DEF Windowed
<1>7. ASSUME NEW f \in Flush, FlushNothing(f) PROVE Windowed'
  <2>1. /\ pc[f] = "waiting" /\ pc'[f] = "flushed" /\ Head(accLock) = f
        /\ \A u \in Task \ {f} : pc'[u] = pc[u]
        /\ UNCHANGED <<now, acc, draft, reports, countedAt, batch>>
        /\ periodStart' = now /\ DOMAIN acc = {}
    BY <1>t, <1>f, <1>7 DEF FlushNothing, HoldsAcc, NoRecords, TypeOK
  <2>2. \A g \in Flush : pc'[g] # "email"
    BY <1>t, <1>f, <2>1 DEF Locked
  <2>3. \A e \in Event : ~Pending(e)
    BY <2>1 DEF Windowed
  <2>4. \A e \in Event : Counted(e)' <=> Counted(e)
    BY <1>d, <2>1 DEF Counted
  <2>5. \A i \in 1 .. Len(reports) : reports[i].end <= now
    BY <1>n DEF Windowed, Time
  <2> QED
    BY <1>n, <2>1, <2>2, <2>3, <2>4, <2>5 DEF Windowed, Pending
<1>8. ASSUME NEW f \in Flush, TakeFigures(f) PROVE Windowed'
  <2>1. /\ pc[f] = "waiting" /\ pc'[f] = "email" /\ Head(accLock) = f
        /\ \A u \in Task \ {f} : pc'[u] = pc[u]
        /\ UNCHANGED <<now, acc, periodStart, reports, countedAt, batch>>
        /\ draft'.end = now
    BY <1>t, <1>f, <1>8 DEF TakeFigures, HoldsAcc, TypeOK
  <2>2. \A e \in Event : Counted(e)' <=> Counted(e)
    BY <1>d, <2>1 DEF Counted
  <2> QED
    BY <1>n, <2>1, <2>2 DEF Windowed, Pending
<1>9. ASSUME NEW f \in Flush, FinishFlush(f) PROVE Windowed'
  <2> DEFINE r == [start |-> periodStart, end |-> draft.end, figures |-> draft]
             l == Len(reports)
  <2>1. /\ pc[f] = "email" /\ pc'[f] = "flushed" /\ \A u \in Task \ {f} : pc'[u] = pc[u]
        /\ reports' = Append(reports, r) /\ periodStart' = draft.end
        /\ UNCHANGED <<now, countedAt>>
        /\ \A e \in Event : batch'[e] = IF Pending(e) THEN l + 1 ELSE batch[e]
    BY <1>t, <1>f, <1>9 DEF FinishFlush, NextPeriod, Pending, TypeOK
  <2>2. r.end = draft.end /\ r.start = periodStart
    OBVIOUS
  <2> HIDE DEF r
  <2>3. /\ l \in Nat /\ Len(reports') = l + 1 /\ reports'[l + 1] = r
        /\ \A i \in 1 .. l : reports'[i] = reports[i]
    BY <2>1, ReportAdded
  <2> HIDE DEF l
  <2>4. /\ periodStart <= draft.end /\ draft.end <= now
        /\ \A e \in Event : Pending(e) => countedAt[e] <= draft.end
    BY <2>1 DEF Windowed
  <2>5. \A g \in Flush : pc'[g] # "email"
    BY <1>t, <1>f, <2>1 DEF Locked
  <2>6. \A e \in Event : Counted(e)' <=> Counted(e)
    BY <1>d, <2>1 DEF Counted
  <2>7. \A e \in Event : batch[e] \in 0 .. l
    BY <1>t DEF TypeOK, l
  <2>8. ASSUME NEW e \in Event
        PROVE  /\ batch'[e] # 0 => Counted(e)'
               /\ countedAt'[e] <= now'
               /\ ~Pending(e)'
               /\ batch'[e] # 0 => /\ countedAt'[e] >= reports'[batch'[e]].start
                                   /\ countedAt'[e] <= reports'[batch'[e]].end
    <3>1. CASE Pending(e)
      BY <1>n, <2>1, <2>2, <2>3, <2>4, <2>6, <3>1 DEF Windowed, Pending
    <3>2. CASE ~Pending(e)
      BY <2>1, <2>3, <2>6, <2>7, <3>2 DEF Windowed, Pending
    <3> QED
      BY <3>1, <3>2
  <2>9. ASSUME NEW i \in 1 .. Len(reports')
        PROVE  /\ reports'[i].end <= periodStart' /\ reports'[i].end \in Time
               /\ \A j \in 1 .. i - 1 : reports'[j].end <= reports'[i].start
    <3>1. \A j \in 1 .. l : reports[j].end <= periodStart /\ reports[j].end \in Nat
      BY DEF Windowed, l, Time
    <3>2. CASE i = l + 1
      BY <1>t, <1>n, <2>1, <2>2, <2>3, <2>4, <3>1, <3>2 DEF TypeOK
    <3>3. CASE i \in 1 .. l
      <4>1. \A j \in 1 .. i - 1 : j \in 1 .. l
        BY <2>3, <3>3
      <4> QED
        BY <1>n, <2>1, <2>3, <2>4, <3>1, <3>3, <4>1 DEF Windowed, l
    <3> QED
      BY <2>3, <3>2, <3>3
  <2> QED
    BY <2>1, <2>4, <2>5, <2>8, <2>9 DEF Windowed
<1> QED
  BY <1>2, <1>3, <1>4, <1>5, <1>6, <1>7, <1>8, <1>9 DEF Next, EventStep, FlushStep, Quiescent

\* However events, flushes and their locks interleave, each event is in the
\* report whose window holds it, and the windows do not overlap.
THEOREM WindowsHold == Spec => []InItsWindow
<1>1. Init => Kept /\ Windowed
  BY KeptInit, WindowedInit
<1>2. Kept /\ Windowed /\ [Next]_vars => (Kept /\ Windowed)'
  BY TypeStep, ListedStep, LockedStep, WindowedStep DEF Kept
<1>3. Windowed => InItsWindow
  BY DEF Windowed, InItsWindow, Pending
<1> QED
  BY <1>1, <1>2, <1>3, PTL DEF Spec
-----------------------------------------------------------------------------
(* The order of the events: both locks are handed on in the order of the    *)
(* requests, so events are counted in the order in which they were fired,   *)
(* whatever times they count with.                                          *)

\* No task is in line twice, and events stand in the order they were fired in.
Ordered(line, st) ==
  \A i, j \in 1 .. Len(line) : i < j =>
    /\ line[i] # line[j]
    /\ line[i] \in Event /\ line[j] \in Event => st[line[i]] <= st[line[j]]

LEMMA OrderedAppend ==
  ASSUME NEW S, NEW s \in Seq(S), NEW y \in S, NEW st, NEW st2, Ordered(s, st), ~In(s, y),
         \A x \in S : In(s, x) => st2[x] = st[x],
         \A x \in S : In(s, x) /\ x \in Event /\ y \in Event => st2[x] <= st2[y]
  PROVE  /\ Ordered(Append(s, y), st2)
         /\ \A x : In(Append(s, y), x) => In(s, x) \/ x = y
<1> DEFINE a == Append(s, y)
           l == Len(s)
<1>1. /\ l \in Nat /\ Len(a) = l + 1 /\ a[l + 1] = y /\ \A k \in 1 .. l : a[k] = s[k]
  BY AppendProperties
<1>2. \A k \in 1 .. l : s[k] \in S /\ In(s, s[k])
  BY DEF In
<1> HIDE DEF a, l
<1>3. \A k \in 1 .. l + 1 : k \in 1 .. l \/ k = l + 1
  BY <1>1
<1>4. ASSUME NEW i \in 1 .. l, NEW j \in 1 .. l, i < j
      PROVE  /\ a[i] # a[j]
             /\ a[i] \in Event /\ a[j] \in Event => st2[a[i]] <= st2[a[j]]
  BY <1>1, <1>2, <1>4 DEF Ordered, l
<1>5. ASSUME NEW i \in 1 .. l
      PROVE  a[i] # y /\ (a[i] \in Event /\ y \in Event => st2[a[i]] <= st2[y])
  BY <1>1, <1>2
<1>6. ASSUME NEW i \in 1 .. l + 1, NEW j \in 1 .. l + 1, i < j
      PROVE  /\ a[i] # a[j]
             /\ a[i] \in Event /\ a[j] \in Event => st2[a[i]] <= st2[a[j]]
  <2>1. i \in 1 .. l
    BY <1>1, <1>6
  <2> QED
    BY <1>1, <1>3, <1>4, <1>5, <1>6, <2>1
<1>7. Ordered(a, st2)
  BY <1>1, <1>6 DEF Ordered
<1>8. \A x : In(a, x) => In(s, x) \/ x = y
  BY <1>1, <1>3 DEF In, l
<1> QED
  BY <1>7, <1>8 DEF a

LEMMA OrderedTail ==
  ASSUME NEW S, NEW s \in Seq(S), Len(s) > 0, NEW st, Ordered(s, st)
  PROVE  /\ Ordered(Tail(s), st)
         /\ In(s, Head(s)) /\ ~In(Tail(s), Head(s))
         /\ \A x : In(Tail(s), x) =>
              /\ In(s, x)
              /\ Head(s) \in Event /\ x \in Event => st[Head(s)] <= st[x]
<1>1. s # <<>> /\ Head(s) = s[1] /\ Len(s) \in Nat
  OBVIOUS
<1>2. /\ Len(Tail(s)) = Len(s) - 1
      /\ \A k \in 1 .. Len(Tail(s)) : Tail(s)[k] = s[k + 1]
  BY <1>1, HeadTailProperties
<1>3. \A k \in 1 .. Len(Tail(s)) : k + 1 \in 1 .. Len(s) /\ 1 < k + 1
  BY <1>1, <1>2
<1>4. 1 \in 1 .. Len(s)
  BY <1>1
<1>5. ASSUME NEW i \in 1 .. Len(Tail(s)), NEW j \in 1 .. Len(Tail(s)), i < j
      PROVE  /\ Tail(s)[i] # Tail(s)[j]
             /\ Tail(s)[i] \in Event /\ Tail(s)[j] \in Event =>
                  st[Tail(s)[i]] <= st[Tail(s)[j]]
  <2>1. i + 1 < j + 1
    BY <1>5
  <2> QED
    BY <1>2, <1>3, <2>1 DEF Ordered
<1>6. ASSUME NEW k \in 1 .. Len(Tail(s))
      PROVE  /\ Tail(s)[k] # Head(s) /\ In(s, Tail(s)[k])
             /\ Head(s) \in Event /\ Tail(s)[k] \in Event => st[Head(s)] <= st[Tail(s)[k]]
  BY <1>1, <1>2, <1>3, <1>4 DEF Ordered, In
<1> QED
  BY <1>1, <1>4, <1>5, <1>6 DEF Ordered, In

InLog(e) == In(logLock, e)
InAcc(t) == In(accLock, t)

Waits(e) == InLog(e) \/ InAcc(e)

\* Who is in line, in which order, and that the buffer holds older events.
InOrder ==
  /\ \A e \in Event : InLog(e) => pc[e] = "writing"
  /\ \A t \in Task : InAcc(t) => pc[t] \in {"waiting", "email"}
  /\ Ordered(logLock, order) /\ Ordered(accLock, order)
  /\ \A e \in Event : stamp[e] <= now /\ order[e] <= fires
  /\ \A d, e \in Event : InAcc(d) /\ InLog(e) => order[d] <= order[e]
  /\ \A d, e \in Event : Pending(d) /\ Waits(e) => order[d] <= order[e]

LEMMA InOrderInit == Init => InOrder
<1> SUFFICES ASSUME Init PROVE InOrder
  OBVIOUS
<1>1. /\ logLock = <<>> /\ accLock = <<>> /\ now = 0 /\ fires = 0
      /\ \A e \in Event : stamp[e] = 0 /\ order[e] = 0
  BY DEF Init
<1>2. \A t : ~InLog(t) /\ ~InAcc(t)
  BY <1>1 DEF In, InLog, InAcc
<1>3. Ordered(logLock, order) /\ Ordered(accLock, order)
  BY <1>1 DEF Ordered
<1> QED
  BY <1>1, <1>2, <1>3 DEF InOrder, Waits

\* When the head of _acc_lock leaves, and nothing is added to the buffer.
LEMMA LeaveAcc ==
  ASSUME Kept, InOrder, NEW t \in Task, Head(accLock) = t, Len(accLock) > 0,
         accLock' = Tail(accLock), \A u \in Task \ {t} : pc'[u] = pc[u],
         t \notin Event, UNCHANGED <<now, stamp, fires, order, logLock>>,
         \A e \in Event : Pending(e)' => Pending(e)
  PROVE  InOrder'
<1>1. accLock \in Seq(Task) /\ \A e \in Event : e \in Task
  BY DEF Kept, TypeOK, Task
<1>2. /\ Ordered(accLock', order)
      /\ ~InAcc(t)' /\ \A x : InAcc(x)' => InAcc(x)
  BY <1>1, OrderedTail DEF InOrder, InAcc
<1>3. \A x : InLog(x)' <=> InLog(x)
  BY DEF InLog
<1> QED
  BY <1>1, <1>2, <1>3 DEF InOrder, Waits

LEMMA InOrderStep == Kept /\ Windowed /\ InOrder /\ [Next]_vars => InOrder'
<1> SUFFICES ASSUME Kept, Windowed, InOrder, [Next]_vars PROVE InOrder'
  OBVIOUS
<1>t. TypeOK /\ Locked /\ accLock \in Seq(Task) /\ logLock \in Seq(Event)
  BY DEF Kept, TypeOK
<1>n. now \in Nat /\ fires \in Nat /\ \A e \in Event : stamp[e] \in Nat /\ order[e] \in Nat
  BY <1>t DEF TypeOK, Time
<1>d. \A e \in Event : e \in Task /\ e \notin Flush
  BY TasksAssumption DEF Task
<1>f. \A f \in Flush : f \in Task /\ f \notin Event
  BY TasksAssumption DEF Task
<1>1. CASE Tick \/ RemoveHandler \/ UNCHANGED vars
  <2>1. /\ UNCHANGED <<pc, stamp, fires, order, logLock, accLock, batch>>
        /\ now <= now' /\ now' \in Nat
    BY <1>n, <1>1 DEF Tick, RemoveHandler, vars
  <2>2. \A e \in Event : stamp[e] <= now'
    BY <1>n, <2>1 DEF InOrder
  <2> QED
    BY <2>1, <2>2 DEF InOrder, Waits, InLog, InAcc, Pending, Counted
<1>2. ASSUME NEW e \in Event, Fire(e) PROVE InOrder'
  <2>1. /\ pc[e] = "new" /\ pc'[e] = "writing" /\ stamp'[e] \in 0 .. now
        /\ fires' = fires + 1 /\ order'[e] = fires + 1
        /\ logLock' = Append(logLock, e) /\ UNCHANGED <<now, accLock, batch>>
        /\ \A u \in Task \ {e} : pc'[u] = pc[u]
        /\ \A u \in Event \ {e} : stamp'[u] = stamp[u] /\ order'[u] = order[u]
    BY <1>t, <1>d, <1>2 DEF Fire, TypeOK
  <2>2. ~InLog(e) /\ ~InAcc(e)
    BY <1>d, <2>1 DEF InOrder
  <2>9. \A u \in Event : stamp'[u] <= now' /\ order'[u] <= fires' /\ order'[u] <= order'[e]
    BY <1>n, <2>1 DEF InOrder
  <2>3. /\ Ordered(logLock', order')
        /\ \A x : InLog(x)' => InLog(x) \/ x = e
    <3>1. \A u \in Event : In(logLock, u) => order'[u] = order[u]
      BY <2>1, <2>2 DEF InLog
    <3> QED
      BY <1>t, <2>1, <2>2, <2>9, <3>1, OrderedAppend DEF InOrder, InLog
  <2>4. \A x : InAcc(x)' <=> InAcc(x)
    BY <2>1 DEF InAcc
  <2>5. Ordered(accLock', order')
    <3>2. \A i \in 1 .. Len(accLock) : accLock[i] # e
      BY <2>2 DEF InAcc, In
    <3>3. \A i \in 1 .. Len(accLock) : accLock[i] \in Event => order'[accLock[i]] = order[accLock[i]]
      BY <2>1, <3>2
    <3> QED
      BY <2>1, <3>3 DEF InOrder, Ordered
  <2>6. \A d \in Event : Pending(d)' => Pending(d) /\ d # e
    BY <1>d, <2>1 DEF Pending, Counted
  <2>7. \A u, v \in Event : (InAcc(u)' \/ Pending(u)') /\ v # e /\ Waits(v)' =>
          u # e /\ Waits(v) /\ (InLog(v)' => InLog(v)) /\ (InAcc(u)' => InAcc(u))
    BY <2>2, <2>3, <2>4, <2>6 DEF Waits
  <2>8. \A u, v \in Event : InAcc(u)' /\ InLog(v)' => order'[u] <= order'[v]
    BY <2>1, <2>7, <2>9 DEF InOrder, Waits
  <2>10. \A u, v \in Event : Pending(u)' /\ Waits(v)' => order'[u] <= order'[v]
    BY <2>1, <2>6, <2>7, <2>9 DEF InOrder
  <2>11. /\ \A u \in Event : InLog(u)' => pc'[u] = "writing"
         /\ \A t \in Task : InAcc(t)' => pc'[t] \in {"waiting", "email"}
    BY <1>d, <2>1, <2>2, <2>3, <2>4 DEF InOrder
  <2> QED
    BY <2>3, <2>5, <2>8, <2>9, <2>10, <2>11 DEF InOrder
<1>3. ASSUME NEW e \in Event, RawLineDone(e) PROVE InOrder'
  <2>1. /\ pc[e] = "writing" /\ logLock' = Tail(logLock) /\ Head(logLock) = e
        /\ \/ pc'[e] = "ignored" /\ UNCHANGED accLock
           \/ pc'[e] = "waiting" /\ accLock' = Append(accLock, e)
        /\ \A u \in Task \ {e} : pc'[u] = pc[u]
        /\ UNCHANGED <<now, fires, order, batch>>
        /\ stamp' \in {stamp, [stamp EXCEPT ![e] = now]}
    BY <1>t, <1>d, <1>3 DEF RawLineDone, HoldsLog, TypeOK
  <2>2. Len(logLock) > 0 /\ ~InAcc(e)
    BY <1>d, <2>1, LineNotEmpty DEF InOrder
  <2>3. /\ Ordered(logLock', order) /\ InLog(e) /\ ~InLog(e)'
        /\ \A x \in Event : InLog(x)' => InLog(x) /\ order[e] <= order[x]
    BY <1>t, <2>1, <2>2, OrderedTail DEF InOrder, InLog
  <2>6. \A u \in Event : stamp'[u] <= now
    <3>1. \A u \in Event : stamp'[u] \in {stamp[u], now}
      BY <1>t, <2>1 DEF TypeOK
    <3> QED
      BY <1>n, <3>1 DEF InOrder
  <2>7. \A d \in Event : Pending(d)' <=> Pending(d)
    BY <1>d, <2>1 DEF Pending, Counted
  <2>4. CASE pc'[e] = "ignored" /\ UNCHANGED accLock
    <3>1. \A x : InAcc(x)' <=> InAcc(x)
      BY <2>4 DEF InAcc
    <3> QED
      BY <1>d, <2>1, <2>2, <2>3, <2>4, <2>6, <2>7, <3>1 DEF InOrder, Waits
  <2>5. CASE pc'[e] = "waiting" /\ accLock' = Append(accLock, e)
    <3>1. \A x \in Event : In(accLock, x) => order[x] <= order[e]
      BY <2>3 DEF InOrder, InAcc
    <3>2. /\ Ordered(accLock', order)
          /\ \A x : InAcc(x)' => InAcc(x) \/ x = e
      BY <1>t, <1>d, <2>2, <2>5, <3>1, OrderedAppend DEF InOrder, InAcc
    <3>3. \A d \in Event : Pending(d) => order[d] <= order[e]
      BY <2>3 DEF InOrder, Waits
    <3>4. \A u, v \in Event : InAcc(u)' /\ InLog(v)' => order[u] <= order[v]
      BY <2>3, <3>2 DEF InOrder
    <3>5. \A u, v \in Event : Pending(u)' /\ Waits(v)' => order[u] <= order[v]
      BY <2>3, <2>7, <3>2, <3>3 DEF InOrder, Waits
    <3>6. /\ \A u \in Event : InLog(u)' => pc'[u] = "writing"
          /\ \A t \in Task : InAcc(t)' => pc'[t] \in {"waiting", "email"}
      BY <1>d, <2>1, <2>3, <2>5, <3>2 DEF InOrder
    <3> QED
      BY <2>1, <2>3, <2>6, <3>2, <3>4, <3>5, <3>6 DEF InOrder
  <2> QED
    BY <2>1, <2>4, <2>5
<1>4. ASSUME NEW e \in Event, Collect(e) PROVE InOrder'
  <2>1. /\ pc[e] = "waiting" /\ accLock' = Tail(accLock) /\ Head(accLock) = e
        /\ \A u \in Task \ {e} : pc'[u] = pc[u]
        /\ UNCHANGED <<now, stamp, fires, order, logLock, batch>>
    BY <1>t, <1>d, <1>4 DEF Collect, HoldsAcc, TypeOK
  <2>2. Len(accLock) > 0 /\ ~InLog(e)
    BY <1>d, <2>1, LineNotEmpty DEF InOrder
  <2>3. /\ Ordered(accLock', order) /\ InAcc(e) /\ ~InAcc(e)'
        /\ \A x \in Event : InAcc(x)' => InAcc(x) /\ order[e] <= order[x]
        /\ \A x : InAcc(x)' => InAcc(x)
    BY <1>t, <2>1, <2>2, OrderedTail DEF InOrder, InAcc
  <2>4. \A x : InLog(x)' <=> InLog(x)
    BY <2>1 DEF InLog
  <2>5. \A x \in Event : Waits(x)' => Waits(x) /\ order[e] <= order[x]
    BY <2>3, <2>4 DEF InOrder, Waits
  <2>6. \A d \in Event : Pending(d)' => Pending(d) \/ d = e
    BY <1>d, <2>1 DEF Pending, Counted
  <2>7. \A d, x \in Event : Pending(d)' /\ Waits(x)' => order[d] <= order[x]
    BY <2>5, <2>6 DEF InOrder
  <2>8. /\ \A u \in Event : InLog(u)' => pc'[u] = "writing"
        /\ \A t \in Task : InAcc(t)' => pc'[t] \in {"waiting", "email"}
    BY <1>d, <2>1, <2>2, <2>3, <2>4 DEF InOrder
  <2>9. \A u, v \in Event : InAcc(u)' /\ InLog(v)' => order[u] <= order[v]
    BY <2>3, <2>4 DEF InOrder
  <2> QED
    BY <2>1, <2>3, <2>7, <2>8, <2>9 DEF InOrder
<1>5. ASSUME NEW f \in Flush, StartFlush(f) PROVE InOrder'
  <2>1. /\ pc[f] = "new" /\ pc'[f] = "waiting" /\ accLock' = Append(accLock, f)
        /\ UNCHANGED <<now, stamp, fires, order, logLock, batch>>
        /\ \A u \in Task \ {f} : pc'[u] = pc[u]
    BY <1>t, <1>f, <1>5 DEF StartFlush, TypeOK
  <2>2. ~InAcc(f)
    BY <1>f, <2>1 DEF InOrder
  <2>3. /\ Ordered(accLock', order)
        /\ \A x : InAcc(x)' => InAcc(x) \/ x = f
    BY <1>t, <1>f, <2>1, <2>2, OrderedAppend DEF InOrder, InAcc
  <2>4. \A x : InLog(x)' <=> InLog(x)
    BY <2>1 DEF InLog
  <2>5. \A e \in Event : (Pending(e)' <=> Pending(e)) /\ (Waits(e)' => Waits(e))
    BY <1>d, <2>1, <2>3, <2>4 DEF Pending, Counted, Waits
  <2> QED
    BY <1>d, <1>f, <2>1, <2>3, <2>4, <2>5 DEF InOrder
<1>6. ASSUME NEW f \in Flush, TakeFigures(f) PROVE InOrder'
  <2>1. /\ pc[f] = "waiting" /\ pc'[f] = "email"
        /\ UNCHANGED <<now, stamp, fires, order, logLock, accLock, batch>>
        /\ \A u \in Task \ {f} : pc'[u] = pc[u]
    BY <1>t, <1>f, <1>6 DEF TakeFigures, TypeOK
  <2> QED
    BY <1>d, <1>f, <2>1 DEF InOrder, InLog, InAcc, Waits, Pending, Counted
<1>7. ASSUME NEW f \in Flush, FlushNothing(f) \/ FinishFlush(f) \/ FlushFails(f)
      PROVE  InOrder'
  <2>1. /\ pc[f] \in {"waiting", "email"} /\ accLock' = Tail(accLock) /\ Head(accLock) = f
        /\ UNCHANGED <<now, stamp, fires, order, logLock>>
        /\ \A u \in Task \ {f} : pc'[u] = pc[u]
    BY <1>t, <1>f, <1>7 DEF FlushNothing, FinishFlush, FlushFails, HoldsAcc, ReleaseAcc,
                            Locked, TypeOK
  <2>2. \A e \in Event : Pending(e)' => Pending(e)
    <3>1. Len(reports) \in Nat
      BY DEF Kept, Listed
    <3>2. \A e \in Event : (Counted(e)' <=> Counted(e)) /\ (batch'[e] = 0 => batch[e] = 0)
      BY <1>t, <1>d, <1>7, <2>1, <3>1 DEF FlushNothing, FinishFlush, FlushFails, Counted, TypeOK
    <3> QED
      BY <3>2 DEF Pending
  <2>3. Len(accLock) > 0
    BY <1>f, <2>1, LineNotEmpty
  <2> QED
    BY <1>f, <2>1, <2>2, <2>3, LeaveAcc
<1> QED
  BY <1>1, <1>2, <1>3, <1>4, <1>5, <1>6, <1>7 DEF Next, EventStep, FlushStep, Quiescent
-----------------------------------------------------------------------------
(* The figures: counting an occurrence more.                               *)

Occ(a, S) == UNION {{s} \X (1 .. a[s].count) : s \in S}

LEMMA InOcc ==
  ASSUME NEW a, NEW S
  PROVE  \A p : p \in Occ(a, S) <=> \E s \in S : \E k \in 1 .. a[s].count : p = <<s, k>>
BY DEF Occ

\* Only the counts matter.
LEMMA OccSame ==
  ASSUME NEW a, NEW b, NEW S, \A s \in S : a[s].count = b[s].count
  PROVE  Occ(a, S) = Occ(b, S)
<1>1. \A p : p \in Occ(a, S) <=> p \in Occ(b, S)
  BY InOcc
<1> QED
  BY <1>1

\* One more under c, which a has not or has counted n times.
LEMMA OccAdd ==
  ASSUME NEW a, NEW b, NEW S, NEW c, NEW n \in Nat, IsFiniteSet(Occ(a, S)),
         c \in S => a[c].count = n, c \notin S => n = 0, b[c].count = n + 1,
         \A s \in S \ {c} : b[s].count = a[s].count
  PROVE  /\ IsFiniteSet(Occ(b, S \cup {c}))
         /\ Cardinality(Occ(b, S \cup {c})) = Cardinality(Occ(a, S)) + 1
<1> DEFINE p0 == <<c, n + 1>>
<1>1. p0 \notin Occ(a, S)
  BY InOcc
<1>2. ASSUME NEW p, p \in Occ(b, S \cup {c}) PROVE p \in Occ(a, S) \cup {p0}
  <2>1. PICK s \in S \cup {c} : \E k \in 1 .. b[s].count : p = <<s, k>>
    BY <1>2, InOcc
  <2>k. PICK k \in 1 .. b[s].count : p = <<s, k>>
    BY <2>1
  <2>2. CASE s = c
    <3>1. k \in 1 .. n \/ k = n + 1
      BY <2>k, <2>2
    <3>2. k \in 1 .. n => c \in S
      OBVIOUS
    <3> QED
      BY <2>k, <2>2, <3>1, <3>2, InOcc
  <2>3. CASE s # c
    BY <2>k, <2>3, InOcc
  <2> QED
    BY <2>2, <2>3
<1>3. ASSUME NEW p, p \in Occ(a, S) PROVE p \in Occ(b, S \cup {c})
  <2>1. PICK s \in S : \E k \in 1 .. a[s].count : p = <<s, k>>
    BY <1>3, InOcc
  <2>k. PICK k \in 1 .. a[s].count : p = <<s, k>>
    BY <2>1
  <2>2. k \in 1 .. b[s].count
    BY <2>k
  <2> QED
    BY <2>k, <2>2, InOcc
<1>4. p0 \in Occ(b, S \cup {c})
  <2>1. n + 1 \in 1 .. b[c].count
    OBVIOUS
  <2> QED
    BY <2>1, InOcc
<1>5. Occ(b, S \cup {c}) = Occ(a, S) \cup {p0}
  BY <1>2, <1>3, <1>4
<1> HIDE DEF p0
<1>6. /\ IsFiniteSet(Occ(a, S) \cup {p0})
      /\ Cardinality(Occ(a, S) \cup {p0}) = Cardinality(Occ(a, S)) + 1
  BY <1>1, FS_AddElement
<1> QED
  BY <1>5, <1>6

PendingEvents == {e \in Event : Pending(e)}

\* Of some events those of one signature
Alike(E, s) == {e \in E : Signature(e) = s}

\* A record tells of the pending events of its signature.
Told(s) ==
  /\ acc[s].count = Cardinality(Alike(PendingEvents, s))
  /\ IsFirst(acc[s].first, Alike(PendingEvents, s))
  /\ IsLast(acc[s].last, Alike(PendingEvents, s))

\* The buffer has the signatures of the pending events, and counts each once.
Tallied ==
  /\ acc = [s \in DOMAIN acc |-> acc[s]]
  /\ IsFiniteSet(PendingEvents)
  /\ DOMAIN acc = {Signature(e) : e \in PendingEvents}
  /\ IsFiniteSet(Occurrences(DOMAIN acc))
  /\ Sum(DOMAIN acc) = Cardinality(PendingEvents)
  /\ \A s \in DOMAIN acc : Told(s)

\* What a flush has taken is still what the buffer holds.
Drawn ==
  \A f \in Flush : pc[f] = "email" =>
    /\ DOMAIN acc # {}
    /\ draft.total = Sum(DOMAIN acc)
    /\ draft.unique = Cardinality(DOMAIN acc)
    /\ draft.byLevel = [l \in Level |-> Sum(OfLevel(l))]
    /\ DOMAIN draft.top \subseteq DOMAIN acc
    /\ \A s \in DOMAIN draft.top :
         draft.top[s] = acc[s] /\ acc[s].first <= draft.end /\ acc[s].last <= draft.end
    /\ \A s \in DOMAIN draft.top, u \in DOMAIN acc \ DOMAIN draft.top :
         acc[s].count >= acc[u].count

LEMMA TalliedInit == Init => Tallied /\ Drawn
<1> SUFFICES ASSUME Init PROVE Tallied /\ Drawn
  OBVIOUS
<1>1. /\ acc = <<>> /\ DOMAIN acc = {} /\ \A t \in Task : pc[t] = "new"
  BY DEF Init, NoRecords
<1>2. acc = [s \in DOMAIN acc |-> acc[s]]
  BY <1>1
<1>3. PendingEvents = {}
  BY <1>1 DEF PendingEvents, Pending, Counted, Task
<1>4. Occurrences(DOMAIN acc) = {}
  BY <1>1 DEF Occurrences
<1>5. Tallied
  BY <1>1, <1>2, <1>3, <1>4, FS_EmptySet DEF Tallied, Sum
<1>6. Drawn
  BY <1>1 DEF Drawn, Task
<1> QED
  BY <1>5, <1>6

\* An event joins the pending ones and is counted under its signature.
LEMMA CountOne ==
  ASSUME Kept, Windowed, InOrder, Tallied, NEW e \in Event, Collect(e)
  PROVE  Tallied'
<1>t. TypeOK
  BY DEF Kept
<1>1. /\ pc[e] = "waiting" /\ pc'[e] = "counted" /\ acc' = WithRecord(e)
      /\ \A u \in Task \ {e} : pc'[u] = pc[u]
      /\ UNCHANGED <<stamp, order, batch>>
  BY <1>t DEF Collect, TypeOK, Task
<1>2. PendingEvents' = PendingEvents \cup {e} /\ e \notin PendingEvents
  BY <1>1 DEF PendingEvents, Pending, Counted, Windowed, Task
<1>3. /\ IsFiniteSet(PendingEvents') /\ Cardinality(PendingEvents) \in Nat
      /\ Cardinality(PendingEvents') = Cardinality(PendingEvents) + 1
  BY <1>2, FS_AddElement, FS_CardinalityType DEF Tallied
<1> DEFINE c == Signature(e)
           n == IF c \in DOMAIN acc THEN acc[c].count ELSE 0
<1>4. n \in Nat /\ \A s \in DOMAIN acc : acc[s].count \in Nat
  BY <1>t DEF TypeOK, Entry
<1>5. /\ DOMAIN acc' = DOMAIN acc \cup {c}
      /\ acc' = [s \in DOMAIN acc' |-> acc'[s]]
      /\ acc'[c].count = n + 1
      /\ \A s \in DOMAIN acc \ {c} : acc'[s] = acc[s]
  <2>1. Record(e).count = n + 1
    BY DEF Record
  <2> HIDE DEF n
  <2> QED
    BY <1>1, <2>1 DEF WithRecord
<1> HIDE DEF n
<1>6. DOMAIN acc' = {Signature(u) : u \in PendingEvents'}
  BY <1>2, <1>5 DEF Tallied
<1>7. /\ c \in DOMAIN acc => acc[c].count = n
      /\ c \notin DOMAIN acc => n = 0
  BY DEF n
<1>8. /\ IsFiniteSet(Occurrences(DOMAIN acc)')
      /\ Cardinality(Occurrences(DOMAIN acc)') = Cardinality(Occurrences(DOMAIN acc)) + 1
  <2>1. IsFiniteSet(Occ(acc, DOMAIN acc))
    BY DEF Tallied, Occurrences, Occ
  <2>2. /\ IsFiniteSet(Occ(acc', DOMAIN acc \cup {c}))
        /\ Cardinality(Occ(acc', DOMAIN acc \cup {c})) = Cardinality(Occ(acc, DOMAIN acc)) + 1
    <3> HIDE DEF c
    <3> QED
      BY <1>4, <1>5, <1>7, <2>1, OccAdd
  <2> QED
    BY <1>5, <2>2 DEF Occurrences, Occ
<1>9. Sum(DOMAIN acc)' = Cardinality(PendingEvents')
  BY <1>3, <1>8 DEF Sum, Tallied
<1>10. ASSUME NEW s \in DOMAIN acc' PROVE Told(s)'
  <2>1. CASE s = c
    <3>1. Alike(PendingEvents, s)' = Alike(PendingEvents, s) \cup {e} /\ e \notin Alike(PendingEvents, s)
      BY <1>2, <2>1 DEF Alike, Signature
    <3>2. IsFiniteSet(Alike(PendingEvents, s))
      BY FS_Subset DEF Alike, Tallied
    <3>3. Cardinality(Alike(PendingEvents, s)') = Cardinality(Alike(PendingEvents, s)) + 1
      BY <3>1, <3>2, FS_AddElement
    <3>4. \A d \in Alike(PendingEvents, s) : d \in Event /\ order[d] <= order[e]
      <4>1. Waits(e)
        BY <1>1 DEF Kept, Locked, Waits, InAcc, Task
      <4> QED
        BY <4>1 DEF Alike, PendingEvents, InOrder
    <3>5. order[e] <= order[e] /\ stamp[e] = stamp[e]
      BY <1>t DEF TypeOK
    <3>6. IsLast(stamp[e], Alike(PendingEvents, s))'
      BY <1>1, <3>1, <3>4, <3>5 DEF IsLast
    <3>7. acc'[s] = Record(e)
      BY <1>1, <2>1 DEF WithRecord
    <3>8. CASE c \in DOMAIN acc
      <4>1. /\ acc[s].count = Cardinality(Alike(PendingEvents, s))
            /\ IsFirst(acc[s].first, Alike(PendingEvents, s))
        BY <2>1, <3>8 DEF Tallied, Told
      <4>2. /\ acc'[s].count = acc[s].count + 1
            /\ acc'[s].first = acc[s].first /\ acc'[s].last = stamp[e]
        BY <2>1, <3>7, <3>8 DEF Record
      <4>3. IsFirst(acc[s].first, Alike(PendingEvents, s))'
        BY <1>1, <3>1, <3>4, <4>1, <4>2 DEF IsFirst
      <4> QED
        BY <1>1, <3>3, <3>6, <4>1, <4>2, <4>3 DEF Told, IsFirst, IsLast
    <3>9. CASE c \notin DOMAIN acc
      <4>1. Alike(PendingEvents, s) = {}
        BY <2>1, <3>9 DEF Tallied, Alike
      <4>2. acc'[s].count = 1 /\ acc'[s].first = stamp[e] /\ acc'[s].last = stamp[e]
        BY <2>1, <3>7, <3>9 DEF Record
      <4>3. IsFirst(stamp[e], Alike(PendingEvents, s))'
        BY <1>1, <3>1, <3>5, <4>1 DEF IsFirst
      <4>4. Cardinality(Alike(PendingEvents, s)) = 0
        BY <4>1, FS_EmptySet
      <4> QED
        BY <1>1, <3>3, <3>6, <4>2, <4>3, <4>4 DEF Told, IsFirst, IsLast
    <3> QED
      BY <3>8, <3>9
  <2>2. CASE s # c
    <3>1. s \in DOMAIN acc /\ acc'[s] = acc[s] /\ Told(s)
      BY <1>5, <2>2 DEF Tallied
    <3>2. Alike(PendingEvents, s)' = Alike(PendingEvents, s)
      BY <1>2, <2>2 DEF Alike, Signature
    <3> QED
      BY <1>1, <3>1, <3>2 DEF Told, IsFirst, IsLast
  <2> QED
    BY <2>1, <2>2
<1> QED
  BY <1>3, <1>5, <1>6, <1>8, <1>9, <1>10 DEF Tallied

\* A flush empties the buffer and, with it, the set of pending events.
LEMMA StartAgain ==
  ASSUME Kept, NEW f \in Flush, FinishFlush(f)
  PROVE  /\ Tallied' /\ Drawn'
         /\ \A e \in Event : Counted(e)' <=> Counted(e)
<1>t. TypeOK /\ Locked
  BY DEF Kept
<1>1. /\ pc[f] = "email" /\ pc'[f] = "flushed" /\ \A u \in Task \ {f} : pc'[u] = pc[u]
      /\ f \in Task
  BY <1>t DEF FinishFlush, TypeOK, Task
<1>2. \A e \in Event : Counted(e)' <=> Counted(e)
  BY <1>1, TasksAssumption DEF Counted, Task
<1>3. \A g \in Flush : pc'[g] # "email"
  BY <1>t, <1>1 DEF Locked, Task
<1>4. Drawn'
  BY <1>3 DEF Drawn
<1>5. PendingEvents' = {}
  <2>1. \A e \in Event : batch'[e] # 0 \/ ~Counted(e)
    <3>1. Len(reports) \in Nat
      BY <1>t, ReportAdded DEF FinishFlush
    <3> QED
      BY <3>1 DEF FinishFlush
  <2> QED
    BY <1>2, <2>1 DEF PendingEvents, Pending
<1>6. acc' = <<>> /\ DOMAIN acc' = {}
  BY DEF FinishFlush, NewBuffer, NoRecords
<1>7. acc' = [s \in DOMAIN acc' |-> acc'[s]]
  BY <1>6
<1>8. Occurrences(DOMAIN acc)' = {}
  BY <1>6 DEF Occurrences
<1>9. Tallied'
  BY <1>5, <1>6, <1>7, <1>8, FS_EmptySet DEF Tallied, Sum
<1> QED
  BY <1>2, <1>4, <1>9

\* Neither the buffer nor what is pending changes.
LEMMA SameTally ==
  ASSUME Tallied, UNCHANGED <<acc, batch>>, \A e \in Event : Counted(e)' <=> Counted(e),
         \A e \in Event : Counted(e) => stamp'[e] = stamp[e] /\ order'[e] = order[e]
  PROVE  Tallied'
<1>1. PendingEvents' = PendingEvents
  BY DEF PendingEvents, Pending
<1>2. Occurrences(DOMAIN acc)' = Occurrences(DOMAIN acc)
  BY DEF Occurrences
<1>3. \A e \in Event : Signature(e)' = Signature(e)
  BY DEF Signature
<1>4. \A s : Told(s)' <=> Told(s)
  <2> SUFFICES ASSUME NEW s PROVE Told(s)' <=> Told(s)
    OBVIOUS
  <2>1. Alike(PendingEvents, s)' = Alike(PendingEvents, s)
    BY <1>1, <1>3 DEF Alike
  <2>2. \A e \in Alike(PendingEvents, s) : stamp'[e] = stamp[e] /\ order'[e] = order[e]
    BY DEF Alike, PendingEvents, Pending
  <2> QED
    BY <2>1, <2>2 DEF Told, IsFirst, IsLast
<1> QED
  BY <1>1, <1>2, <1>3, <1>4 DEF Tallied, Sum

\* The figures taken are the buffer's, and its records are in order.
LEMMA FiguresTaken ==
  ASSUME Kept, InOrder, Tallied, NEW f \in Flush, TakeFigures(f)
  PROVE  Drawn'
<1>1. Sum(DOMAIN acc)' = Sum(DOMAIN acc) /\ \A l : Sum(OfLevel(l))' = Sum(OfLevel(l))
  BY DEF TakeFigures, Sum, Occurrences, OfLevel
<1>2. DOMAIN acc # {}
  <2>1. ASSUME DOMAIN acc = {} PROVE acc = <<>>
    BY <2>1 DEF Tallied
  <2> QED
    BY <2>1 DEF TakeFigures, NoRecords
<1>3. PICK T \in SUBSET DOMAIN acc :
        /\ IsTop(T)
        /\ draft' = [end |-> now, total |-> Sum(DOMAIN acc), unique |-> Cardinality(DOMAIN acc),
                     byLevel |-> [l \in Level |-> Sum(OfLevel(l))], top |-> [s \in T |-> acc[s]]]
  BY DEF TakeFigures
<1>4. /\ draft'.end = now /\ draft'.top = [s \in T |-> acc[s]] /\ acc' = acc
      /\ draft'.total = Sum(DOMAIN acc) /\ draft'.unique = Cardinality(DOMAIN acc)
      /\ draft'.byLevel = [l \in Level |-> Sum(OfLevel(l))]
  BY <1>3 DEF TakeFigures
<1>5. ASSUME NEW s \in DOMAIN acc PROVE acc[s].first <= now /\ acc[s].last <= now
  <2>1. Told(s)
    BY DEF Tallied
  <2>2. \A e \in Alike(PendingEvents, s) : stamp[e] <= now
    BY DEF Alike, PendingEvents, InOrder
  <2> QED
    BY <2>1, <2>2 DEF Told, IsFirst, IsLast
<1>6. \A s \in T, u \in DOMAIN acc \ T : acc[s].count >= acc[u].count
  BY <1>3 DEF IsTop
<1> QED
  BY <1>1, <1>2, <1>3, <1>4, <1>5, <1>6 DEF Drawn

\* While the buffer and the draft are left alone.
LEMMA SameDraft ==
  ASSUME Drawn, UNCHANGED <<acc, draft>>, \A f \in Flush : pc'[f] = "email" => pc[f] = "email"
  PROVE  Drawn'
<1>1. Sum(DOMAIN acc)' = Sum(DOMAIN acc) /\ \A l : Sum(OfLevel(l))' = Sum(OfLevel(l))
  BY DEF Sum, Occurrences, OfLevel
<1> QED
  BY <1>1 DEF Drawn

\* Which events are in a report that is out
Mine(i) == {e \in Event : Counted(e) /\ batch[e] = i}

\* An entry of the summary of the events E that are in a window up to end
EntryFits(r, E, end) ==
  /\ r.count = Cardinality(E)
  /\ IsFirst(r.first, E) /\ r.first <= end
  /\ IsLast(r.last, E) /\ r.last <= end

FigureFits(i) ==
  LET figures == reports[i].figures
      listed == DOMAIN figures.top
  IN /\ figures.total = Cardinality(Mine(i))
     /\ figures.unique = Cardinality({Signature(e) : e \in Mine(i)})
     /\ \A s \in listed : EntryFits(figures.top[s], Alike(Mine(i), s), reports[i].end)
     /\ \A s \in listed, e \in Mine(i) :
          \/ Signature(e) \in listed
          \/ Cardinality(Alike(Mine(i), s)) >= Cardinality(Alike(Mine(i), Signature(e)))

LEMMA AllFit == FiguresFit <=> \A i \in 1 .. Len(reports) : FigureFits(i)
BY DEF FiguresFit, FigureFits, EntryFits, Mine, Alike

\* A report and its events stay as they are.
LEMMA SameFigures ==
  ASSUME NEW i, FigureFits(i), reports'[i] = reports[i], Mine(i)' = Mine(i),
         \A e \in Mine(i) : stamp'[e] = stamp[e] /\ order'[e] = order[e]
  PROVE  FigureFits(i)'
<1>1. \A e : Signature(e)' = Signature(e)
  BY DEF Signature
<1>2. \A s : Alike(Mine(i), s)' = Alike(Mine(i), s)
  BY <1>1 DEF Alike
<1>3. ASSUME NEW r, NEW s, NEW end, EntryFits(r, Alike(Mine(i), s), end)
      PROVE  EntryFits(r, Alike(Mine(i), s), end)'
  <2>1. \A e \in Alike(Mine(i), s) : stamp'[e] = stamp[e] /\ order'[e] = order[e]
    BY DEF Alike
  <2> QED
    BY <1>2, <1>3, <2>1 DEF EntryFits, IsFirst, IsLast
<1> DEFINE top == reports[i].figures.top
<1>4. reports'[i].figures.top = top
  OBVIOUS
<1>5. \A s \in DOMAIN top : EntryFits(top[s], Alike(Mine(i), s), reports[i].end)'
  BY <1>3 DEF FigureFits
<1>6. \A s \in DOMAIN top, e \in Mine(i)' :
          \/ Signature(e) \in DOMAIN top
          \/ Cardinality(Alike(Mine(i), s)') >= Cardinality(Alike(Mine(i), Signature(e))')
  BY <1>1, <1>2 DEF FigureFits
<1>7. /\ reports'[i].figures.total = Cardinality(Mine(i)')
      /\ reports'[i].figures.unique = Cardinality({Signature(e) : e \in Mine(i)'})
  BY DEF FigureFits
<1> QED
  BY <1>1, <1>4, <1>5, <1>6, <1>7 DEF FigureFits

LEMMA SameReports ==
  ASSUME Kept, FiguresFit, UNCHANGED reports,
         \A i \in 1 .. Len(reports) : Mine(i)' = Mine(i),
         \A e \in Event : Counted(e) => stamp'[e] = stamp[e] /\ order'[e] = order[e]
  PROVE  FiguresFit'
<1>1. ASSUME NEW i \in 1 .. Len(reports) PROVE FigureFits(i)'
  <2>1. FigureFits(i)
    BY AllFit
  <2>2. \A e \in Mine(i) : stamp'[e] = stamp[e] /\ order'[e] = order[e]
    BY DEF Mine
  <2> QED
    BY <2>1, <2>2, SameFigures
<1> QED
  BY <1>1 DEF FiguresFit, FigureFits, EntryFits, Mine, Alike

LEMMA FiguresInit == Init => FiguresFit
BY DEF Init, FiguresFit

\* The report that is made has the figures of the pending events.
LEMMA ReportFits ==
  ASSUME Kept, Tallied, Drawn, FiguresFit, NEW f \in Flush, FinishFlush(f)
  PROVE  FiguresFit'
<1>t. TypeOK
  BY DEF Kept
<1> DEFINE r == [start |-> periodStart, end |-> draft.end, figures |-> draft]
<1>l. PICK l : l = Len(reports)
  OBVIOUS
<1>1. /\ pc[f] = "email" /\ reports' = Append(reports, r)
      /\ \A e \in Event : batch'[e] = IF Pending(e) THEN l + 1 ELSE batch[e]
  BY <1>t, <1>l DEF FinishFlush, Pending, TypeOK
<1>2. r.end = draft.end /\ r.figures = draft
  OBVIOUS
<1> HIDE DEF r
<1>3. /\ l \in Nat /\ Len(reports') = l + 1 /\ reports'[l + 1] = r
      /\ \A i \in 1 .. l : reports'[i] = reports[i]
  BY <1>1, <1>l, ReportAdded
<1>4. \A e \in Event : batch[e] \in 0 .. l /\ (Counted(e)' <=> Counted(e))
  BY <1>t, <1>l, StartAgain DEF TypeOK
<1>5. \A i \in 1 .. l : FigureFits(i)
  BY <1>l, AllFit
<1>6. Mine(l + 1)' = PendingEvents
  <2>1. \A e \in Event : Counted(e)' /\ batch'[e] = l + 1 <=> Pending(e)
    BY <1>1, <1>3, <1>4 DEF Pending
  <2> QED
    BY <2>1 DEF Mine, PendingEvents
<1>7. \A i \in 1 .. l : Mine(i)' = Mine(i)
  <2> SUFFICES ASSUME NEW i \in 1 .. l PROVE Mine(i)' = Mine(i)
    OBVIOUS
  <2>1. \A e \in Event : Counted(e)' /\ batch'[e] = i <=> Counted(e) /\ batch[e] = i
    BY <1>1, <1>3, <1>4 DEF Pending
  <2> QED
    BY <2>1 DEF Mine
<1>10. UNCHANGED <<stamp, order>> /\ \A e : Signature(e)' = Signature(e)
  BY DEF FinishFlush, Signature
<1>8. FigureFits(l + 1)'
  <2> DEFINE P == PendingEvents
             top == draft.top
  <2>1. /\ draft.total = Cardinality(P)
        /\ draft.unique = Cardinality({Signature(e) : e \in P})
        /\ DOMAIN acc = {Signature(e) : e \in P}
    BY <1>1 DEF Drawn, Tallied
  <2>2. ASSUME NEW s \in DOMAIN top PROVE EntryFits(top[s], Alike(P, s), draft.end)
    BY <1>1, <2>2 DEF Drawn, Tallied, Told, EntryFits
  <2>3. ASSUME NEW s \in DOMAIN top, NEW e \in P, Signature(e) \notin DOMAIN top
        PROVE  Cardinality(Alike(P, s)) >= Cardinality(Alike(P, Signature(e)))
    <3>1. s \in DOMAIN acc /\ Signature(e) \in DOMAIN acc \ DOMAIN top
      BY <1>1, <2>1, <2>3 DEF Drawn
    <3>2. acc[s].count >= acc[Signature(e)].count
      BY <1>1, <3>1 DEF Drawn
    <3> QED
      BY <3>1, <3>2 DEF Tallied, Told
  <2> HIDE DEF P, top
  <2>4. /\ Mine(l + 1)' = P /\ reports'[l + 1].figures.top = top
        /\ reports'[l + 1].figures.total = Cardinality(P)
        /\ reports'[l + 1].figures.unique = Cardinality({Signature(e) : e \in P})
        /\ reports'[l + 1].end = draft.end
    BY <1>2, <1>3, <1>6, <2>1 DEF P, top
  <2>5. \A s : Alike(Mine(l + 1), s)' = Alike(P, s)
    BY <1>10, <2>4 DEF Alike
  <2>6. \A s \in DOMAIN top : EntryFits(top[s], Alike(P, s), draft.end)
    BY <2>2
  <2>7. ASSUME NEW s \in DOMAIN top
        PROVE  EntryFits(reports[l + 1].figures.top[s], Alike(Mine(l + 1), s), reports[l + 1].end)'
    BY <1>10, <2>4, <2>5, <2>6 DEF EntryFits, IsFirst, IsLast
  <2> QED
    BY <1>10, <2>3, <2>4, <2>5, <2>7 DEF FigureFits
<1>9. ASSUME NEW i \in 1 .. l PROVE FigureFits(i)'
  BY <1>3, <1>5, <1>7, <1>10, SameFigures
<1> QED
  <2>1. \A i \in 1 .. Len(reports') : i = l + 1 \/ i \in 1 .. l
    BY <1>3
  <2>2. \A i \in 1 .. Len(reports') : FigureFits(i)'
    BY <1>8, <1>9, <2>1
  <2> QED
    BY <2>2 DEF FiguresFit, FigureFits, EntryFits, Mine, Alike

LEMMA FiguresStep ==
  Kept /\ Windowed /\ InOrder /\ Tallied /\ Drawn /\ FiguresFit /\ [Next]_vars =>
    Tallied' /\ Drawn' /\ FiguresFit'
<1> SUFFICES ASSUME Kept, Windowed, InOrder, Tallied, Drawn, FiguresFit, [Next]_vars
             PROVE  Tallied' /\ Drawn' /\ FiguresFit'
  OBVIOUS
<1>t. TypeOK /\ Locked
  BY DEF Kept
<1>d. \A e \in Event : e \in Task /\ e \notin Flush
  BY TasksAssumption DEF Task
<1>f. \A f \in Flush : f \in Task /\ f \notin Event
  BY TasksAssumption DEF Task
<1>1. ASSUME UNCHANGED <<acc, batch, reports>>, \A e \in Event : Counted(e)' <=> Counted(e),
             \A e \in Event : Counted(e) => stamp'[e] = stamp[e] /\ order'[e] = order[e]
      PROVE  Tallied' /\ FiguresFit'
  <2>1. \A i \in 1 .. Len(reports) : Mine(i)' = Mine(i)
    BY <1>1 DEF Mine
  <2> QED
    BY <1>1, <2>1, SameTally, SameReports
<1>2. CASE Tick \/ RemoveHandler \/ UNCHANGED vars
  <2>1. UNCHANGED <<pc, acc, batch, reports, draft, stamp, order>>
    BY <1>2 DEF Tick, RemoveHandler, vars
  <2> QED
    BY <1>1, <2>1, SameDraft DEF Counted
<1>3. ASSUME NEW e \in Event, Fire(e) \/ RawLineDone(e) PROVE Tallied' /\ Drawn' /\ FiguresFit'
  <2>1. /\ UNCHANGED <<acc, batch, reports, draft>>
        /\ pc[e] # "counted" /\ pc'[e] # "counted" /\ \A u \in Task \ {e} : pc'[u] = pc[u]
    BY <1>t, <1>d, <1>3 DEF Fire, RawLineDone, TypeOK
  <2>2. \A u \in Event : Counted(u)' <=> Counted(u)
    BY <1>d, <2>1 DEF Counted
  <2>3. \A f \in Flush : pc'[f] = pc[f]
    BY <1>d, <1>f, <2>1
  <2>4. \A u \in Event \ {e} : stamp'[u] = stamp[u] /\ order'[u] = order[u]
    BY <1>t, <1>3 DEF Fire, RawLineDone, TypeOK
  <2> QED
    BY <1>1, <2>1, <2>2, <2>3, <2>4, SameDraft DEF Counted
<1>4. ASSUME NEW e \in Event, Collect(e) PROVE Tallied' /\ Drawn' /\ FiguresFit'
  <2>1. /\ pc[e] = "waiting" /\ Head(accLock) = e /\ pc'[e] = "counted"
        /\ UNCHANGED <<batch, reports, stamp, order>> /\ \A u \in Task \ {e} : pc'[u] = pc[u]
    BY <1>t, <1>d, <1>4 DEF Collect, HoldsAcc, TypeOK
  <2>2. \A f \in Flush : pc'[f] # "email"
    BY <1>t, <1>d, <1>f, <2>1 DEF Locked
  <2>3. batch[e] = 0 /\ \A u \in Event \ {e} : Counted(u)' <=> Counted(u)
    BY <1>d, <2>1 DEF Windowed, Counted
  <2>4. \A i \in 1 .. Len(reports) : Mine(i)' = Mine(i)
    BY <2>1, <2>3 DEF Mine, Counted
  <2> QED
    BY <1>4, <2>1, <2>2, <2>4, CountOne, SameReports DEF Drawn
<1>5. ASSUME NEW f \in Flush, StartFlush(f) \/ FlushNothing(f) \/ TakeFigures(f) \/ FlushFails(f)
      PROVE  Tallied' /\ FiguresFit' /\ \A u \in Task \ {f} : pc'[u] = pc[u]
  <2>1. UNCHANGED <<acc, batch, reports, stamp, order>> /\ \A u \in Task \ {f} : pc'[u] = pc[u]
    BY <1>t, <1>f, <1>5 DEF StartFlush, FlushNothing, TakeFigures, FlushFails, TypeOK
  <2> QED
    BY <1>1, <1>d, <2>1 DEF Counted
<1>6. ASSUME NEW f \in Flush, StartFlush(f) \/ FlushNothing(f) PROVE Drawn'
  <2>1. UNCHANGED <<acc, draft>> /\ pc'[f] # "email"
    BY <1>t, <1>f, <1>6 DEF StartFlush, FlushNothing, TypeOK
  <2> QED
    BY <1>5, <1>6, <1>f, <2>1, SameDraft
<1>7. ASSUME NEW f \in Flush, FlushFails(f) PROVE Drawn'
  <2>1. \A g \in Flush : pc'[g] # "email"
    BY <1>t, <1>5, <1>f, <1>7 DEF FlushFails, Locked, TypeOK
  <2> QED
    BY <2>1 DEF Drawn
<1> QED
  BY <1>2, <1>3, <1>4, <1>5, <1>6, <1>7, FiguresTaken, StartAgain, ReportFits
     DEF Next, EventStep, FlushStep, Quiescent

Reckoned == Kept /\ Windowed /\ InOrder /\ Tallied /\ Drawn /\ FiguresFit

LEMMA ReckonedAlways == Spec => []Reckoned
<1>1. Init => Reckoned
  BY KeptInit, WindowedInit, InOrderInit, TalliedInit, FiguresInit DEF Reckoned
<1>2. Reckoned /\ [Next]_vars => Reckoned'
  BY TypeStep, ListedStep, LockedStep, WindowedStep, InOrderStep, FiguresStep DEF Reckoned, Kept
<1> QED
  BY <1>1, <1>2, PTL DEF Spec

\* Although events arrive while a flush waits for the e-mail address, an issue's
\* summary counts just the events the issue is made of, and a listed entry just
\* those of its signature, from the one fired first to the one fired last, with
\* whatever times their records carry; none left out is more frequent.
THEOREM FiguresAreRight == Spec => []FiguresFit
<1>1. Reckoned => FiguresFit
  BY DEF Reckoned
<1> QED
  BY <1>1, ReckonedAlways, PTL
-----------------------------------------------------------------------------
(* By level, the flush of several steps is the single Publish of            *)
(* ReportWindows: FinishFlush makes it, and Collect is Count.               *)

LEMMA WindowsInit == Init => Windows!Init
<1> SUFFICES ASSUME Init PROVE Windows!Init
  OBVIOUS
<1>1. DOMAIN acc = {} /\ reports = <<>>
  BY DEF Init, NoRecords
<1>2. \A l \in Level : Sum(OfLevel(l)) = 0
  <2>1. \A l \in Level : Occurrences(OfLevel(l)) = {}
    BY <1>1 DEF Occurrences, OfLevel
  <2> QED
    BY <2>1, FS_EmptySet DEF Sum
<1> QED
  BY <1>1, <1>2 DEF Windows!Init, Windows!Zero

LEMMA CountStep ==
  ASSUME Kept, Tallied, NEW e \in Event, Collect(e)
  PROVE  Windows!Count(LevelOf[e]) /\ LevelOf[e] \in Level
<1>t. TypeOK /\ Locked
  BY DEF Kept
<1> DEFINE c == Signature(e)
           l0 == LevelOf[e]
           n == IF c \in DOMAIN acc THEN acc[c].count ELSE 0
<1>1. l0 \in Level /\ c[1] = l0
  BY <1>t DEF Collect, Locked, Signature
<1>2. n \in Nat
  BY <1>t DEF TypeOK, Entry
<1>3. /\ DOMAIN acc' = DOMAIN acc \cup {c}
      /\ acc'[c].count = n + 1
      /\ \A s \in DOMAIN acc \ {c} : acc'[s] = acc[s]
      /\ UNCHANGED reports
  <2>1. Record(e).count = n + 1
    BY DEF Record
  <2> HIDE DEF n
  <2> QED
    BY <2>1 DEF Collect, WithRecord
<1>4. /\ c \in OfLevel(l0) => acc[c].count = n
      /\ c \notin OfLevel(l0) => n = 0
  BY <1>1 DEF OfLevel
<1> HIDE DEF c, n, l0
<1>5. \A l : IsFiniteSet(Occ(acc, OfLevel(l)))
  <2>1. \A l : Occ(acc, OfLevel(l)) \subseteq Occurrences(DOMAIN acc)
    BY DEF Occ, Occurrences, OfLevel
  <2> QED
    BY <2>1, FS_Subset DEF Tallied
<1>6. Sum(OfLevel(l0))' = Sum(OfLevel(l0)) + 1
  <2>1. OfLevel(l0)' = OfLevel(l0) \cup {c}
    BY <1>1, <1>3 DEF OfLevel, l0
  <2>2. Cardinality(Occ(acc', OfLevel(l0) \cup {c})) = Cardinality(Occ(acc, OfLevel(l0))) + 1
    <3>1. \A s \in OfLevel(l0) \ {c} : acc'[s].count = acc[s].count
      BY <1>3 DEF OfLevel
    <3> QED
      BY <1>2, <1>3, <1>4, <1>5, <3>1, OccAdd
  <2> QED
    BY <2>1, <2>2 DEF Sum, Occurrences, Occ
<1>7. ASSUME NEW l \in Level, l # l0 PROVE Sum(OfLevel(l))' = Sum(OfLevel(l))
  <2>1. OfLevel(l)' = OfLevel(l) /\ \A s \in OfLevel(l) : acc'[s].count = acc[s].count
    BY <1>1, <1>3, <1>7 DEF OfLevel
  <2>2. Occ(acc', OfLevel(l)) = Occ(acc, OfLevel(l))
    BY <2>1, OccSame
  <2> QED
    BY <2>1, <2>2 DEF Sum, Occurrences, Occ
<1> QED
  BY <1>1, <1>3, <1>6, <1>7 DEF Windows!Count, l0

LEMMA PublishStep ==
  ASSUME Kept, Tallied, Drawn, NEW f \in Flush, FinishFlush(f)
  PROVE  Windows!Publish
<1>t. TypeOK
  BY DEF Kept
<1> DEFINE r == [start |-> periodStart, end |-> draft.end, figures |-> draft]
           published == [i \in 1 .. Len(reports) |-> reports[i].figures.byLevel]
           counted == [l \in Level |-> Sum(OfLevel(l))]
<1>1. /\ reports' = Append(reports, r) /\ DOMAIN acc' = {}
      /\ DOMAIN acc # {} /\ draft.byLevel = counted
  BY DEF FinishFlush, NewBuffer, NoRecords, Drawn
<1>2. r.figures = draft
  OBVIOUS
<1> HIDE DEF r
<1>3. /\ Len(reports) \in Nat /\ Len(reports') = Len(reports) + 1
      /\ reports'[Len(reports) + 1] = r
      /\ \A i \in 1 .. Len(reports) : reports'[i] = reports[i]
  BY <1>1, ReportAdded
<1>4. counted # [l \in Level |-> 0]
  <2>1. PICK s \in DOMAIN acc : TRUE
    BY <1>1
  <2>2. s[1] \in Level /\ acc[s].count \in Nat \ {0} /\ s \in OfLevel(s[1])
    BY <1>t, <2>1 DEF TypeOK, Entry, OfLevel
  <2>3. Occ(acc, OfLevel(s[1])) # {}
    <3>1. 1 \in 1 .. acc[s].count
      BY <2>2
    <3>2. <<s, 1>> \in Occ(acc, OfLevel(s[1]))
      BY <2>2, <3>1, InOcc
    <3> QED
      BY <3>2
  <2>4. IsFiniteSet(Occ(acc, OfLevel(s[1])))
    <3>1. Occ(acc, OfLevel(s[1])) \subseteq Occurrences(DOMAIN acc)
      BY DEF Occ, Occurrences, OfLevel
    <3> QED
      BY <3>1, FS_Subset DEF Tallied
  <2>5. Sum(OfLevel(s[1])) # 0
    BY <2>3, <2>4, FS_EmptySet DEF Sum, Occurrences, Occ
  <2> QED
    BY <2>2, <2>5
<1>5. \A l \in Level : Sum(OfLevel(l))' = 0
  <2>1. \A l \in Level : Occurrences(OfLevel(l))' = {}
    BY <1>1 DEF Occurrences, OfLevel
  <2> QED
    BY <2>1, FS_EmptySet DEF Sum
<1>6. published' = Append(published, counted)
  <2> DEFINE S == {published[i] : i \in 1 .. Len(reports)} \cup {counted}
  <2>1. published \in Seq(S) /\ Len(published) = Len(reports) /\ counted \in S
    BY <1>3
  <2> HIDE DEF S
  <2>2. /\ Append(published, counted) \in Seq(S)
        /\ Len(Append(published, counted)) = Len(reports) + 1
        /\ \A i \in 1 .. Len(reports) : Append(published, counted)[i] = published[i]
        /\ Append(published, counted)[Len(reports) + 1] = counted
    BY <2>1, AppendProperties
  <2>3. \A i \in 1 .. Len(reports) + 1 :
          reports'[i].figures.byLevel = Append(published, counted)[i]
    BY <1>1, <1>2, <1>3, <2>2
  <2>4. published' = [i \in 1 .. Len(reports) + 1 |-> reports'[i].figures.byLevel]
    BY <1>3
  <2>5. Append(published, counted) =
          [i \in 1 .. Len(reports) + 1 |-> Append(published, counted)[i]]
    BY <1>3, <2>2
  <2> QED
    BY <2>3, <2>4, <2>5
<1> QED
  BY <1>4, <1>5, <1>6 DEF Windows!Publish, Windows!Zero

LEMMA WindowsStutter ==
  ASSUME UNCHANGED <<acc, reports>>
  PROVE  UNCHANGED Windows!vars
BY DEF Windows!vars, Sum, Occurrences, OfLevel

LEMMA WindowsStep == Reckoned /\ [Next]_vars => [Windows!Next]_(Windows!vars)
<1> SUFFICES ASSUME Reckoned, [Next]_vars PROVE Windows!Next \/ UNCHANGED Windows!vars
  BY Zenon
<1>1. ASSUME NEW e \in Event, Collect(e) PROVE Windows!Next
  BY <1>1, CountStep DEF Reckoned, Windows!Next
<1>2. ASSUME NEW f \in Flush, FinishFlush(f) PROVE Windows!Next
  BY <1>2, PublishStep DEF Reckoned, Windows!Next
<1>3. CASE UNCHANGED <<acc, reports>>
  BY <1>3, WindowsStutter
<1> QED
  BY <1>1, <1>2, <1>3 DEF Next, Tick, Fire, EventStep, RawLineDone, StartFlush, FlushStep,
       FlushNothing, TakeFigures, FlushFails, RemoveHandler, Quiescent, vars

\* Locks, flushes that fail and the wait for the e-mail address do not show: each
\* occurrence is published once, in the report after it was counted.
THEOREM PublishesEachOnce == Spec => ImplementsWindows
<1>1. Spec => Windows!Init
  BY WindowsInit DEF Spec
<1>2. Spec => [][Windows!Next]_(Windows!vars)
  BY WindowsStep, ReckonedAlways, PTL DEF Spec
<1> QED
  BY <1>1, <1>2, PTL DEF ImplementsWindows, Windows!Spec
=============================================================================
