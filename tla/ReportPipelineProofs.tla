------------------------ MODULE ReportPipelineProofs ------------------------
(***************************************************************************)
(* Proofs about ReportPipeline for any number of issues, set-ups, crashes  *)
(* and interrupted workers.                                                *)
(*                                                                         *)
(* Placed says where an issue may be: in one line, then in one queue or    *)
(* with one worker, of the instance that took the call.  Ordered carries   *)
(* the order of the calls through line, queue and worker to the chain, and *)
(* Explained a pin's reason from step to step.  At the end, the parts keep *)
(* their contracts: each queue delivers, each instance serves in turn.     *)
(***************************************************************************)
EXTENDS ReportPipeline, SequenceTheorems, TLAPS

In(s, x) == \E n \in 1 .. Len(s) : s[n] = x

Prec(s, x, y) == \E a, b \in 1 .. Len(s) : a < b /\ s[a] = x /\ s[b] = y

-----------------------------------------------------------------------------
(* Membership and precedence in a sequence that grows or shrinks. *)

LEMMA NothingIn ==
  ASSUME NEW s, s = <<>>
  PROVE  (\A x : ~In(s, x)) /\ (\A x, y : ~Prec(s, x, y))
<1>1. Len(s) = 0
  OBVIOUS
<1>2. \A x : ~In(s, x)
  BY <1>1 DEF In
<1>3. \A x, y : ~Prec(s, x, y)
  BY <1>1 DEF Prec
<1> QED
  BY <1>2, <1>3

LEMMA Appended ==
  ASSUME NEW S, NEW s \in Seq(S), NEW z \in S
  PROVE  /\ Append(s, z) \in Seq(S)
         /\ \A x : In(Append(s, z), x) <=> In(s, x) \/ x = z
         /\ \A x, y : Prec(Append(s, z), x, y) <=> Prec(s, x, y) \/ (In(s, x) /\ y = z)
<1> DEFINE t == Append(s, z)
           l == Len(s)
<1>1. /\ t \in Seq(S) /\ l \in Nat /\ Len(t) = l + 1 /\ t[l + 1] = z
      /\ \A n \in 1 .. l : t[n] = s[n]
  BY AppendProperties
<1> HIDE DEF t
<1>2. \A x : In(t, x) <=> In(s, x) \/ x = z
  <2>1. ASSUME NEW x, In(t, x) PROVE In(s, x) \/ x = z
    <3>1. PICK n \in 1 .. l + 1 : t[n] = x
      BY <1>1, <2>1 DEF In
    <3> QED
      BY <1>1, <3>1 DEF In
  <2>2. ASSUME NEW x, In(s, x) \/ x = z PROVE In(t, x)
    <3>1. l + 1 \in 1 .. Len(t) /\ \A n \in 1 .. l : n \in 1 .. Len(t)
      BY <1>1
    <3> QED
      BY <1>1, <2>2, <3>1 DEF In
  <2> QED
    BY <2>1, <2>2
<1>3. \A x, y : Prec(t, x, y) <=> Prec(s, x, y) \/ (In(s, x) /\ y = z)
  <2>1. ASSUME NEW x, NEW y, Prec(t, x, y) PROVE Prec(s, x, y) \/ (In(s, x) /\ y = z)
    <3>1. PICK a, b \in 1 .. l + 1 : a < b /\ t[a] = x /\ t[b] = y
      BY <1>1, <2>1 DEF Prec
    <3>2. a \in 1 .. l
      BY <1>1, <3>1
    <3>3. CASE b = l + 1
      BY <1>1, <3>1, <3>2, <3>3 DEF In
    <3>4. CASE b # l + 1
      <4>1. b \in 1 .. l
        BY <1>1, <3>4
      <4> QED
        BY <1>1, <3>1, <3>2, <4>1 DEF Prec
    <3> QED
      BY <3>3, <3>4
  <2>2. ASSUME NEW x, NEW y, Prec(s, x, y) PROVE Prec(t, x, y)
    <3>1. PICK a, b \in 1 .. l : a < b /\ s[a] = x /\ s[b] = y
      BY <2>2 DEF Prec
    <3>2. a \in 1 .. Len(t) /\ b \in 1 .. Len(t)
      BY <1>1
    <3> QED
      BY <1>1, <3>1, <3>2 DEF Prec
  <2>3. ASSUME NEW x, In(s, x) PROVE Prec(t, x, z)
    <3>1. PICK a \in 1 .. l : s[a] = x
      BY <2>3 DEF In
    <3>2. a \in 1 .. Len(t) /\ l + 1 \in 1 .. Len(t) /\ a < l + 1
      BY <1>1
    <3> QED
      BY <1>1, <3>1, <3>2 DEF Prec
  <2> QED
    BY <2>1, <2>2, <2>3
<1> QED
  BY <1>1, <1>2, <1>3 DEF t

LEMMA FirstGone ==
  ASSUME NEW S, NEW s \in Seq(S), s # <<>>
  PROVE  /\ Tail(s) \in Seq(S) /\ Head(s) \in S
         /\ \A x : In(s, x) <=> x = Head(s) \/ In(Tail(s), x)
         /\ \A x, y : Prec(s, x, y) <=>
                        Prec(Tail(s), x, y) \/ (x = Head(s) /\ In(Tail(s), y))
<1> DEFINE t == Tail(s)
           l == Len(t)
<1>1. /\ t \in Seq(S) /\ l \in Nat /\ Len(s) = l + 1 /\ Head(s) = s[1] /\ s[1] \in S
      /\ \A n \in 1 .. l : t[n] = s[n + 1]
  BY HeadTailProperties
<1> HIDE DEF t, l
<1>2. \A n \in 1 .. l : n + 1 \in 1 .. Len(s) /\ n + 1 # 1
  BY <1>1
<1>3. \A n \in 1 .. Len(s) : n = 1 \/ (n - 1 \in 1 .. l /\ t[n - 1] = s[n])
  BY <1>1
<1>4. 1 \in 1 .. Len(s) /\ 1 .. l = 1 .. Len(t)
  BY <1>1 DEF l
<1>5. \A x : In(s, x) <=> x = Head(s) \/ In(t, x)
  <2>1. ASSUME NEW x, In(s, x) PROVE x = Head(s) \/ In(t, x)
    BY <1>1, <1>3, <1>4, <2>1 DEF In
  <2>2. ASSUME NEW x, x = Head(s) \/ In(t, x) PROVE In(s, x)
    <3>1. CASE x = Head(s)
      BY <1>1, <1>4, <3>1 DEF In
    <3>2. CASE In(t, x)
      <4>1. PICK n \in 1 .. l : t[n] = x
        BY <1>4, <3>2 DEF In
      <4> QED
        BY <1>1, <1>2, <4>1 DEF In
    <3> QED
      BY <2>2, <3>1, <3>2
  <2> QED
    BY <2>1, <2>2
<1>6. \A x, y : Prec(s, x, y) <=> Prec(t, x, y) \/ (x = Head(s) /\ In(t, y))
  <2>1. ASSUME NEW x, NEW y, Prec(s, x, y)
        PROVE  Prec(t, x, y) \/ (x = Head(s) /\ In(t, y))
    <3>1. PICK a, b \in 1 .. Len(s) : a < b /\ s[a] = x /\ s[b] = y
      BY <2>1 DEF Prec
    <3>2. b - 1 \in 1 .. l /\ t[b - 1] = y
      BY <1>1, <1>3, <3>1
    <3>3. CASE a = 1
      BY <1>1, <1>4, <3>1, <3>2, <3>3 DEF In
    <3>4. CASE a # 1
      <4>1. a - 1 \in 1 .. l /\ t[a - 1] = x /\ a - 1 < b - 1
        BY <1>1, <1>3, <3>1, <3>4
      <4> QED
        BY <1>4, <3>2, <4>1 DEF Prec
    <3> QED
      BY <3>3, <3>4
  <2>2. ASSUME NEW x, NEW y, Prec(t, x, y) PROVE Prec(s, x, y)
    <3>1. PICK a, b \in 1 .. l : a < b /\ t[a] = x /\ t[b] = y
      BY <1>4, <2>2 DEF Prec
    <3>2. a + 1 \in 1 .. Len(s) /\ b + 1 \in 1 .. Len(s) /\ a + 1 < b + 1
      BY <1>1, <3>1
    <3> QED
      BY <1>1, <3>1, <3>2 DEF Prec
  <2>3. ASSUME NEW y, In(t, y) PROVE Prec(s, Head(s), y)
    <3>1. PICK b \in 1 .. l : t[b] = y
      BY <1>4, <2>3 DEF In
    <3>2. b + 1 \in 1 .. Len(s) /\ 1 < b + 1
      BY <1>1
    <3> QED
      BY <1>1, <1>4, <3>1, <3>2 DEF Prec
  <2> QED
    BY <2>1, <2>2, <2>3
<1> QED
  BY <1>1, <1>5, <1>6 DEF t

LEMMA PrecIn ==
  ASSUME NEW s, NEW x, NEW y, Prec(s, x, y)
  PROVE  In(s, x) /\ In(s, y)
BY DEF Prec, In

LEMMA InToSet ==
  ASSUME NEW S, NEW s \in Seq(S), NEW x
  PROVE  x \in ToSet(s) <=> In(s, x)
BY DEF ToSet, In
-----------------------------------------------------------------------------
(* Where an issue may be. *)

Queued(k, i) == In(queue[k], i) \/ working[k] = i

Placed ==
  \A i \in Issue :
    /\ stage[i] \in {"none", "trying", "task"} => owner[i] = 0
    /\ stage[i] \in {"none", "trying", "task", "line", "unsure", "pinned"} =>
         fate[i] = "unsent"
    /\ stage[i] \in {"line", "unsure", "pinned", "sent"} => owner[i] # 0
    /\ owner[i] = 0 => fate[i] = "unsent"
    /\ owner[i] # 0 => In(called[owner[i]], i)
    /\ In(chain, i) => fate[i] \in {"recorded", "dropped", "abandoned", "cut"}
    /\ \A k \in Instance :
         /\ In(line[k], i) => owner[i] = k
         /\ Queued(k, i) => owner[i] = k /\ fate[i] = "accepted"
         /\ ~Prec(queue[k], i, i)
         /\ ~(working[k] = i /\ In(queue[k], i))

SetUp == loaded => instance \in Instance

Typed == TypeOK /\ SetUp /\ Placed

LEMMA TypedInit == Init => Typed
<1> SUFFICES ASSUME Init PROVE Typed
  OBVIOUS
<1>1. TypeOK /\ SetUp
  <2>1. instance \in 0 .. NumInstances /\ crashes \in 0 .. MaxCrashes /\ 0 \in 0 .. NumInstances
    BY BoundsAssumption DEF Init
  <2>2. /\ line \in [Instance -> Seq(Issue)] /\ called \in [Instance -> Seq(Issue)]
        /\ sent \in [Instance -> Seq(Issue)] /\ queue \in [Instance -> Seq(Issue)]
        /\ working \in [Instance -> Issue \cup {None}] /\ chain \in Seq(Issue)
    BY DEF Init
  <2> QED
    BY <2>1, <2>2 DEF Init, TypeOK, SetUp
<1>2. Placed
  <2>1. \A i \in Issue : owner[i] = 0 /\ fate[i] = "unsent" /\ stage[i] = "none" /\ i # None
    BY NoneAssumption DEF Init
  <2>2. chain = <<>> /\ \A k \in Instance : line[k] = <<>> /\ queue[k] = <<>> /\ working[k] = None
    BY DEF Init
  <2> QED
    <3>1. /\ \A i \in Issue : ~In(chain, i)
          /\ \A i \in Issue, k \in Instance :
               ~In(line[k], i) /\ ~In(queue[k], i) /\ ~Prec(queue[k], i, i)
      BY <2>2, NothingIn
    <3> QED
      BY <2>1, <2>2, <3>1 DEF Placed, Queued
<1> QED
  BY <1>1, <1>2 DEF Typed

\* The one that is served is in the line of its instance, first.
LEMMA ServedFirst ==
  ASSUME Typed, NEW i \in Issue, Served(i)
  PROVE  /\ owner[i] \in Instance /\ line[owner[i]] \in Seq(Issue)
         /\ line[owner[i]] # <<>> /\ Head(line[owner[i]]) = i
         /\ In(line[owner[i]], i) /\ Tail(line[owner[i]]) \in Seq(Issue)
<1>1. owner[i] \in Instance
  BY DEF Served, Typed, TypeOK, Instance
<1>2. line[owner[i]] \in Seq(Issue) /\ line[owner[i]] # <<>> /\ Head(line[owner[i]]) = i
  BY <1>1 DEF Served, Typed, TypeOK
<1> QED
  BY <1>1, <1>2, FirstGone

LEMMA TypeStep == Typed /\ [Next]_vars => TypeOK'
<1> SUFFICES ASSUME Typed, [Next]_vars PROVE TypeOK'
  OBVIOUS
<1> USE DEF entryVars, callVars, queueVars, outVars
<1>t. TypeOK /\ SetUp
  BY DEF Typed
<1>1. ASSUME NEW i \in Issue, SendReport(i) \/ MakeCall(i) \/ NotFound(i) PROVE TypeOK'
  BY <1>t, <1>1 DEF SendReport, MakeCall, NotFound, Goto, TypeOK
<1>2. ASSUME NEW i \in Issue, Dispatch(i) PROVE TypeOK'
  <2>1. instance \in Instance /\ instance \in 0 .. NumInstances
    BY <1>t, <1>2 DEF Dispatch, SetUp, TypeOK
  <2>2. line' \in [Instance -> Seq(Issue)] /\ called' \in [Instance -> Seq(Issue)]
    BY <1>t, <1>2, <2>1 DEF Dispatch, TypeOK
  <2> QED
    BY <1>t, <1>2, <2>1, <2>2 DEF Dispatch, Goto, TypeOK
<1>3. ASSUME NEW i \in Issue, Pin(i) \/ PinUnsure(i) PROVE TypeOK'
  BY <1>t, <1>3 DEF Pin, PinUnsure, Goto, TypeOK
<1>4. ASSUME NEW i \in Issue, Enqueue(i) PROVE TypeOK'
  <2>1. owner[i] \in Instance
    BY <1>4, ServedFirst DEF Enqueue
  <2>2. sent' \in [Instance -> Seq(Issue)] /\ queue' \in [Instance -> Seq(Issue)]
    BY <1>t, <1>4, <2>1 DEF Enqueue, InTurn, TypeOK
  <2> QED
    BY <1>t, <1>4, <2>2 DEF Enqueue, Goto, TypeOK
<1>5. ASSUME NEW i \in Issue, ReportEnds(i) \/ ReportFails(i) PROVE TypeOK'
  <2>1. Tail(line[owner[i]]) \in Seq(Issue)
    BY <1>5, ServedFirst DEF ReportEnds, ReportFails
  <2>2. line' \in [Instance -> Seq(Issue)]
    BY <1>t, <1>5, <2>1 DEF ReportEnds, ReportFails, Leave, TypeOK
  <2> QED
    BY <1>t, <1>5, <2>2 DEF ReportEnds, ReportFails, Goto, TypeOK
<1>6. ASSUME NEW k \in Instance, TakeUp(k) PROVE TypeOK'
  <2>1. Head(queue[k]) \in Issue /\ Tail(queue[k]) \in Seq(Issue)
    BY <1>t, <1>6, FirstGone DEF TakeUp, TypeOK
  <2> QED
    BY <1>t, <1>6, <2>1 DEF TakeUp, Rest, TypeOK
<1>7. ASSUME NEW k \in Instance, Record(k) \/ Drop(k) \/ Interrupt(k) PROVE TypeOK'
  <2>1. working[k] \in Issue
    BY <1>t, <1>7 DEF Record, Drop, Interrupt, TypeOK
  <2>2. fate' \in [Issue -> {"unsent", "accepted", "recorded", "dropped", "abandoned",
                              "cut", "lost"}]
    BY <1>t, <1>7 DEF Record, Drop, Interrupt, Settle, TypeOK
  <2>3. working' \in [Instance -> Issue \cup {None}]
    BY <1>t, <1>7 DEF Record, Drop, Interrupt, Settle, TypeOK
  <2>4. chain' \in Seq(Issue) /\ pinned' \cup unsure' \cup stuck' \subseteq Issue
    <3>1. CASE Record(k)
      BY <1>t, <2>1, <3>1 DEF Record, TypeOK
    <3>2. CASE Drop(k) \/ Interrupt(k)
      BY <1>t, <2>1, <3>2 DEF Drop, Interrupt, TypeOK
    <3> QED
      BY <1>7, <3>1, <3>2
  <2> QED
    BY <1>t, <1>7, <2>2, <2>3, <2>4 DEF Record, Drop, Interrupt, Settle, TypeOK
<1>8. ASSUME NEW i \in Issue, LateRecord(i) PROVE TypeOK'
  BY <1>t, <1>8 DEF LateRecord, TypeOK
<1>9. CASE Setup \/ Unload
  <2>1. loaded' \in BOOLEAN
    BY <1>9 DEF Setup, Unload
  <2>2. instance' \in 0 .. NumInstances
    <3>1. instance \in 0 .. NumInstances /\ NumInstances \in Nat
      BY <1>t, BoundsAssumption DEF TypeOK
    <3>2. instance' = instance \/ (instance < NumInstances /\ instance' = instance + 1)
      BY <1>9 DEF Setup, Unload
    <3> QED
      BY <3>1, <3>2
  <2> QED
    BY <1>t, <1>9, <2>1, <2>2 DEF Setup, Unload, TypeOK
<1>10. CASE Crash
  <2>1. /\ line' \in [Instance -> Seq(Issue)] /\ queue' \in [Instance -> Seq(Issue)]
        /\ working' \in [Instance -> Issue \cup {None}] /\ crashes' \in 0 .. MaxCrashes
    BY <1>t, <1>10, BoundsAssumption DEF Crash, TypeOK
  <2>2. /\ stage' \in [Issue -> {"none", "trying", "task", "line", "unsure", "pinned",
                                 "sent", "ok", "failed", "notFound", "dead"}]
        /\ fate' \in [Issue -> {"unsent", "accepted", "recorded", "dropped", "abandoned",
                                "cut", "lost"}]
    BY <1>t, <1>10 DEF Crash, TypeOK
  <2> QED
    BY <1>t, <1>10, <2>1, <2>2 DEF Crash, TypeOK
<1>11. CASE UNCHANGED vars
  BY <1>t, <1>11 DEF vars, TypeOK
<1> QED
  BY <1>1, <1>2, <1>3, <1>4, <1>5, <1>6, <1>7, <1>8, <1>9, <1>10, <1>11
     DEF Next, CallStep, WorkerStep, Quiescent

LEMMA SetUpStep == Typed /\ [Next]_vars => SetUp'
<1> SUFFICES ASSUME Typed, [Next]_vars PROVE SetUp'
  OBVIOUS
<1>1. CASE Setup
  BY <1>1, BoundsAssumption DEF Setup, Typed, TypeOK, SetUp, Instance
<1>2. CASE Unload \/ Crash
  BY <1>2 DEF Unload, Crash, SetUp
<1>3. ASSUME UNCHANGED entryVars PROVE SetUp'
  BY <1>3 DEF Typed, SetUp, entryVars
<1> QED
  BY <1>1, <1>2, <1>3 DEF Next, SendReport, CallStep, MakeCall, Dispatch, NotFound, Pin,
     PinUnsure, Enqueue, ReportEnds, ReportFails, WorkerStep, TakeUp, Record, Drop, Interrupt,
     Settle, LateRecord, Quiescent, vars

\* The parts of Placed for one issue
At(i) ==
  /\ stage[i] \in {"none", "trying", "task"} => owner[i] = 0
  /\ stage[i] \in {"none", "trying", "task", "line", "unsure", "pinned"} => fate[i] = "unsent"
  /\ stage[i] \in {"line", "unsure", "pinned", "sent"} => owner[i] # 0
  /\ owner[i] = 0 => fate[i] = "unsent"
  /\ owner[i] # 0 => In(called[owner[i]], i)
  /\ In(chain, i) => fate[i] \in {"recorded", "dropped", "abandoned", "cut"}

In1(i, k) ==
  /\ In(line[k], i) => owner[i] = k
  /\ Queued(k, i) => owner[i] = k /\ fate[i] = "accepted"
  /\ ~Prec(queue[k], i, i)
  /\ ~(working[k] = i /\ In(queue[k], i))

LEMMA PlacedParts == Placed <=> \A i \in Issue : At(i) /\ \A k \in Instance : In1(i, k)
BY DEF Placed, At, In1

LEMMA PlacedStep == Typed /\ [Next]_vars => Placed'
<1> SUFFICES ASSUME Typed, [Next]_vars, NEW j \in Issue
             PROVE  At(j)' /\ \A k \in Instance : In1(j, k)'
  BY DEF Placed, At, In1
<1> USE DEF entryVars, callVars, queueVars, outVars
<1>t. TypeOK /\ SetUp /\ Placed
  BY DEF Typed
<1>p. /\ \A i \in Issue : At(i)
      /\ \A i \in Issue, k \in Instance : In1(i, k)
  BY <1>t, PlacedParts
<1>0. CASE UNCHANGED <<stage, owner, line, called, queue, working, fate, chain>>
  BY <1>p, <1>0 DEF At, In1, Queued
<1>1. ASSUME NEW i \in Issue, SendReport(i) \/ MakeCall(i) \/ NotFound(i)
      PROVE  At(j)' /\ \A k \in Instance : In1(j, k)'
  <2>1. /\ stage[i] \in {"none", "trying", "task"}
        /\ stage'[i] \in {"trying", "task", "notFound"}
        /\ \A u \in Issue \ {i} : stage'[u] = stage[u]
        /\ UNCHANGED <<owner, line, called, queue, working, fate, chain>>
    BY <1>t, <1>1 DEF SendReport, MakeCall, NotFound, Goto, TypeOK
  <2> QED
    BY <1>p, <2>1 DEF At, In1, Queued
<1>2. ASSUME NEW i \in Issue, Dispatch(i)
      PROVE  At(j)' /\ \A k \in Instance : In1(j, k)'
  <2>1. /\ stage[i] = "task" /\ stage'[i] = "line" /\ instance \in Instance
        /\ owner'[i] = instance
        /\ \A u \in Issue \ {i} : stage'[u] = stage[u] /\ owner'[u] = owner[u]
        /\ line'[instance] = Append(line[instance], i)
        /\ called'[instance] = Append(called[instance], i)
        /\ \A k \in Instance \ {instance} : line'[k] = line[k] /\ called'[k] = called[k]
        /\ UNCHANGED <<queue, working, fate, chain>>
    BY <1>t, <1>2 DEF Dispatch, Goto, TypeOK, SetUp
  <2>2. /\ \A x : In(line'[instance], x) <=> In(line[instance], x) \/ x = i
        /\ \A x : In(called'[instance], x) <=> In(called[instance], x) \/ x = i
    BY <1>t, <2>1, Appended DEF TypeOK
  <2>3. owner[i] = 0 /\ instance # 0 /\ fate[i] = "unsent"
    BY <1>p, <2>1 DEF At, Instance
  <2>4. \A u \in Issue : owner[u] # 0 => owner[u] \in Instance
    BY <1>t DEF TypeOK, Instance
  <2>5. At(j)'
    <3>1. CASE j = i
      BY <1>p, <2>1, <2>2, <2>3, <3>1 DEF At
    <3>2. CASE j # i
      <4>1. UNCHANGED <<stage[j], owner[j], fate[j], chain>>
        BY <2>1, <3>2
      <4>2. owner[j] # 0 => In(called'[owner[j]], j)
        BY <1>p, <2>1, <2>2, <2>4 DEF At
      <4> QED
        BY <1>p, <4>1, <4>2 DEF At
    <3> QED
      BY <3>1, <3>2
  <2>6. ASSUME NEW k \in Instance PROVE In1(j, k)'
    <3>1. CASE j = i
      <4>1. ~In(line[k], j) /\ ~Queued(k, j)
        BY <1>p, <2>3, <3>1 DEF In1, Instance
      <4> QED
        BY <1>p, <2>1, <2>2, <3>1, <4>1 DEF In1, Queued
    <3>2. CASE j # i
      <4>1. UNCHANGED <<owner[j], fate[j], queue[k], working[k]>>
        BY <2>1, <3>2
      <4>2. In(line'[k], j) => In(line[k], j)
        BY <2>1, <2>2, <3>2
      <4> QED
        BY <1>p, <4>1, <4>2 DEF In1, Queued
    <3> QED
      BY <3>1, <3>2
  <2> QED
    BY <2>5, <2>6
<1>3. ASSUME NEW i \in Issue, Pin(i) \/ PinUnsure(i)
      PROVE  At(j)' /\ \A k \in Instance : In1(j, k)'
  <2>1. /\ stage[i] = "line" /\ stage'[i] \in {"pinned", "unsure"}
        /\ \A u \in Issue \ {i} : stage'[u] = stage[u]
        /\ UNCHANGED <<owner, line, called, queue, working, fate, chain>>
    BY <1>t, <1>3 DEF Pin, PinUnsure, Goto, TypeOK
  <2> QED
    BY <1>p, <2>1 DEF At, In1, Queued
<1>4. ASSUME NEW i \in Issue, Enqueue(i)
      PROVE  At(j)' /\ \A k \in Instance : In1(j, k)'
  <2> DEFINE o == owner[i]
  <2>1. /\ o \in Instance /\ stage[i] = "pinned" /\ stage'[i] = "sent" /\ fate'[i] = "accepted"
        /\ \A u \in Issue \ {i} : stage'[u] = stage[u] /\ fate'[u] = fate[u]
        /\ queue'[o] = Append(queue[o], i) /\ queue[o] \in Seq(Issue)
        /\ \A k \in Instance \ {o} : queue'[k] = queue[k]
        /\ UNCHANGED <<owner, line, called, working, chain>>
    BY <1>t, <1>4, ServedFirst DEF Enqueue, InTurn, Goto, TypeOK
  <2>2. /\ \A x : In(queue'[o], x) <=> In(queue[o], x) \/ x = i
        /\ \A x, y : Prec(queue'[o], x, y) <=> Prec(queue[o], x, y) \/ (In(queue[o], x) /\ y = i)
    BY <2>1, Appended
  <2>3. fate[i] = "unsent" /\ ~In(chain, i) /\ \A k \in Instance : ~Queued(k, i)
    BY <1>p, <2>1 DEF At, In1
  <2>4. At(j)'
    BY <1>p, <2>1, <2>3 DEF At
  <2>5. ASSUME NEW k \in Instance PROVE In1(j, k)'
    <3>1. CASE k = o
      <4>1. UNCHANGED <<line, owner, working>> /\ (j # i => fate'[j] = fate[j])
        BY <2>1
      <4>2. In(queue'[k], j) <=> In(queue[k], j) \/ j = i
        BY <2>2, <3>1
      <4>3. Prec(queue'[k], j, j) <=> Prec(queue[k], j, j) \/ (In(queue[k], j) /\ j = i)
        BY <2>2, <3>1
      <4>4. ~Queued(k, i)
        BY <2>3
      <4>5. In1(j, k)
        BY <1>p
      <4> QED
        BY <2>1, <3>1, <4>1, <4>2, <4>3, <4>4, <4>5 DEF In1, Queued
    <3>2. CASE k # o
      <4>1. /\ UNCHANGED <<line, owner, queue[k], working>>
            /\ j # i => fate'[j] = fate[j]
        BY <2>1, <3>2
      <4> QED
        BY <1>p, <2>1, <2>3, <4>1 DEF In1, Queued
    <3> QED
      BY <3>1, <3>2
  <2> QED
    BY <2>4, <2>5
<1>5. ASSUME NEW i \in Issue, ReportEnds(i) \/ ReportFails(i)
      PROVE  At(j)' /\ \A k \in Instance : In1(j, k)'
  <2> DEFINE o == owner[i]
  <2>1. /\ o \in Instance /\ stage'[i] \in {"ok", "failed"}
        /\ \A u \in Issue \ {i} : stage'[u] = stage[u]
        /\ line'[o] = Tail(line[o]) /\ line[o] \in Seq(Issue) /\ line[o] # <<>>
        /\ \A k \in Instance \ {o} : line'[k] = line[k]
        /\ UNCHANGED <<owner, called, queue, working, fate, chain>>
    BY <1>t, <1>5, ServedFirst DEF ReportEnds, ReportFails, Leave, Goto, TypeOK
  <2>2. \A x : In(line'[o], x) => In(line[o], x)
    BY <2>1, FirstGone
  <2>3. At(j)'
    BY <1>p, <2>1 DEF At
  <2>4. \A k \in Instance : In1(j, k)'
    BY <1>p, <2>1, <2>2 DEF In1, Queued
  <2> QED
    BY <2>3, <2>4
<1>6. ASSUME NEW k \in Instance, TakeUp(k)
      PROVE  At(j)' /\ \A l \in Instance : In1(j, l)'
  <2>1. /\ working[k] = None /\ queue[k] \in Seq(Issue) /\ queue[k] # <<>>
        /\ working'[k] = Head(queue[k]) /\ queue'[k] = Tail(queue[k])
        /\ \A l \in Instance \ {k} : working'[l] = working[l] /\ queue'[l] = queue[l]
        /\ UNCHANGED <<stage, owner, line, called, fate, chain>>
    BY <1>t, <1>6 DEF TakeUp, Rest, TypeOK
  <2>2. /\ \A x : In(queue[k], x) <=> x = working'[k] \/ In(queue'[k], x)
        /\ \A x, y : Prec(queue[k], x, y) <=>
                       Prec(queue'[k], x, y) \/ (x = working'[k] /\ In(queue'[k], y))
    BY <2>1, FirstGone
  <2>3. At(j)'
    BY <1>p, <2>1 DEF At
  <2>4. ASSUME NEW l \in Instance PROVE In1(j, l)'
    <3>1. CASE l = k
      BY <1>p, <2>1, <2>2, <3>1 DEF In1, Queued
    <3>2. CASE l # k
      BY <1>p, <2>1, <3>2 DEF In1, Queued
    <3> QED
      BY <3>1, <3>2
  <2> QED
    BY <2>3, <2>4
<1>7. ASSUME NEW k \in Instance, Record(k) \/ Drop(k) \/ Interrupt(k)
      PROVE  At(j)' /\ \A l \in Instance : In1(j, l)'
  <2> DEFINE i == working[k]
  <2>1. /\ i \in Issue /\ fate'[i] \in {"recorded", "dropped", "abandoned"}
        /\ \A u \in Issue \ {i} : fate'[u] = fate[u]
        /\ working'[k] = None /\ \A l \in Instance \ {k} : working'[l] = working[l]
        /\ UNCHANGED <<stage, owner, line, called, queue>>
        /\ chain' = chain \/ chain' = Append(chain, i)
    BY <1>t, <1>7 DEF Record, Drop, Interrupt, Settle, TypeOK
  <2>2. \A x : In(chain', x) => In(chain, x) \/ x = i
    <3>1. CASE chain' = chain
      BY <3>1
    <3>2. CASE chain' = Append(chain, i)
      BY <1>t, <2>1, <3>2, Appended DEF TypeOK
    <3> QED
      BY <2>1, <3>1, <3>2
  <2>3. owner[i] = k /\ fate[i] = "accepted" /\ k # 0 /\ ~In(queue[k], i)
    BY <1>p, <2>1 DEF In1, Queued, Instance
  <2>4. \A l \in Instance \ {k} : ~Queued(l, i)
    BY <1>p, <2>1, <2>3 DEF In1
  <2>5. At(j)'
    <3>1. CASE j = i
      BY <1>p, <2>1, <2>3, <3>1 DEF At
    <3>2. CASE j # i
      BY <1>p, <2>1, <2>2, <3>2 DEF At
    <3> QED
      BY <3>1, <3>2
  <2>6. ASSUME NEW l \in Instance PROVE In1(j, l)'
    <3>1. CASE l = k
      BY <1>p, <2>1, <2>3, <3>1, NoneAssumption DEF In1, Queued
    <3>2. CASE l # k
      BY <1>p, <2>1, <2>4, <3>2 DEF In1, Queued
    <3> QED
      BY <3>1, <3>2
  <2> QED
    BY <2>5, <2>6
<1>8. ASSUME NEW i \in Issue, LateRecord(i)
      PROVE  At(j)' /\ \A k \in Instance : In1(j, k)'
  <2>1. /\ fate[i] \in {"dropped", "abandoned", "cut"} /\ chain' = Append(chain, i)
        /\ UNCHANGED <<stage, owner, line, called, queue, working, fate>>
    BY <1>8 DEF LateRecord
  <2>2. \A x : In(chain', x) => In(chain, x) \/ x = i
    BY <1>t, <2>1, Appended DEF TypeOK
  <2> QED
    BY <1>p, <2>1, <2>2 DEF At, In1, Queued
<1>9. CASE Crash
  <2>1. /\ UNCHANGED <<owner, called, chain>>
        /\ (stage'[j] = stage[j] /\ ~Underway(j)) \/ stage'[j] = "dead"
        /\ fate'[j] = fate[j] \/ (fate[j] = "accepted" /\ fate'[j] \in {"cut", "lost"})
    BY <1>9 DEF Crash
  <2>2. \A k \in Instance : line'[k] = <<>> /\ queue'[k] = <<>> /\ working'[k] = None
    BY <1>9 DEF Crash
  <2>3. \A k \in Instance : In1(j, k)'
    <3>1. \A k \in Instance : ~In(line'[k], j) /\ ~In(queue'[k], j) /\ ~Prec(queue'[k], j, j)
      BY <2>2, NothingIn
    <3> QED
      BY <2>2, <3>1, NoneAssumption DEF In1, Queued
  <2>4. At(j)'
    BY <1>p, <2>1 DEF At
  <2> QED
    BY <2>3, <2>4
<1>10. CASE Setup \/ Unload \/ UNCHANGED vars
  BY <1>0, <1>10 DEF Setup, Unload, vars
<1> QED
  BY <1>1, <1>2, <1>3, <1>4, <1>5, <1>6, <1>7, <1>8, <1>9, <1>10
     DEF Next, CallStep, WorkerStep, Quiescent

LEMMA TypedAlways == Spec => []Typed
<1>1. Typed /\ [Next]_vars => Typed'
  BY TypeStep, SetUpStep, PlacedStep DEF Typed
<1> QED
  BY <1>1, TypedInit, PTL DEF Spec

\* Type correctness; in it, that a call served is in a line of its own instance.
THEOREM TypeCorrect == Spec => []TypeOK
<1>1. Typed => TypeOK
  BY DEF Typed
<1> QED
  BY <1>1, TypedAlways, PTL
-----------------------------------------------------------------------------
(* Pins. *)

Reason(i) ==
  \/ stage[i] = "pinned"
  \/ \E k \in Instance : Queued(k, i)
  \/ In(chain, i)
  \/ i \in unsure \cup stuck
  \/ fate[i] = "abandoned"
  \/ crashes > 0 /\ (stage[i] = "dead" \/ fate[i] \in {"cut", "lost"})

Explained == \A i \in pinned : Reason(i)

LEMMA ExplainedStep == Typed /\ Explained /\ [Next]_vars => Explained'
<1> SUFFICES ASSUME Typed, Explained, [Next]_vars, NEW j \in pinned'
             PROVE  Reason(j)'
  BY DEF Explained
<1> USE DEF entryVars, callVars, queueVars, outVars
<1>t. TypeOK /\ SetUp /\ Placed
  BY DEF Typed
<1>p. /\ \A i \in Issue : At(i)
      /\ \A i \in Issue, k \in Instance : In1(i, k)
  BY <1>t, PlacedParts
<1>j. j \in Issue
  BY TypeStep, <1>t DEF TypeOK
<1>0. ASSUME UNCHANGED <<crashes, queue, working, fate, chain, pinned, unsure, stuck>>,
             stage[j] \in {"pinned", "dead"} => stage'[j] = stage[j]
      PROVE  Reason(j)'
  BY <1>0 DEF Explained, Reason, Queued
<1>1. ASSUME NEW i \in Issue, SendReport(i) \/ MakeCall(i) \/ NotFound(i) \/ Dispatch(i)
                               \/ ReportEnds(i) \/ ReportFails(i)
      PROVE  Reason(j)'
  <2>1. /\ stage[i] \in {"none", "trying", "task", "line", "unsure", "sent"}
        /\ \A u \in Issue \ {i} : stage'[u] = stage[u]
        /\ UNCHANGED <<crashes, queue, working, fate, chain, pinned, unsure, stuck>>
    BY <1>t, <1>1 DEF SendReport, MakeCall, NotFound, Dispatch, ReportEnds, ReportFails, Goto,
                      TypeOK
  <2> QED
    BY <1>0, <1>j, <2>1
<1>2. ASSUME NEW i \in Issue, Pin(i) \/ PinUnsure(i) PROVE Reason(j)'
  <2>1. /\ stage[i] = "line" /\ \A u \in Issue \ {i} : stage'[u] = stage[u]
        /\ stage'[i] = "pinned" \/ i \in unsure'
        /\ pinned' = pinned \cup {i} /\ unsure \subseteq unsure'
        /\ UNCHANGED <<crashes, queue, working, fate, chain, stuck>>
    BY <1>t, <1>2 DEF Pin, PinUnsure, Goto, TypeOK
  <2>2. CASE j = i
    BY <2>1, <2>2 DEF Reason
  <2>3. CASE j # i
    BY <1>j, <2>1, <2>3 DEF Explained, Reason, Queued
  <2> QED
    BY <2>2, <2>3
<1>3. ASSUME NEW i \in Issue, Enqueue(i) PROVE Reason(j)'
  <2> DEFINE o == owner[i]
  <2>1. /\ o \in Instance /\ stage[i] = "pinned" /\ fate[i] = "unsent"
        /\ \A u \in Issue \ {i} : stage'[u] = stage[u] /\ fate'[u] = fate[u]
        /\ queue'[o] = Append(queue[o], i) /\ queue[o] \in Seq(Issue)
        /\ \A k \in Instance \ {o} : queue'[k] = queue[k]
        /\ UNCHANGED <<crashes, working, chain, pinned, unsure, stuck>>
    BY <1>t, <1>p, <1>3, ServedFirst DEF Enqueue, InTurn, Goto, TypeOK, At
  <2>2. \A x : In(queue'[o], x) <=> In(queue[o], x) \/ x = i
    BY <2>1, Appended
  <2>3. CASE j = i
    BY <2>1, <2>2, <2>3 DEF Reason, Queued
  <2>4. CASE j # i
    <3>1. \A k \in Instance : Queued(k, j) => Queued(k, j)'
      BY <2>1, <2>2 DEF Queued
    <3> QED
      BY <1>j, <2>1, <2>4, <3>1 DEF Explained, Reason
  <2> QED
    BY <2>3, <2>4
<1>4. ASSUME NEW k \in Instance, TakeUp(k) PROVE Reason(j)'
  <2>1. /\ working[k] = None /\ queue[k] \in Seq(Issue) /\ queue[k] # <<>>
        /\ working'[k] = Head(queue[k]) /\ queue'[k] = Tail(queue[k])
        /\ \A l \in Instance \ {k} : working'[l] = working[l] /\ queue'[l] = queue[l]
        /\ UNCHANGED <<crashes, stage, fate, chain, pinned, unsure, stuck>>
    BY <1>t, <1>4 DEF TakeUp, Rest, TypeOK
  <2>2. \A x : In(queue[k], x) <=> x = working'[k] \/ In(queue'[k], x)
    BY <2>1, FirstGone
  <2>3. \A l \in Instance : Queued(l, j) => Queued(l, j)'
    BY <1>j, <2>1, <2>2, NoneAssumption DEF Queued
  <2> QED
    BY <2>1, <2>3 DEF Explained, Reason
<1>5. ASSUME NEW k \in Instance, Record(k) \/ Drop(k) \/ Interrupt(k) PROVE Reason(j)'
  <2> DEFINE i == working[k]
  <2>1. /\ i \in Issue /\ \A u \in Issue \ {i} : fate'[u] = fate[u]
        /\ working'[k] = None /\ \A l \in Instance \ {k} : working'[l] = working[l]
        /\ pinned' \subseteq pinned /\ stuck \subseteq stuck'
        /\ UNCHANGED <<crashes, stage, queue, unsure>>
        /\ \/ chain' = Append(chain, i)
           \/ chain' = chain /\ (i \notin pinned' \/ i \in stuck' \/ fate'[i] = "abandoned")
    BY <1>t, <1>5 DEF Record, Drop, Interrupt, Settle, CleanUp, TypeOK
  <2>2. \A x : In(chain, x) => In(chain', x)
    <3>1. CASE chain' = chain
      BY <3>1
    <3>2. CASE chain' = Append(chain, i)
      BY <1>t, <2>1, <3>2, Appended DEF TypeOK
    <3> QED
      BY <2>1, <3>1, <3>2
  <2>3. CASE j = i
    <3>1. CASE chain' = Append(chain, i)
      BY <1>t, <2>1, <2>3, <3>1, Appended DEF TypeOK, Reason
    <3>2. CASE chain' # Append(chain, i)
      BY <2>1, <2>3, <3>2 DEF Reason
    <3> QED
      BY <3>1, <3>2
  <2>4. CASE j # i
    <3>1. \A l \in Instance : Queued(l, j) => Queued(l, j)'
      BY <2>1, <2>4 DEF Queued
    <3> QED
      BY <1>j, <2>1, <2>2, <2>4, <3>1 DEF Explained, Reason
  <2> QED
    BY <2>3, <2>4
<1>6. ASSUME NEW i \in Issue, LateRecord(i) PROVE Reason(j)'
  <2>1. /\ chain' = Append(chain, i)
        /\ UNCHANGED <<crashes, stage, queue, working, fate, pinned, unsure, stuck>>
    BY <1>6 DEF LateRecord
  <2>2. \A x : In(chain, x) => In(chain', x)
    BY <1>t, <2>1, Appended DEF TypeOK
  <2> QED
    BY <2>1, <2>2 DEF Explained, Reason, Queued
<1>7. CASE Crash
  <2>1. /\ crashes' > 0 /\ UNCHANGED <<chain, pinned, unsure, stuck>>
        /\ stage[j] \in {"pinned", "dead"} => stage'[j] = "dead"
        /\ fate[j] = "accepted" => fate'[j] \in {"cut", "lost"}
        /\ fate[j] # "accepted" => fate'[j] = fate[j]
    BY <1>t, <1>j, <1>7 DEF Crash, Underway, TypeOK
  <2>2. \A k \in Instance : Queued(k, j) => fate[j] = "accepted"
    BY <1>j, <1>p DEF In1
  <2> QED
    BY <2>1, <2>2 DEF Explained, Reason
<1>8. CASE Setup \/ Unload \/ UNCHANGED vars
  BY <1>0, <1>8 DEF Setup, Unload, vars
<1> QED
  BY <1>1, <1>2, <1>3, <1>4, <1>5, <1>6, <1>7, <1>8
     DEF Next, CallStep, WorkerStep, Quiescent

\* However reloads, crashes and failures fall, a pin is in use or one of the
\* named faults accounts for it.
THEOREM EveryPinExplained == Spec => []PinsExplained
<1>1. Init => Typed /\ Explained
  BY TypedInit DEF Init, Explained
<1>2. Typed /\ Explained /\ [Next]_vars => (Typed /\ Explained)'
  BY TypeStep, SetUpStep, PlacedStep, ExplainedStep DEF Typed
<1>3. Typed /\ Explained => PinsExplained
  <2> SUFFICES ASSUME Typed, Explained, NEW i \in pinned
               PROVE  \/ stage[i] = "pinned" \/ InQueue(i) \/ i \in ToSet(chain)
                      \/ i \in unsure \cup stuck
                      \/ fate[i] = "abandoned"
                      \/ crashes > 0 /\ (stage[i] = "dead" \/ fate[i] \in {"cut", "lost"})
    BY DEF PinsExplained
  <2>1. chain \in Seq(Issue) /\ \A k \in Instance : queue[k] \in Seq(Issue)
    BY DEF Typed, TypeOK
  <2>2. In(chain, i) => i \in ToSet(chain)
    BY <2>1, InToSet
  <2>3. \A k \in Instance : Queued(k, i) => InQueue(i)
    BY <2>1, InToSet DEF Queued, InQueue
  <2> QED
    BY <2>2, <2>3 DEF Explained, Reason
<1> QED
  BY <1>1, <1>2, <1>3, PTL DEF Spec
-----------------------------------------------------------------------------
(* The order of the calls. *)

\* i was called before j, in the same instance.
Before(k, i, j) == Prec(called[k], i, j)

RecordedBy(k, i) == owner[i] = k /\ fate[i] = "recorded"

\* The order holds within the line and the queue, from recorded to worker to
\* queue, and from whatever was handed on to those still in line.
Ordered ==
  \A i, j \in Issue :
    /\ \A k \in Instance :
         /\ Prec(line[k], i, j) => Before(k, i, j)
         /\ Prec(queue[k], i, j) => Before(k, i, j)
         /\ (working[k] = i \/ RecordedBy(k, i)) /\ In(queue[k], j) => Before(k, i, j)
         /\ RecordedBy(k, i) /\ working[k] = j => Before(k, i, j)
         /\ (Queued(k, i) \/ RecordedBy(k, i)) /\ In(line[k], j) /\ i # j => Before(k, i, j)
    /\ Prec(chain, i, j) /\ owner[i] = owner[j] /\ fate[i] = "recorded" /\ fate[j] = "recorded" =>
         Before(owner[i], i, j)

\* The parts of Ordered for a pair of issues
Pair(i, j, k) ==
  /\ Prec(line[k], i, j) => Before(k, i, j)
  /\ Prec(queue[k], i, j) => Before(k, i, j)
  /\ (working[k] = i \/ RecordedBy(k, i)) /\ In(queue[k], j) => Before(k, i, j)
  /\ RecordedBy(k, i) /\ working[k] = j => Before(k, i, j)
  /\ (Queued(k, i) \/ RecordedBy(k, i)) /\ In(line[k], j) /\ i # j => Before(k, i, j)

OnChain(i, j) ==
  Prec(chain, i, j) /\ owner[i] = owner[j] /\ fate[i] = "recorded" /\ fate[j] = "recorded" =>
    Before(owner[i], i, j)

LEMMA OrderedParts ==
  Ordered <=> \A i, j \in Issue : OnChain(i, j) /\ \A k \in Instance : Pair(i, j, k)
BY DEF Ordered, OnChain, Pair

LEMMA OrderedInit == Init => Ordered
<1> SUFFICES ASSUME Init PROVE Ordered
  OBVIOUS
<1>1. \A i \in Issue : fate[i] = "unsent" /\ i # None
  BY NoneAssumption DEF Init
<1>2. chain = <<>> /\ \A k \in Instance : line[k] = <<>> /\ queue[k] = <<>> /\ working[k] = None
  BY DEF Init
<1>3. /\ \A i, j \in Issue : ~Prec(chain, i, j)
      /\ \A i, j \in Issue, k \in Instance :
           ~In(line[k], i) /\ ~In(queue[k], i) /\ ~Prec(line[k], i, j) /\ ~Prec(queue[k], i, j)
  BY <1>2, NothingIn
<1> QED
  BY <1>1, <1>2, <1>3 DEF Ordered, Queued, RecordedBy

LEMMA OrderedStep == Typed /\ Ordered /\ [Next]_vars => Ordered'
<1> SUFFICES ASSUME Typed, Ordered, [Next]_vars, NEW a \in Issue, NEW b \in Issue
             PROVE  OnChain(a, b)' /\ \A k \in Instance : Pair(a, b, k)'
  BY DEF Ordered, OnChain, Pair
<1> USE DEF entryVars, callVars, queueVars, outVars
<1>t. TypeOK /\ SetUp /\ Placed
  BY DEF Typed
<1>p. /\ \A i \in Issue : At(i)
      /\ \A i \in Issue, k \in Instance : In1(i, k)
  BY <1>t, PlacedParts
<1>o. /\ \A i, j \in Issue : OnChain(i, j)
      /\ \A i, j \in Issue, k \in Instance : Pair(i, j, k)
  BY OrderedParts
<1>n. a # None /\ b # None
  BY NoneAssumption
<1>0. CASE UNCHANGED <<owner, line, called, queue, working, fate, chain>>
  BY <1>o, <1>0 DEF OnChain, Pair, Before, RecordedBy, Queued
<1>1. ASSUME NEW i \in Issue, SendReport(i) \/ MakeCall(i) \/ NotFound(i) \/ Pin(i) \/ PinUnsure(i)
      PROVE  OnChain(a, b)' /\ \A k \in Instance : Pair(a, b, k)'
  BY <1>0, <1>1 DEF SendReport, MakeCall, NotFound, Pin, PinUnsure
<1>2. ASSUME NEW i \in Issue, Dispatch(i)
      PROVE  OnChain(a, b)' /\ \A k \in Instance : Pair(a, b, k)'
  <2>1. /\ stage[i] = "task" /\ instance \in Instance /\ owner'[i] = instance
        /\ \A u \in Issue \ {i} : owner'[u] = owner[u]
        /\ line'[instance] = Append(line[instance], i)
        /\ called'[instance] = Append(called[instance], i)
        /\ \A k \in Instance \ {instance} : line'[k] = line[k] /\ called'[k] = called[k]
        /\ UNCHANGED <<instance, queue, working, fate, chain>>
    BY <1>t, <1>2 DEF Dispatch, TypeOK, SetUp
  <2>2. /\ \A x : In(line'[instance], x) <=> In(line[instance], x) \/ x = i
        /\ \A x, y : Prec(line'[instance], x, y) <=>
                       Prec(line[instance], x, y) \/ (In(line[instance], x) /\ y = i)
        /\ \A x, y : Prec(called'[instance], x, y) <=>
                       Prec(called[instance], x, y) \/ (In(called[instance], x) /\ y = i)
    BY <1>t, <2>1, Appended DEF TypeOK
  <2>3. /\ fate[i] = "unsent" /\ ~In(chain, i)
        /\ \A k \in Instance : ~Queued(k, i) /\ ~In(line[k], i)
    <3>1. owner[i] = 0 /\ fate[i] = "unsent" /\ ~In(chain, i)
      BY <1>p, <2>1 DEF At
    <3> QED
      BY <1>p, <3>1 DEF In1, Instance
  <2>4. \A k \in Instance, x, y \in Issue : Before(k, x, y) => Before(k, x, y)'
    BY <2>1, <2>2 DEF Before
  <2>5. ASSUME NEW x \in Issue, owner[x] = instance PROVE Before(instance, x, i)'
    <3>1. owner[x] # 0
      BY <2>1, <2>5 DEF Instance
    <3>2. In(called[instance], x)
      BY <1>p, <2>5, <3>1 DEF At
    <3> QED
      BY <2>1, <2>2, <3>2 DEF Before
  <2>6. OnChain(a, b)'
    <3>1. CASE fate[a] = "recorded" /\ fate[b] = "recorded"
      <4>1. a # i /\ b # i /\ owner[a] \in Instance
        BY <1>p, <1>t, <2>3, <3>1 DEF At, TypeOK, Instance
      <4> QED
        BY <1>o, <2>1, <2>4, <4>1 DEF OnChain
    <3>2. CASE ~(fate[a] = "recorded" /\ fate[b] = "recorded")
      BY <2>1, <3>2 DEF OnChain
    <3> QED
      BY <3>1, <3>2
  <2>7. ASSUME NEW k \in Instance PROVE Pair(a, b, k)'
    <3>1. a # i => /\ Queued(k, a)' <=> Queued(k, a)
                   /\ RecordedBy(k, a)' <=> RecordedBy(k, a)
                   /\ Queued(k, a) \/ RecordedBy(k, a) \/ In(line[k], a) => owner[a] = k
      BY <1>p, <2>1 DEF Queued, RecordedBy, In1
    <3>2. ~Queued(k, i)' /\ ~RecordedBy(k, i)'
      BY <2>1, <2>3 DEF Queued, RecordedBy
    <3>3. Prec(line'[k], a, b) => Before(k, a, b)'
      <4>1. CASE k = instance
        <5>1. CASE Prec(line[instance], a, b)
          BY <1>o, <2>1, <2>4, <4>1, <5>1 DEF Pair
        <5>2. CASE In(line[instance], a) /\ b = i
          BY <1>p, <2>1, <2>5, <4>1, <5>2 DEF In1
        <5> QED
          BY <2>2, <4>1, <5>1, <5>2
      <4>2. CASE k # instance
        BY <1>o, <2>1, <2>4, <4>2 DEF Pair
      <4> QED
        BY <4>1, <4>2
    <3>4. (Queued(k, a)' \/ RecordedBy(k, a)') /\ In(line'[k], b) /\ a # b => Before(k, a, b)'
      <4>1. CASE a = i
        BY <3>2, <4>1
      <4>2. CASE a # i
        <5>1. CASE b = i
          <6>1. In(line'[k], b) => k = instance
            BY <2>1, <2>3, <5>1
          <6>2. Queued(k, a)' \/ RecordedBy(k, a)' => owner[a] = k
            BY <3>1, <4>2
          <6> QED
            BY <2>1, <2>5, <5>1, <6>1, <6>2 DEF Before
        <5>2. CASE b # i
          BY <1>o, <2>1, <2>2, <2>4, <3>1, <4>2, <5>2 DEF Pair
        <5> QED
          BY <5>1, <5>2
      <4> QED
        BY <4>1, <4>2
    <3>5. RecordedBy(k, a)' => RecordedBy(k, a)
      BY <3>1, <3>2
    <3> QED
      BY <1>o, <2>1, <2>4, <3>3, <3>4, <3>5 DEF Pair
  <2> QED
    BY <2>6, <2>7
<1>3. ASSUME NEW i \in Issue, Enqueue(i)
      PROVE  OnChain(a, b)' /\ \A k \in Instance : Pair(a, b, k)'
  <2> DEFINE o == owner[i]
  <2>1. /\ o \in Instance /\ stage[i] = "pinned" /\ fate'[i] = "accepted"
        /\ \A u \in Issue \ {i} : fate'[u] = fate[u]
        /\ queue'[o] = Append(queue[o], i) /\ queue[o] \in Seq(Issue)
        /\ \A k \in Instance \ {o} : queue'[k] = queue[k]
        /\ UNCHANGED <<owner, line, called, working, chain>>
    BY <1>t, <1>3, ServedFirst DEF Enqueue, InTurn, TypeOK
  <2>2. /\ \A x : In(queue'[o], x) <=> In(queue[o], x) \/ x = i
        /\ \A x, y : Prec(queue'[o], x, y) <=> Prec(queue[o], x, y) \/ (In(queue[o], x) /\ y = i)
    BY <2>1, Appended
  <2>3. fate[i] = "unsent" /\ \A k \in Instance : ~Queued(k, i) /\ ~RecordedBy(k, i)
    BY <1>p, <2>1 DEF At, In1, RecordedBy
  <2>4. In(line[o], i) /\ \A y : In(line[o], y) /\ y # i => Prec(line[o], i, y)
    <3>1. line[o] \in Seq(Issue) /\ line[o] # <<>> /\ Head(line[o]) = i /\ In(line[o], i)
      BY <1>3, ServedFirst DEF Enqueue
    <3> QED
      BY <3>1, FirstGone
  <2>5. OnChain(a, b)'
    BY <1>o, <2>1, <2>3 DEF OnChain, Before
  <2>6. \A k \in Instance, x \in Issue : RecordedBy(k, x)' => RecordedBy(k, x)
    BY <2>1, <2>3 DEF RecordedBy
  <2>7. \A k \in Instance, x, y \in Issue : Before(k, x, y)' <=> Before(k, x, y)
    BY <2>1 DEF Before
  <2>8. ASSUME NEW k \in Instance PROVE Pair(a, b, k)'
    <3>1. CASE k = o
      <4>1. \A x \in Issue : Queued(o, x) \/ RecordedBy(o, x) => Before(o, x, i)
        BY <1>o, <2>1, <2>3, <2>4 DEF Pair
      <4>2. Prec(queue'[o], a, b) => Before(o, a, b)
        BY <1>o, <2>1, <2>2, <4>1 DEF Pair, Queued
      <4>3. (working[o] = a \/ RecordedBy(o, a)) /\ In(queue'[o], b) => Before(o, a, b)
        BY <1>o, <2>1, <2>2, <4>1 DEF Pair, Queued
      <4>4. (Queued(o, a)' \/ RecordedBy(o, a)) /\ In(line[o], b) /\ a # b => Before(o, a, b)
        <5>1. CASE a = i
          BY <1>o, <2>1, <2>4, <5>1 DEF Pair
        <5>2. CASE a # i
          BY <1>o, <2>1, <2>2, <5>2 DEF Pair, Queued
        <5> QED
          BY <5>1, <5>2
      <4> QED
        BY <1>o, <2>1, <2>6, <2>7, <3>1, <4>2, <4>3, <4>4 DEF Pair
    <3>2. CASE k # o
      <4>1. Queued(k, a)' <=> Queued(k, a)
        BY <2>1, <3>2 DEF Queued
      <4> QED
        BY <1>o, <2>1, <2>6, <2>7, <3>2, <4>1 DEF Pair
    <3> QED
      BY <3>1, <3>2
  <2> QED
    BY <2>5, <2>8
<1>4. ASSUME NEW i \in Issue, ReportEnds(i) \/ ReportFails(i)
      PROVE  OnChain(a, b)' /\ \A k \in Instance : Pair(a, b, k)'
  <2> DEFINE o == owner[i]
  <2>1. /\ o \in Instance
        /\ line'[o] = Tail(line[o]) /\ line[o] \in Seq(Issue) /\ line[o] # <<>>
        /\ \A k \in Instance \ {o} : line'[k] = line[k]
        /\ UNCHANGED <<owner, called, queue, working, fate, chain>>
    BY <1>t, <1>4, ServedFirst DEF ReportEnds, ReportFails, Leave, TypeOK
  <2>2. \A k \in Instance : /\ \A x : In(line'[k], x) => In(line[k], x)
                            /\ \A x, y : Prec(line'[k], x, y) => Prec(line[k], x, y)
    BY <2>1, FirstGone
  <2> QED
    BY <1>o, <2>1, <2>2 DEF OnChain, Pair, Before, RecordedBy, Queued
<1>5. ASSUME NEW k \in Instance, TakeUp(k)
      PROVE  OnChain(a, b)' /\ \A l \in Instance : Pair(a, b, l)'
  <2>1. /\ working[k] = None /\ queue[k] \in Seq(Issue) /\ queue[k] # <<>>
        /\ working'[k] = Head(queue[k]) /\ queue'[k] = Tail(queue[k])
        /\ \A l \in Instance \ {k} : working'[l] = working[l] /\ queue'[l] = queue[l]
        /\ UNCHANGED <<owner, line, called, fate, chain>>
    BY <1>t, <1>5 DEF TakeUp, Rest, TypeOK
  <2>2. /\ \A x : In(queue[k], x) <=> x = working'[k] \/ In(queue'[k], x)
        /\ \A x, y : Prec(queue[k], x, y) <=>
                       Prec(queue'[k], x, y) \/ (x = working'[k] /\ In(queue'[k], y))
    BY <2>1, FirstGone
  <2>3. OnChain(a, b)'
    BY <1>o, <2>1 DEF OnChain, Before
  <2>4. /\ \A l \in Instance, x \in Issue : RecordedBy(l, x)' <=> RecordedBy(l, x)
        /\ \A l \in Instance, x, y \in Issue : Before(l, x, y)' <=> Before(l, x, y)
    BY <2>1 DEF RecordedBy, Before
  <2>5. ASSUME NEW l \in Instance PROVE Pair(a, b, l)'
    <3>1. CASE l = k
      <4>1. Queued(k, a)' => Queued(k, a)
        BY <2>2 DEF Queued
      <4>2. working'[k] = a /\ In(queue'[k], b) => Before(k, a, b)
        BY <1>o, <2>2 DEF Pair
      <4>3. RecordedBy(k, a) /\ (In(queue'[k], b) \/ working'[k] = b) => Before(k, a, b)
        BY <1>o, <2>2 DEF Pair
      <4>4. Prec(queue'[k], a, b) => Before(k, a, b)
        BY <1>o, <2>2 DEF Pair
      <4> QED
        BY <1>o, <2>1, <2>4, <3>1, <4>1, <4>2, <4>3, <4>4 DEF Pair
    <3>2. CASE l # k
      <4>1. Queued(l, a)' <=> Queued(l, a)
        BY <2>1, <3>2 DEF Queued
      <4> QED
        BY <1>o, <2>1, <2>4, <3>2, <4>1 DEF Pair
    <3> QED
      BY <3>1, <3>2
  <2> QED
    BY <2>3, <2>5
<1>6. ASSUME NEW k \in Instance, Record(k) \/ Drop(k) \/ Interrupt(k)
      PROVE  OnChain(a, b)' /\ \A l \in Instance : Pair(a, b, l)'
  <2> DEFINE i == working[k]
  <2>1. /\ i \in Issue /\ \A u \in Issue \ {i} : fate'[u] = fate[u]
        /\ working'[k] = None /\ \A l \in Instance \ {k} : working'[l] = working[l]
        /\ UNCHANGED <<owner, line, called, queue>>
        /\ chain' = chain \/ chain' = Append(chain, i)
    BY <1>t, <1>6 DEF Record, Drop, Interrupt, Settle, TypeOK
  <2>2. \A x, y : Prec(chain', x, y) => Prec(chain, x, y) \/ (In(chain, x) /\ y = i)
    <3>1. CASE chain' = chain
      BY <3>1
    <3>2. CASE chain' = Append(chain, i)
      BY <1>t, <2>1, <3>2, Appended DEF TypeOK
    <3> QED
      BY <2>1, <3>1, <3>2
  <2>3. Queued(k, i) /\ owner[i] = k /\ ~In(chain, i) /\ ~RecordedBy(k, i)
    BY <1>p, <2>1 DEF At, In1, Queued, RecordedBy
  <2>4. \A l \in Instance, x, y \in Issue : Before(l, x, y)' <=> Before(l, x, y)
    BY <2>1 DEF Before
  <2>5. OnChain(a, b)'
    <3>1. CASE Prec(chain, a, b)
      <4>1. a # i /\ b # i
        BY <2>3, <3>1, PrecIn
      <4>2. owner[a] = owner[b] /\ fate[a] = "recorded" /\ fate[b] = "recorded" =>
              Before(owner[a], a, b)
        BY <1>o, <3>1 DEF OnChain
      <4>3. fate'[a] = fate[a] /\ fate'[b] = fate[b] /\ UNCHANGED <<owner, called>>
        BY <2>1, <4>1
      <4> QED
        BY <4>2, <4>3 DEF OnChain, Before
    <3>2. CASE In(chain, a) /\ b = i
      <4>1. a # i
        BY <2>3, <3>2
      <4>2. RecordedBy(k, a) => Before(k, a, i)
        BY <1>o, <2>1 DEF Pair
      <4>3. fate'[a] = fate[a] /\ UNCHANGED <<owner, called>>
        BY <2>1, <4>1
      <4> QED
        BY <2>3, <3>2, <4>2, <4>3 DEF OnChain, Before, RecordedBy
    <3>3. CASE ~Prec(chain', a, b)
      BY <3>3 DEF OnChain
    <3> QED
      BY <2>2, <3>1, <3>2, <3>3
  <2>6. ASSUME NEW l \in Instance PROVE Pair(a, b, l)'
    <3>1. Queued(l, a)' => Queued(l, a)
      BY <1>n, <2>1 DEF Queued
    <3>2. CASE l = k
      <4>1. RecordedBy(k, a)' => RecordedBy(k, a) \/ a = i
        BY <2>1 DEF RecordedBy
      <4>2. working'[k] # a /\ working'[k] # b
        BY <1>n, <2>1
      <4>3. a = i => /\ In(queue[k], b) => Before(k, a, b)
                     /\ In(line[k], b) /\ a # b => Before(k, a, b)
        BY <1>o, <2>3 DEF Pair
      <4> QED
        BY <1>o, <2>1, <2>4, <3>1, <3>2, <4>1, <4>2, <4>3 DEF Pair
    <3>3. CASE l # k
      <4>1. RecordedBy(l, a)' => RecordedBy(l, a)
        BY <2>1, <2>3, <3>3 DEF RecordedBy
      <4> QED
        BY <1>o, <2>1, <2>4, <3>1, <3>3, <4>1 DEF Pair
    <3> QED
      BY <3>2, <3>3
  <2> QED
    BY <2>5, <2>6
<1>7. ASSUME NEW i \in Issue, LateRecord(i)
      PROVE  OnChain(a, b)' /\ \A k \in Instance : Pair(a, b, k)'
  <2>1. /\ fate[i] # "recorded" /\ chain' = Append(chain, i)
        /\ UNCHANGED <<owner, line, called, queue, working, fate>>
    BY <1>7 DEF LateRecord
  <2>2. \A x, y : Prec(chain', x, y) => Prec(chain, x, y) \/ y = i
    BY <1>t, <2>1, Appended DEF TypeOK
  <2>3. OnChain(a, b)'
    BY <1>o, <2>1, <2>2 DEF OnChain, Before
  <2>4. \A k \in Instance : Pair(a, b, k)'
    BY <1>o, <2>1 DEF Pair, Before, RecordedBy, Queued
  <2> QED
    BY <2>3, <2>4
<1>8. CASE Crash
  <2>1. /\ UNCHANGED <<owner, called, chain>>
        /\ fate'[a] = "recorded" <=> fate[a] = "recorded"
        /\ fate'[b] = "recorded" <=> fate[b] = "recorded"
    BY <1>8 DEF Crash
  <2>2. \A k \in Instance : line'[k] = <<>> /\ queue'[k] = <<>> /\ working'[k] = None
    BY <1>8 DEF Crash
  <2>3. \A k \in Instance : /\ ~In(line'[k], b) /\ ~Prec(line'[k], a, b)
                            /\ ~In(queue'[k], b) /\ ~Prec(queue'[k], a, b)
    BY <2>2, NothingIn
  <2>4. OnChain(a, b)'
    BY <1>o, <2>1 DEF OnChain, Before
  <2>5. \A k \in Instance : Pair(a, b, k)'
    BY <1>n, <2>2, <2>3 DEF Pair
  <2> QED
    BY <2>4, <2>5
<1>9. CASE Setup \/ Unload \/ UNCHANGED vars
  BY <1>0, <1>9 DEF Setup, Unload, vars
<1> QED
  BY <1>1, <1>2, <1>3, <1>4, <1>5, <1>6, <1>7, <1>8, <1>9
     DEF Next, CallStep, WorkerStep, Quiescent

\* Whatever reloads and crashes come between, the records of one instance keep
\* the order in which the watchers' calls reached its service.
THEOREM RecordsInCallOrder == Spec => []ChainOrder
<1>1. Init => Typed /\ Ordered
  BY TypedInit, OrderedInit
<1>2. Typed /\ Ordered /\ [Next]_vars => (Typed /\ Ordered)'
  BY TypeStep, SetUpStep, PlacedStep, OrderedStep DEF Typed
<1>3. Typed /\ Ordered => ChainOrder
  <2> SUFFICES ASSUME Typed, Ordered, NEW m \in 1 .. Len(chain), NEW n \in 1 .. Len(chain), m < n,
                      owner[chain[m]] = owner[chain[n]],
                      fate[chain[m]] = "recorded", fate[chain[n]] = "recorded"
               PROVE  \E p, q \in 1 .. Len(called[owner[chain[m]]]) :
                        /\ p < q
                        /\ called[owner[chain[m]]][p] = chain[m]
                        /\ called[owner[chain[m]]][q] = chain[n]
    BY DEF ChainOrder
  <2>1. chain[m] \in Issue /\ chain[n] \in Issue /\ Prec(chain, chain[m], chain[n])
    BY DEF Typed, TypeOK, Prec
  <2>2. Before(owner[chain[m]], chain[m], chain[n])
    BY <2>1 DEF Ordered
  <2> QED
    BY <2>2 DEF Before, Prec
<1> QED
  BY <1>1, <1>2, <1>3, PTL DEF Spec
-----------------------------------------------------------------------------
(* Refinement: the datalog queue of each set-up is a delivery service.      *)

DeliveryOf(k) == INSTANCE DatalogDelivery WITH
  Payload <- Issue,
  pending <- queue[k],
  inFlight <- {working[k]} \ {None},
  fate <- FateAt(k)

\* An issue was handed to the Robonomics of the instance that took its call, if
\* to any, and is queued only there.
Handed ==
  \A i \in Issue, k \in Instance :
    /\ In(sent[k], i) <=> owner[i] = k /\ fate[i] # "unsent"
    /\ Queued(k, i) => In(sent[k], i)

\* The fate that instance k's service shows
View(k, i) ==
  IF owner[i] = k /\ fate[i] # "unsent"
  THEN IF fate[i] = "cut" THEN "lost" ELSE fate[i]
  ELSE "unsent"

LEMMA HandedInit == Init => Handed
<1> SUFFICES ASSUME Init, NEW i \in Issue, NEW k \in Instance
             PROVE  ~In(sent[k], i) /\ fate[i] = "unsent" /\ ~Queued(k, i)
  BY DEF Handed
<1>1. sent[k] = <<>> /\ queue[k] = <<>> /\ working[k] = None /\ fate[i] = "unsent" /\ i # None
  BY NoneAssumption DEF Init
<1> QED
  BY <1>1, NothingIn DEF Queued

LEMMA HandedStep == Typed /\ Handed /\ [Next]_vars => Handed'
<1> SUFFICES ASSUME Typed, Handed, [Next]_vars, NEW j \in Issue, NEW l \in Instance
             PROVE  /\ In(sent'[l], j) <=> owner'[j] = l /\ fate'[j] # "unsent"
                    /\ Queued(l, j)' => In(sent'[l], j)
  BY DEF Handed
<1> USE DEF entryVars, callVars, queueVars, outVars
<1>t. TypeOK /\ SetUp /\ Placed
  BY DEF Typed
<1>h. /\ In(sent[l], j) <=> owner[j] = l /\ fate[j] # "unsent"
      /\ Queued(l, j) => In(sent[l], j)
  BY DEF Handed
<1>0. CASE UNCHANGED <<owner, sent, queue, working, fate>>
  BY <1>h, <1>0 DEF Queued
<1>1. ASSUME NEW i \in Issue, Dispatch(i)
      PROVE  /\ In(sent'[l], j) <=> owner'[j] = l /\ fate'[j] # "unsent"
             /\ Queued(l, j)' => In(sent'[l], j)
  <2>1. /\ fate[i] = "unsent" /\ \A u \in Issue \ {i} : owner'[u] = owner[u]
        /\ UNCHANGED <<sent, queue, working, fate>>
    BY <1>t, <1>1 DEF Dispatch, Placed, TypeOK
  <2> QED
    BY <1>h, <2>1 DEF Queued
<1>2. ASSUME NEW i \in Issue, Enqueue(i)
      PROVE  /\ In(sent'[l], j) <=> owner'[j] = l /\ fate'[j] # "unsent"
             /\ Queued(l, j)' => In(sent'[l], j)
  <2> DEFINE o == owner[i]
  <2>1. /\ o \in Instance /\ fate'[i] = "accepted"
        /\ \A u \in Issue \ {i} : fate'[u] = fate[u]
        /\ queue'[o] = Append(queue[o], i) /\ queue[o] \in Seq(Issue)
        /\ sent'[o] = Append(sent[o], i) /\ sent[o] \in Seq(Issue)
        /\ \A k \in Instance \ {o} : queue'[k] = queue[k] /\ sent'[k] = sent[k]
        /\ UNCHANGED <<owner, working>>
    BY <1>t, <1>2, ServedFirst DEF Enqueue, InTurn, TypeOK
  <2>2. /\ \A x : In(queue'[o], x) <=> In(queue[o], x) \/ x = i
        /\ \A x : In(sent'[o], x) <=> In(sent[o], x) \/ x = i
    BY <2>1, Appended
  <2> HIDE DEF o
  <2>3. CASE l = o
    BY <1>h, <2>1, <2>2, <2>3 DEF Queued, o
  <2>4. CASE l # o
    BY <1>h, <2>1, <2>4 DEF Queued, o
  <2> QED
    BY <2>3, <2>4
<1>3. ASSUME NEW k \in Instance, TakeUp(k)
      PROVE  /\ In(sent'[l], j) <=> owner'[j] = l /\ fate'[j] # "unsent"
             /\ Queued(l, j)' => In(sent'[l], j)
  <2>1. /\ queue[k] \in Seq(Issue) /\ queue[k] # <<>>
        /\ working'[k] = Head(queue[k]) /\ queue'[k] = Tail(queue[k])
        /\ \A m \in Instance \ {k} : working'[m] = working[m] /\ queue'[m] = queue[m]
        /\ UNCHANGED <<owner, sent, fate>>
    BY <1>t, <1>3 DEF TakeUp, Rest, TypeOK
  <2>2. \A x : In(queue[k], x) <=> x = working'[k] \/ In(queue'[k], x)
    BY <2>1, FirstGone
  <2> QED
    BY <1>h, <2>1, <2>2 DEF Queued
<1>4. ASSUME NEW k \in Instance, Record(k) \/ Drop(k) \/ Interrupt(k)
      PROVE  /\ In(sent'[l], j) <=> owner'[j] = l /\ fate'[j] # "unsent"
             /\ Queued(l, j)' => In(sent'[l], j)
  <2>1. /\ working[k] \in Issue /\ working'[k] = None /\ fate'[working[k]] # "unsent"
        /\ \A u \in Issue \ {working[k]} : fate'[u] = fate[u]
        /\ \A m \in Instance \ {k} : working'[m] = working[m]
        /\ UNCHANGED <<owner, sent, queue>>
    BY <1>t, <1>4 DEF Record, Drop, Interrupt, Settle, TypeOK
  <2>2. fate[working[k]] = "accepted"
    BY <1>t, <2>1 DEF Placed, Queued
  <2>3. j # None
    BY NoneAssumption
  <2> QED
    BY <1>h, <2>1, <2>2, <2>3 DEF Queued
<1>5. CASE Crash
  <2>1. /\ queue'[l] = <<>> /\ working'[l] = None /\ UNCHANGED <<owner, sent>>
        /\ fate'[j] = "unsent" <=> fate[j] = "unsent"
    BY <1>t, <1>5 DEF Crash, TypeOK
  <2>2. ~Queued(l, j)'
    BY <2>1, NothingIn, NoneAssumption DEF Queued
  <2> QED
    BY <1>h, <2>1, <2>2
<1> QED
  BY <1>0, <1>1, <1>2, <1>3, <1>4, <1>5
     DEF Next, SendReport, CallStep, MakeCall, NotFound, Pin, PinUnsure, ReportEnds, ReportFails,
         WorkerStep, LateRecord, Setup, Unload, Quiescent, vars

\* FateAt in terms of the issue alone
LEMMA Shown ==
  ASSUME NEW k \in Instance, Typed, Handed
  PROVE  FateAt(k) = [i \in Issue |-> View(k, i)]
<1>1. \A i \in Issue : i \in ToSet(sent[k]) <=> In(sent[k], i)
  BY InToSet DEF Typed, TypeOK
<1> QED
  BY <1>1 DEF FateAt, View, Handed

LEMMA ShownNext ==
  ASSUME NEW k \in Instance, Typed', Handed'
  PROVE  FateAt(k)' = [i \in Issue |-> View(k, i)']
<1>1. \A i \in Issue : i \in ToSet(sent'[k]) <=> In(sent'[k], i)
  BY InToSet DEF Typed, TypeOK
<1> QED
  BY <1>1 DEF FateAt, View, Handed

LEMMA DeliveryInit ==
  ASSUME NEW k \in Instance, Init
  PROVE  DeliveryOf(k)!Init
<1>1. FateAt(k) = [i \in Issue |-> "unsent"]
  BY TypedInit, HandedInit, Shown DEF Init, View
<1> QED
  BY <1>1 DEF Init, DeliveryOf!Init

LEMMA DeliveryStep ==
  ASSUME NEW k \in Instance, Typed, Handed, Typed', Handed', [Next]_vars
  PROVE  DeliveryOf(k)!Next \/ UNCHANGED DeliveryOf(k)!vars
<1> USE DEF entryVars, callVars, queueVars, outVars
<1>t. TypeOK /\ SetUp /\ Placed
  BY DEF Typed
<1>s. /\ FateAt(k) = [i \in Issue |-> View(k, i)]
      /\ FateAt(k)' = [i \in Issue |-> View(k, i)']
  BY Shown, ShownNext
<1>u. ASSUME queue'[k] = queue[k], working'[k] = working[k],
             \A i \in Issue : View(k, i)' = View(k, i)
      PROVE  UNCHANGED DeliveryOf(k)!vars
  BY <1>s, <1>u DEF DeliveryOf!vars
<1>0. CASE UNCHANGED <<owner, queue, working, fate>>
  BY <1>0, <1>u DEF View
<1>1. ASSUME NEW i \in Issue, Dispatch(i) PROVE UNCHANGED DeliveryOf(k)!vars
  <2>1. /\ fate[i] = "unsent" /\ \A u \in Issue \ {i} : owner'[u] = owner[u]
        /\ UNCHANGED <<queue, working, fate>>
    BY <1>t, <1>1 DEF Dispatch, Placed, TypeOK
  <2> QED
    BY <1>u, <2>1 DEF View
<1>2. ASSUME NEW i \in Issue, Enqueue(i)
      PROVE  DeliveryOf(k)!Next \/ UNCHANGED DeliveryOf(k)!vars
  <2>1. /\ owner[i] \in Instance /\ fate[i] = "unsent" /\ fate'[i] = "accepted"
        /\ \A u \in Issue \ {i} : fate'[u] = fate[u]
        /\ queue'[owner[i]] = Append(queue[owner[i]], i)
        /\ \A m \in Instance \ {owner[i]} : queue'[m] = queue[m]
        /\ UNCHANGED <<owner, working>>
    BY <1>t, <1>2, ServedFirst DEF Enqueue, InTurn, TypeOK, Placed
  <2>2. CASE owner[i] = k
    <3>1. /\ View(k, i) = "unsent" /\ View(k, i)' = "accepted"
          /\ \A u \in Issue \ {i} : View(k, u)' = View(k, u)
      BY <2>1, <2>2 DEF View
    <3>2. FateAt(k)' = [FateAt(k) EXCEPT ![i] = "accepted"]
      BY <1>s, <3>1
    <3>3. FateAt(k)[i] = "unsent"
      BY <1>s, <3>1
    <3>4. DeliveryOf(k)!Accept(i)
      BY <2>1, <2>2, <3>2, <3>3 DEF DeliveryOf!Accept
    <3> QED
      BY <3>4 DEF DeliveryOf!Next
  <2>3. CASE owner[i] # k
    BY <1>u, <2>1, <2>3 DEF View
  <2> QED
    BY <2>2, <2>3
<1>3. ASSUME NEW m \in Instance, TakeUp(m)
      PROVE  DeliveryOf(k)!Next \/ UNCHANGED DeliveryOf(k)!vars
  <2>1. /\ working[m] = None /\ queue[m] \in Seq(Issue) /\ queue[m] # <<>>
        /\ working'[m] = Head(queue[m]) /\ queue'[m] = Tail(queue[m])
        /\ \A n \in Instance \ {m} : working'[n] = working[n] /\ queue'[n] = queue[n]
        /\ UNCHANGED <<owner, fate>>
    BY <1>t, <1>3 DEF TakeUp, Rest, TypeOK
  <2>2. FateAt(k)' = FateAt(k)
    BY <1>s, <2>1 DEF View
  <2>3. CASE m = k
    <3>1. Head(queue[k]) \in Issue
      BY <2>1, <2>3, FirstGone
    <3>2. /\ {working[k]} \ {None} = {}
          /\ ({working[k]} \ {None})' = {Head(queue[k])}
      BY <2>1, <2>3, <3>1, NoneAssumption
    <3>3. DeliveryOf(k)!TakeUp
      BY <2>1, <2>2, <2>3, <3>2 DEF DeliveryOf!TakeUp
    <3> QED
      BY <3>3 DEF DeliveryOf!Next
  <2>4. CASE m # k
    BY <2>1, <2>2, <2>4 DEF DeliveryOf!vars
  <2> QED
    BY <2>3, <2>4
<1>4. ASSUME NEW m \in Instance, Record(m) \/ Drop(m) \/ Interrupt(m)
      PROVE  DeliveryOf(k)!Next \/ UNCHANGED DeliveryOf(k)!vars
  <2>1. PICK f \in {"recorded", "dropped", "abandoned"} : Settle(m, f)
    BY <1>4 DEF Record, Drop, Interrupt
  <2>2. PICK i \in Issue : i = working[m]
    BY <1>t, <1>4 DEF Record, Drop, Interrupt, TypeOK
  <2>3. /\ working'[m] = None /\ fate'[i] = f
        /\ \A u \in Issue \ {i} : fate'[u] = fate[u]
        /\ \A n \in Instance \ {m} : working'[n] = working[n]
        /\ UNCHANGED <<owner, queue>>
    BY <1>t, <2>1, <2>2 DEF Settle, TypeOK
  <2>4. owner[i] = m /\ fate[i] = "accepted"
    BY <1>t, <2>2 DEF Placed, Queued
  <2>5. CASE m = k
    <3>1. View(k, i)' = f /\ \A u \in Issue \ {i} : View(k, u)' = View(k, u)
      BY <2>3, <2>4, <2>5 DEF View
    <3>2. FateAt(k)' = [FateAt(k) EXCEPT ![i] = f]
      BY <1>s, <3>1
    <3>3. /\ {working[k]} \ {None} = {i}
          /\ ({working[k]} \ {None})' = {}
      BY <2>2, <2>3, <2>5, NoneAssumption
    <3>4. DeliveryOf(k)!Settle(i)
      BY <2>3, <3>2, <3>3 DEF DeliveryOf!Settle, DeliveryOf!Fate
    <3> QED
      BY <3>4 DEF DeliveryOf!Next
  <2>6. CASE m # k
    <3>1. \A u \in Issue : View(k, u)' = View(k, u)
      BY <2>3, <2>4, <2>6 DEF View
    <3> QED
      BY <1>u, <2>3, <2>6, <3>1
  <2> QED
    BY <2>5, <2>6
<1>5. CASE Crash
  <2>1. /\ queue'[k] = <<>> /\ working'[k] = None /\ UNCHANGED owner
        /\ \A i \in Issue : fate'[i] = IF fate[i] # "accepted" THEN fate[i]
             ELSE IF \E m \in Instance : working[m] = i THEN "cut" ELSE "lost"
    BY <1>5 DEF Crash
  <2>2. \A i \in Issue :
          View(k, i)' = IF View(k, i) = "accepted" THEN "lost" ELSE View(k, i)
    BY <2>1 DEF View
  <2>3. FateAt(k)' =
          [i \in Issue |-> IF FateAt(k)[i] = "accepted" THEN "lost" ELSE FateAt(k)[i]]
    BY <1>s, <2>2
  <2>4. DeliveryOf(k)!Crash
    BY <2>1, <2>3 DEF DeliveryOf!Crash
  <2> QED
    BY <2>4 DEF DeliveryOf!Next
<1> QED
  BY <1>0, <1>1, <1>2, <1>3, <1>4, <1>5
     DEF Next, SendReport, CallStep, MakeCall, NotFound, Pin, PinUnsure, ReportEnds, ReportFails,
         WorkerStep, LateRecord, Setup, Unload, Quiescent, vars

\* Over reloads, unloads and crashes, the queue of every set-up keeps what the
\* datalog service promises: one payload at a time, in order, one fate for each.
\* (That each gets one in the end is model-checked, for the first set-up.)
THEOREM EachQueueDelivers ==
  ASSUME NEW k \in Instance
  PROVE  Spec => DeliveryOf(k)!Spec
<1>1. Init => DeliveryOf(k)!Init
  BY DeliveryInit
<1>2. Init => Typed /\ Handed
  BY TypedInit, HandedInit
<1>3. Typed /\ Handed /\ [Next]_vars => (Typed /\ Handed)'
  BY TypeStep, SetUpStep, PlacedStep, HandedStep DEF Typed
<1>4. Typed /\ Handed /\ Typed' /\ Handed' /\ [Next]_vars =>
        [DeliveryOf(k)!Next]_(DeliveryOf(k)!vars)
  BY DeliveryStep
<1> QED
  BY <1>1, <1>2, <1>3, <1>4, PTL DEF Spec, DeliveryOf!Spec
-----------------------------------------------------------------------------
(* Refinement: each instance serves its callers as ReportIntake promises.   *)

\* A report that is about to be handed over is pinned; one that has been, is
\* on its way to a fate; a call that no instance took has none.
Taken ==
  \A i \in Issue : /\ stage[i] = "pinned" => i \in pinned
                   /\ stage[i] = "sent" => fate[i] # "unsent"
                   /\ stage[i] = "notFound" => owner[i] = 0

LEMMA TakenStep == Typed /\ Taken /\ [Next]_vars => Taken'
<1> SUFFICES ASSUME Typed, Taken, [Next]_vars, NEW j \in Issue
             PROVE  /\ stage'[j] = "pinned" => j \in pinned'
                    /\ stage'[j] = "sent" => fate'[j] # "unsent"
                    /\ stage'[j] = "notFound" => owner'[j] = 0
  BY DEF Taken
<1> USE DEF entryVars, callVars, queueVars, outVars
<1>t. TypeOK /\ Placed
  BY DEF Typed
<1>j. /\ stage[j] = "pinned" => j \in pinned /\ fate[j] = "unsent"
      /\ stage[j] = "sent" => fate[j] # "unsent"
      /\ stage[j] = "notFound" => owner[j] = 0
      /\ stage[j] = "task" => owner[j] = 0
  BY <1>t DEF Taken, Placed
<1>0. CASE UNCHANGED <<stage, owner, pinned, fate>>
  BY <1>j, <1>0
<1>1. ASSUME NEW i \in Issue,
             \/ SendReport(i) \/ MakeCall(i) \/ NotFound(i) \/ Dispatch(i)
             \/ PinUnsure(i) \/ ReportEnds(i) \/ ReportFails(i)
      PROVE  /\ stage'[j] = "pinned" => j \in pinned'
             /\ stage'[j] = "sent" => fate'[j] # "unsent"
             /\ stage'[j] = "notFound" => owner'[j] = 0
  <2>1. /\ stage'[i] \notin {"pinned", "sent"} /\ \A u \in Issue \ {i} : stage'[u] = stage[u]
        /\ pinned \subseteq pinned' /\ UNCHANGED fate
    BY <1>t, <1>1 DEF SendReport, MakeCall, NotFound, Dispatch, PinUnsure, ReportEnds,
                      ReportFails, Goto, TypeOK
  <2>2. /\ stage'[i] = "notFound" => stage[i] = "task" /\ UNCHANGED owner
        /\ \A u \in Issue \ {i} : owner'[u] = owner[u]
    BY <1>t, <1>1 DEF SendReport, MakeCall, NotFound, Dispatch, PinUnsure, ReportEnds,
                      ReportFails, Goto, TypeOK
  <2> QED
    BY <1>j, <1>t, <2>1, <2>2 DEF Placed
<1>2. ASSUME NEW i \in Issue, Pin(i) \/ Enqueue(i)
      PROVE  /\ stage'[j] = "pinned" => j \in pinned'
             /\ stage'[j] = "sent" => fate'[j] # "unsent"
             /\ stage'[j] = "notFound" => owner'[j] = 0
  BY <1>t, <1>j, <1>2 DEF Pin, Enqueue, Goto, TypeOK
<1>3. ASSUME NEW k \in Instance, Record(k) \/ Drop(k) \/ Interrupt(k)
      PROVE  /\ stage'[j] = "pinned" => j \in pinned'
             /\ stage'[j] = "sent" => fate'[j] # "unsent"
             /\ stage'[j] = "notFound" => owner'[j] = 0
  <2>1. PICK w \in Issue : w = working[k]
    BY <1>t, <1>3 DEF Record, Drop, Interrupt, TypeOK
  <2>2. fate[w] = "accepted"
    BY <1>t, <2>1 DEF Placed, Queued
  <2>3. /\ fate'[w] # "unsent" /\ \A u \in Issue \ {w} : fate'[u] = fate[u]
        /\ UNCHANGED <<stage, owner>> /\ pinned \ {w} \subseteq pinned'
    BY <1>t, <1>3, <2>1 DEF Record, Drop, Interrupt, Settle, CleanUp, TypeOK
  <2> QED
    BY <1>j, <2>2, <2>3
<1>4. CASE Crash
  <2>1. (stage'[j] = stage[j] /\ ~Underway(j)) \/ stage'[j] = "dead"
    BY <1>t, <1>4 DEF Crash, TypeOK
  <2>2. UNCHANGED owner
    BY <1>4 DEF Crash
  <2> QED
    BY <1>j, <2>1, <2>2 DEF Underway
<1> QED
  BY <1>0, <1>1, <1>2, <1>3, <1>4
     DEF Next, CallStep, WorkerStep, TakeUp, LateRecord, Setup, Unload, Quiescent, vars

\* Uploads in terms of the fates
LEMMA UploadedAs ==
  ASSUME Typed, Handed
  PROVE  Uploaded = pinned \cup unsure
                      \cup {i \in Issue : owner[i] \in Instance /\ fate[i] # "unsent"}
<1>1. \A i \in Issue, k \in Instance :
        i \in ToSet(sent[k]) <=> owner[i] = k /\ fate[i] # "unsent"
  BY InToSet DEF Typed, TypeOK, Handed
<1> QED
  BY <1>1 DEF Uploaded

LEMMA UploadedAsNext ==
  ASSUME Typed', Handed'
  PROVE  Uploaded' = pinned' \cup unsure'
                       \cup {i \in Issue : owner'[i] \in Instance /\ fate'[i] # "unsent"}
<1>1. \A i \in Issue, k \in Instance :
        i \in ToSet(sent'[k]) <=> owner'[i] = k /\ fate'[i] # "unsent"
  BY InToSet DEF Typed, TypeOK, Handed
<1> QED
  BY <1>1 DEF Uploaded

LEMMA IntakeInit == Init => Intake!Init
<1> SUFFICES ASSUME Init PROVE Intake!Init
  OBVIOUS
<1>1. Uploaded = {}
  <2>1. \A i \in Issue : fate[i] = "unsent"
    BY DEF Init
  <2> QED
    BY <2>1, TypedInit, HandedInit, UploadedAs DEF Init
<1>2. [i \in Issue |-> Known(i)] = [i \in Issue |-> "uncalled"]
  BY DEF Init, Known
<1> QED
  BY <1>1, <1>2 DEF Init, Intake!Init

LEMMA IntakeStep ==
  ASSUME Typed, Handed, Taken, Typed', Handed', [Next]_vars
  PROVE  Intake!Next \/ UNCHANGED Intake!vars
<1> USE DEF entryVars, callVars, queueVars, outVars
<1> DEFINE known == [i \in Issue |-> Known(i)]
           Kept == {i \in Issue : owner[i] \in Instance /\ fate[i] # "unsent"}
<1>t. TypeOK /\ SetUp /\ Placed
  BY DEF Typed
<1>p. Uploaded = pinned \cup unsure \cup Kept /\ Uploaded' = pinned' \cup unsure' \cup Kept'
  BY UploadedAs, UploadedAsNext
<1>w. ASSUME NEW i \in Issue, Served(i)
      PROVE  owner[i] \in Instance /\ Intake!InService(owner[i], i)
  BY <1>w, ServedFirst DEF Intake!InService
<1>d. ASSUME NEW i \in Issue, owner[i] \in Instance
      PROVE  Intake!HandedOver(owner[i], i) <=> fate[i] # "unsent"
  <2>1. sent[owner[i]] \in Seq(Issue)
    BY <1>t, <1>d DEF TypeOK
  <2>2. i \in ToSet(sent[owner[i]]) <=> fate[i] # "unsent"
    BY <1>d, <2>1, InToSet DEF Handed
  <2> QED
    BY <2>2 DEF Intake!HandedOver, Intake!ToSet, ToSet
\* Nothing that the callers see
<1>u. ASSUME UNCHANGED <<line, sent>>, Uploaded' = Uploaded,
             \A i \in Issue : Known(i)' = Known(i)
      PROVE  UNCHANGED Intake!vars
  <2>1. known' = known
    BY <1>u
  <2> QED
    BY <1>u, <2>1 DEF Intake!vars
<1>0. CASE UNCHANGED <<owner, line, stage, sent, fate, pinned, unsure>>
  <2>1. Uploaded' = Uploaded
    BY <1>0, <1>p
  <2> QED
    BY <1>0, <1>u, <2>1 DEF Known
<1>1. ASSUME NEW i \in Issue, SendReport(i) \/ MakeCall(i) \/ NotFound(i)
      PROVE  UNCHANGED Intake!vars
  <2>1. /\ owner[i] = 0 /\ \A u \in Issue \ {i} : stage'[u] = stage[u]
        /\ UNCHANGED <<owner, line, sent, fate, pinned, unsure>>
    BY <1>t, <1>1 DEF SendReport, MakeCall, NotFound, Goto, Placed, TypeOK
  <2>2. Uploaded' = Uploaded
    BY <1>p, <2>1
  <2> QED
    BY <1>u, <2>1, <2>2 DEF Known
<1>2. ASSUME NEW i \in Issue, Dispatch(i) PROVE Intake!Next
  <2>1. /\ instance \in Instance /\ owner[i] = 0 /\ fate[i] = "unsent"
        /\ owner' = [owner EXCEPT ![i] = instance]
        /\ stage' = [stage EXCEPT ![i] = "line"]
        /\ line' = [line EXCEPT ![instance] = Append(@, i)]
        /\ UNCHANGED <<sent, fate, pinned, unsure>>
    BY <1>t, <1>2 DEF Dispatch, Goto, SetUp, Placed
  <2>2. /\ Known(i) = "uncalled" /\ Known(i)' = "open"
        /\ \A u \in Issue \ {i} : Known(u)' = Known(u)
    BY <1>t, <2>1 DEF Known, TypeOK, Instance
  <2>3. known[i] = "uncalled" /\ known' = [known EXCEPT ![i] = "open"]
    BY <2>2
  <2>4. Uploaded' = Uploaded
    <3>1. Kept' = Kept
      BY <1>t, <2>1 DEF TypeOK
    <3> QED
      BY <1>p, <2>1, <3>1
  <2>5. Intake!Call(instance, i)
    BY <2>1, <2>3, <2>4 DEF Intake!Call
  <2> QED
    BY <2>1, <2>5 DEF Intake!Next
<1>3. ASSUME NEW i \in Issue, Pin(i) \/ PinUnsure(i) PROVE Intake!Next
  <2>1. /\ stage[i] = "line" /\ Served(i) /\ pinned' = pinned \cup {i}
        /\ unsure' \in {unsure, unsure \cup {i}}
        /\ stage' \in {[stage EXCEPT ![i] = s] : s \in {"pinned", "unsure"}}
        /\ UNCHANGED <<owner, line, sent, fate>>
    BY <1>3 DEF Pin, PinUnsure, Goto
  <2>2. Uploaded' = Uploaded \cup {i}
    BY <1>p, <2>1
  <2>3. \A u \in Issue : Known(u)' = Known(u)
    BY <1>t, <2>1 DEF Known, TypeOK
  <2>4. known' = known
    BY <2>3
  <2>5. Intake!Upload(owner[i], i)
    BY <1>w, <2>1, <2>2, <2>4 DEF Intake!Upload
  <2> QED
    BY <1>w, <2>1, <2>5 DEF Intake!Next
<1>4. ASSUME NEW i \in Issue, Enqueue(i) PROVE Intake!Next
  <2>1. /\ stage[i] = "pinned" /\ Served(i) /\ stage' = [stage EXCEPT ![i] = "sent"]
        /\ sent' = [sent EXCEPT ![owner[i]] = Append(@, i)]
        /\ fate' = [fate EXCEPT ![i] = "accepted"]
        /\ UNCHANGED <<owner, line, pinned, unsure>>
    BY <1>4 DEF Enqueue, Goto
  <2>2. /\ i \in pinned /\ fate[i] = "unsent" /\ owner[i] \in Instance
        /\ Intake!InService(owner[i], i)
    BY <1>t, <1>w, <2>1 DEF Taken, Placed
  <2>3. Uploaded' = Uploaded /\ i \in Uploaded
    <3>1. Kept' = Kept \cup {i}
      BY <1>t, <2>1, <2>2 DEF TypeOK
    <3> QED
      BY <1>p, <2>1, <2>2, <3>1
  <2>4. \A u \in Issue : Known(u)' = Known(u)
    BY <1>t, <2>1 DEF Known, TypeOK
  <2>5. known' = known
    BY <2>4
  <2>6. Intake!HandOver(owner[i], i)
    BY <1>d, <2>1, <2>2, <2>3, <2>5 DEF Intake!HandOver
  <2> QED
    BY <2>2, <2>6 DEF Intake!Next
<1>5. ASSUME NEW i \in Issue, ReportEnds(i) \/ ReportFails(i) PROVE Intake!Next
  <2>1. /\ Served(i) /\ line' = [line EXCEPT ![owner[i]] = Tail(@)]
        /\ \/ stage[i] = "sent" /\ stage' = [stage EXCEPT ![i] = "ok"]
           \/ stage[i] \in {"line", "unsure"} /\ stage' = [stage EXCEPT ![i] = "failed"]
        /\ UNCHANGED <<owner, sent, fate, pinned, unsure>>
    BY <1>5 DEF ReportEnds, ReportFails, Goto, Leave
  <2>2. owner[i] \in Instance /\ owner[i] # 0 /\ Intake!InService(owner[i], i)
    BY <1>w, <2>1 DEF Instance
  <2>3. fate[i] # "unsent" <=> stage[i] = "sent"
    BY <1>t, <2>1 DEF Taken, Placed
  <2>4. /\ Known(i)' = IF Intake!HandedOver(owner[i], i) THEN "ok" ELSE "failed"
        /\ \A u \in Issue \ {i} : Known(u)' = Known(u)
    BY <1>t, <1>d, <2>1, <2>2, <2>3 DEF Known, TypeOK
  <2>5. known' = [known EXCEPT ![i] = IF Intake!HandedOver(owner[i], i) THEN "ok" ELSE "failed"]
    BY <2>4
  <2>6. Uploaded' = Uploaded
    BY <1>p, <2>1
  <2>7. Intake!End(owner[i], i)
    BY <2>1, <2>2, <2>5, <2>6 DEF Intake!End
  <2> QED
    BY <2>2, <2>7 DEF Intake!Next
<1>6. ASSUME NEW k \in Instance, Record(k) \/ Drop(k) \/ Interrupt(k)
      PROVE  UNCHANGED Intake!vars
  <2>1. PICK w \in Issue : w = working[k]
    BY <1>t, <1>6 DEF Record, Drop, Interrupt, TypeOK
  <2>2. owner[w] \in Instance /\ fate[w] = "accepted"
    BY <1>t, <2>1 DEF Placed, Queued
  <2>3. /\ fate'[w] # "unsent" /\ \A u \in Issue \ {w} : fate'[u] = fate[u]
        /\ UNCHANGED <<owner, stage, line, sent, unsure>>
        /\ pinned' \subseteq pinned /\ pinned \ {w} \subseteq pinned'
    BY <1>t, <1>6, <2>1 DEF Record, Drop, Interrupt, Settle, CleanUp, TypeOK
  <2>4. Kept' = Kept /\ w \in Kept
    BY <2>2, <2>3
  <2>5. Uploaded' = Uploaded
    BY <1>p, <2>3, <2>4
  <2> QED
    BY <1>u, <2>3, <2>5 DEF Known
<1>7. CASE Crash
  <2>a. line' = [k \in Instance |-> <<>>] /\ UNCHANGED <<owner, sent, pinned, unsure>>
    BY <1>7 DEF Crash
  <2>b. ASSUME NEW i \in Issue
        PROVE  stage'[i] = IF Underway(i) THEN "dead" ELSE stage[i]
    BY <1>7 DEF Crash
  <2>c. ASSUME NEW i \in Issue
        PROVE  fate'[i] = "unsent" <=> fate[i] = "unsent"
    <3>1. fate'[i] = IF fate[i] # "accepted" THEN fate[i]
                     ELSE IF \E k \in Instance : working[k] = i THEN "cut" ELSE "lost"
      BY <1>7 DEF Crash
    <3> QED
      BY <3>1
  <2>1. /\ line' = [k \in Instance |-> <<>>] /\ UNCHANGED <<owner, sent, pinned, unsure>>
        /\ \A i \in Issue :
             /\ stage'[i] = IF Underway(i) THEN "dead" ELSE stage[i]
             /\ fate'[i] = "unsent" <=> fate[i] = "unsent"
    BY <2>a, <2>b, <2>c
  <2>2. Uploaded' = Uploaded
    <3>1. Kept' = Kept
      BY <2>1
    <3> QED
      BY <1>p, <2>1, <3>1
  <2>3. \A i \in Issue : Known(i)' = IF Known(i) = "open" THEN "lost" ELSE Known(i)
    BY <1>t, <2>1 DEF Known, Underway, Placed, Taken, TypeOK
  <2>4. known' = [i \in Issue |-> IF known[i] = "open" THEN "lost" ELSE known[i]]
    BY <2>3
  <2>5. Intake!Crash
    BY <2>1, <2>2, <2>4 DEF Intake!Crash
  <2> QED
    BY <2>5 DEF Intake!Next
<1>8. ASSUME NEW k \in Instance, TakeUp(k)
      PROVE  UNCHANGED <<owner, line, stage, sent, fate, pinned, unsure>>
  BY <1>8 DEF TakeUp
<1> QED
  BY <1>0, <1>1, <1>2, <1>3, <1>4, <1>5, <1>6, <1>7, <1>8
     DEF Next, CallStep, WorkerStep, LateRecord, Setup, Unload, Quiescent, vars

\* Over reloads, unloads and crashes, each instance serves its callers one at a
\* time in the order they came, and tells them "ok" exactly if it has handed
\* their report to its datalog queue: the way of an issue takes send_report at
\* its word, and no further.
THEOREM EachInstanceServesInTurn == Spec => Intake!Spec
<1>1. Init => Intake!Init
  BY IntakeInit
<1>2. Init => Typed /\ Handed /\ Taken
  <2>1. Init => Taken
    BY DEF Init, Taken
  <2> QED
    BY <2>1, TypedInit, HandedInit
<1>3. Typed /\ Handed /\ Taken /\ [Next]_vars => (Typed /\ Handed /\ Taken)'
  BY TypeStep, SetUpStep, PlacedStep, HandedStep, TakenStep DEF Typed
<1>4. Typed /\ Handed /\ Taken /\ Typed' /\ Handed' /\ [Next]_vars =>
        [Intake!Next]_(Intake!vars)
  BY IntakeStep
<1> QED
  BY <1>1, <1>2, <1>3, <1>4, PTL DEF Spec, Intake!Spec
-----------------------------------------------------------------------------
(* What the watcher's issue came to.                                        *)

\* A call that returned has handed its report on, and one that was refused or
\* raised has not and never gets a record, whatever instance took it.
AnswersAreHonest ==
  \A i \in Issue :
    /\ stage[i] \in {"sent", "ok"} => fate[i] # "unsent"
    /\ stage[i] \in {"failed", "notFound"} => fate[i] = "unsent"
    /\ fate[i] = "unsent" => i \notin ToSet(chain)
    /\ fate[i] = "recorded" => i \in ToSet(chain)

EndOfCall == {"ok", "failed", "notFound", "dead"}
EndOfSend == {"recorded", "dropped", "abandoned", "cut", "lost"}

\* Both ends are final, and a report whose call ended before it was handed on is
\* not handed on afterwards, by the next instance or after a restart.
EndsAreFinal ==
  [][\A i \in Issue :
       /\ stage[i] \in EndOfCall => stage'[i] = stage[i]
       /\ fate[i] \in EndOfSend => fate'[i] = fate[i]
       /\ stage[i] \in EndOfCall /\ fate[i] = "unsent" => fate'[i] = "unsent"]_vars

\* The course of one issue through a step: one stage further, handed on from
\* "pinned" only, settled from "accepted" only; and the chain keeps its records.
CourseOf(j) ==
  /\ \/ UNCHANGED <<stage[j], fate[j]>>
     \/ /\ stage[j] \in {"none", "trying", "task", "line", "unsure"}
        /\ stage'[j] \in {"trying", "task", "notFound", "line", "unsure", "pinned", "failed"}
        /\ fate'[j] = fate[j]
     \/ stage[j] = "pinned" /\ stage'[j] = "sent" /\ fate'[j] = "accepted"
     \/ stage[j] = "sent" /\ stage'[j] = "ok" /\ fate'[j] = fate[j]
     \/ /\ stage'[j] = stage[j] \/ (Underway(j) /\ stage'[j] = "dead")
        /\ fate'[j] = fate[j] \/ (fate[j] = "accepted" /\ fate'[j] \in EndOfSend)
  /\ In(chain, j) => In(chain', j)
  /\ fate'[j] = "recorded" /\ fate[j] # "recorded" => In(chain', j)

LEMMA Course ==
  ASSUME Typed, [Next]_vars, NEW j \in Issue
  PROVE  CourseOf(j)
<1> USE DEF entryVars, callVars, queueVars, outVars
<1>t. TypeOK /\ SetUp /\ Placed
  BY DEF Typed
<1>p. \A i \in Issue, k \in Instance : In1(i, k)
  BY <1>t, PlacedParts
<1>1. ASSUME NEW i \in Issue, \/ SendReport(i) \/ MakeCall(i) \/ Dispatch(i) \/ NotFound(i)
                              \/ Pin(i) \/ PinUnsure(i) \/ ReportEnds(i) \/ ReportFails(i)
      PROVE  CourseOf(j)
  <2>1. UNCHANGED <<fate, chain>> /\ \A u \in Issue \ {i} : stage'[u] = stage[u]
    BY <1>t, <1>1 DEF SendReport, MakeCall, Dispatch, NotFound, Pin, PinUnsure, ReportEnds,
                      ReportFails, Goto, TypeOK
  <2>2. \/ /\ stage[i] \in {"none", "trying", "task", "line", "unsure"}
           /\ stage'[i] \in {"trying", "task", "notFound", "line", "unsure", "pinned", "failed"}
        \/ stage[i] = "sent" /\ stage'[i] = "ok"
    BY <1>t, <1>1 DEF SendReport, MakeCall, Dispatch, NotFound, Pin, PinUnsure, ReportEnds,
                      ReportFails, Goto, TypeOK
  <2> QED
    BY <2>1, <2>2 DEF CourseOf
<1>2. ASSUME NEW i \in Issue, Enqueue(i) PROVE CourseOf(j)
  <2>1. /\ stage[i] = "pinned" /\ stage'[i] = "sent" /\ fate'[i] = "accepted" /\ chain' = chain
        /\ \A u \in Issue \ {i} : stage'[u] = stage[u] /\ fate'[u] = fate[u]
    BY <1>t, <1>2 DEF Enqueue, Goto, TypeOK
  <2> QED
    BY <2>1 DEF CourseOf
<1>3. ASSUME NEW k \in Instance, Record(k) \/ Drop(k) \/ Interrupt(k) PROVE CourseOf(j)
  <2> DEFINE i == working[k]
  <2>1. /\ i \in Issue /\ fate'[i] \in {"recorded", "dropped", "abandoned"} /\ stage' = stage
        /\ \A u \in Issue \ {i} : fate'[u] = fate[u]
        /\ \/ chain' = Append(chain, i)
           \/ chain' = chain /\ fate'[i] # "recorded"
    BY <1>t, <1>3 DEF Record, Drop, Interrupt, Settle, TypeOK
  <2>2. fate[i] = "accepted"
    BY <1>p, <2>1 DEF In1, Queued
  <2>3. /\ In(chain, j) => In(chain', j)
        /\ fate'[i] = "recorded" => In(chain', i)
    <3>1. chain \in Seq(Issue)
      BY <1>t DEF TypeOK
    <3>2. \A x : In(Append(chain, i), x) <=> In(chain, x) \/ x = i
      BY <2>1, <3>1, Appended
    <3> QED
      BY <2>1, <3>2
  <2> QED
    BY <2>1, <2>2, <2>3 DEF CourseOf, EndOfSend
<1>4. ASSUME NEW i \in Issue, LateRecord(i) PROVE CourseOf(j)
  <2>1. UNCHANGED <<stage, fate>> /\ chain' = Append(chain, i)
    BY <1>4 DEF LateRecord
  <2>2. In(chain, j) => In(chain', j)
    BY <1>t, <2>1, Appended DEF TypeOK
  <2> QED
    BY <2>1, <2>2 DEF CourseOf
<1>5. CASE Crash
  <2>1. /\ stage'[j] = IF Underway(j) THEN "dead" ELSE stage[j]
        /\ fate'[j] = fate[j] \/ (fate[j] = "accepted" /\ fate'[j] \in {"cut", "lost"})
        /\ chain' = chain
    BY <1>5 DEF Crash
  <2> QED
    BY <2>1 DEF CourseOf, EndOfSend
<1>6. ASSUME Setup \/ Unload \/ UNCHANGED vars \/ \E k \in Instance : TakeUp(k)
      PROVE  CourseOf(j)
  BY <1>6 DEF CourseOf, TakeUp, Setup, Unload, vars
<1> QED
  BY <1>1, <1>2, <1>3, <1>4, <1>5, <1>6 DEF Next, CallStep, WorkerStep, Quiescent

Honest ==
  \A i \in Issue : /\ stage[i] \in {"sent", "ok"} => fate[i] # "unsent"
                   /\ stage[i] \in {"failed", "notFound"} => fate[i] = "unsent"
                   /\ fate[i] = "recorded" => In(chain, i)

LEMMA HonestStep == Typed /\ Honest /\ [Next]_vars => Honest'
<1> SUFFICES ASSUME Typed, Honest, [Next]_vars, NEW j \in Issue
             PROVE  /\ stage'[j] \in {"sent", "ok"} => fate'[j] # "unsent"
                    /\ stage'[j] \in {"failed", "notFound"} => fate'[j] = "unsent"
                    /\ fate'[j] = "recorded" => In(chain', j)
  BY DEF Honest
<1>1. stage[j] \in {"none", "trying", "task", "line", "unsure"} => fate[j] = "unsent"
  BY DEF Typed, Placed
<1> QED
  BY <1>1, Course DEF CourseOf, Honest, EndOfSend, Underway

\* A watcher's issue whose call came back has been handed on, and one whose
\* call was refused or failed never reaches the chain; over all reloads.
THEOREM AnswersMatchTheChain == Spec => []AnswersAreHonest
<1>1. Init => Honest
  BY DEF Init, Honest
<1>2. Typed /\ Honest => AnswersAreHonest
  BY InToSet DEF Typed, TypeOK, Placed, Honest, AnswersAreHonest
<1> QED
  BY <1>1, <1>2, HonestStep, TypedAlways, PTL DEF Spec

\* What a call or a send came to is final: a restart, a reload or a late step of
\* an old instance neither revives an issue nor gives it a second fate.
THEOREM EndsStay == Spec => EndsAreFinal
<1>1. ASSUME Typed, [Next]_vars, NEW i \in Issue
      PROVE  /\ stage[i] \in EndOfCall => stage'[i] = stage[i]
             /\ fate[i] \in EndOfSend => fate'[i] = fate[i]
             /\ stage[i] \in EndOfCall /\ fate[i] = "unsent" => fate'[i] = "unsent"
  <2>1. stage[i] = "pinned" => fate[i] = "unsent"
    BY <1>1 DEF Typed, Placed
  <2> QED
    BY <1>1, <2>1, Course DEF CourseOf, EndOfCall, EndOfSend, Underway
<1>2. Typed /\ [Next]_vars
        => [\A i \in Issue :
              /\ stage[i] \in EndOfCall => stage'[i] = stage[i]
              /\ fate[i] \in EndOfSend => fate'[i] = fate[i]
              /\ stage[i] \in EndOfCall /\ fate[i] = "unsent" => fate'[i] = "unsent"]_vars
  BY <1>1
<1> QED
  BY <1>2, TypedAlways, PTL DEF EndsAreFinal, Spec
=============================================================================
