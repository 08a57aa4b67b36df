------------------------ MODULE EntitiesCheckerProofs ------------------------
(***************************************************************************)
(* Proofs about EntitiesChecker for any home, any number of checks and any *)
(* limits: typing, the lock, and then what the windows say.                *)
(*                                                                         *)
(* The windows tile because a check that has fixed a window holds the lock *)
(* until it has moved the period or given up (DraftsFit), and the lock has *)
(* one holder (LockHeld).  What a window reports is true of it because the *)
(* scan is one step that sees the state of the home at the window's end    *)
(* (SeenAtEnd), which the history of the home keeps.  Issues are made of   *)
(* windows one by one, so that each carries its window (IssueInv).         *)
(***************************************************************************)
EXTENDS EntitiesChecker, SequenceTheorems, FiniteSetTheorems, TLAPS

\* The scan finds the problems among all entities, registered or not.
LEMMA FoundIsProblems ==
  ASSUME TypeOK
  PROVE  Found = {e \in Entity : IsProblem(e, status, disabled)}
BY RegistryAssumption DEF Found, Unavailable, AllEntityIds, IsProblem, TypeOK

\* A check waits in the lock's queue; one that sleeps or loads is its holder.
LockHeld ==
  \A c \in Check :
    /\ pc[c] = "lock" => \E k \in 1 .. Len(lock) : lock[k] = c
    /\ pc[c] \in {"sleep", "email"} => lock # <<>> /\ Head(lock) = c

LEMMA ScannerHolds ==
  ASSUME TypeOK, LockHeld, NEW c \in Check, Scanning(c) \/ pc[c] = "email"
  PROVE  /\ lock # <<>> /\ Head(lock) = c /\ Len(lock) >= 1 /\ lock[1] = c
         /\ Tail(lock) \in Seq(Check) /\ Len(Tail(lock)) = Len(lock) - 1
         /\ \A k \in 1 .. Len(lock) - 1 : Tail(lock)[k] = lock[k + 1]
<1>1. lock # <<>>
  BY DEF LockHeld, Scanning, TypeOK
<1>2. Head(lock) = c
  BY DEF LockHeld, Scanning, HoldsLock
<1> QED
  BY <1>1, <1>2, HeadTailProperties DEF TypeOK

LEMMA TypedInit == Init => TypeOK
<1> SUFFICES ASSUME Init PROVE TypeOK
  OBVIOUS
<1>1. 0 \in Time /\ 0 \in 0 .. MaxChanges
  BY TimeAssumption DEF Time
<1>2. draft \in [Check -> Window]
  BY <1>1 DEF Init, Window, NoDraft
<1>3. \A e \in Entity : IsProblem(e, status, {}) \in BOOLEAN
  BY DEF IsProblem
<1>4. seen \in [Entity -> SUBSET (Time \X BOOLEAN)]
  BY <1>1, <1>3 DEF Init
<1>5. pc \in [Check -> {"idle", "lock", "sleep", "email", "done"}]
  BY DEF Init
<1>6. lock \in Seq(Check) /\ windows \in Seq(Window)
  BY DEF Init
<1> QED
  BY <1>1, <1>2, <1>4, <1>5, <1>6 DEF Init, TypeOK

LEMMA NoteTyped ==
  ASSUME TypeOK, NEW st, NEW dis, NEW t \in Time
  PROVE  /\ Note(st, dis, t) \in [Entity -> SUBSET (Time \X BOOLEAN)]
         /\ \A e \in Entity : /\ seen[e] \subseteq Note(st, dis, t)[e]
                              /\ <<t, IsProblem(e, st, dis)>> \in Note(st, dis, t)[e]
<1>1. \A e \in Entity : IsProblem(e, st, dis) \in BOOLEAN
  BY DEF IsProblem
<1> QED
  BY <1>1 DEF Note, TypeOK

LEMMA TypedStep == TypeOK /\ LockHeld /\ [Next]_vars => TypeOK'
<1> SUFFICES ASSUME TypeOK, LockHeld, [Next]_vars PROVE TypeOK'
  OBVIOUS
<1> USE DEF TypeOK, homeVars
<1>1. CASE Tick
  <2>1. now' \in Time
    BY <1>1, TimeAssumption DEF Tick, Time
  <2>2. seen' \in [Entity -> SUBSET (Time \X BOOLEAN)]
    BY <1>1, <2>1, NoteTyped DEF Tick
  <2> QED
    BY <1>1, <2>1, <2>2 DEF Tick
<1>2. ASSUME NEW e \in Entity, Change(e) PROVE TypeOK'
  <2>1. changes' \in 0 .. MaxChanges
    BY <1>2, TimeAssumption DEF Change
  <2>2. seen' \in [Entity -> SUBSET (Time \X BOOLEAN)]
    BY <1>2, NoteTyped DEF Change
  <2>3. status' \in [Entity -> Status] /\ disabled' \subseteq Registered
    BY <1>2 DEF Change
  <2> QED
    BY <1>2, <2>1, <2>2, <2>3 DEF Change
<1>3. ASSUME NEW c \in Check, Start(c),
             UNCHANGED <<now, homeVars, firstRun, periodStart, draft, windows, seen>>,
             listening' \in {"new", "on", "off"}
      PROVE  TypeOK'
  BY <1>3 DEF Start
<1>4. CASE Setup
  BY <1>3, <1>4 DEF Setup
<1>5. ASSUME NEW c \in Check, Timer(c) PROVE TypeOK'
  BY <1>3, <1>5 DEF Timer
<1>6. CASE Remove
  BY <1>6 DEF Remove
<1>7. ASSUME NEW c \in Check, Delay(c) PROVE TypeOK'
  BY <1>7 DEF Delay
<1>8. ASSUME NEW c \in Check, ScanNothing(c) PROVE TypeOK'
  <2>1. Tail(lock) \in Seq(Check)
    BY <1>8, ScannerHolds DEF ScanNothing
  <2>2. [start |-> periodStart, end |-> now, found |-> {}] \in Window
    BY DEF Window
  <2>3. windows' \in Seq(Window)
    BY <1>8, <2>2 DEF ScanNothing, Conclude, PeriodEnd
  <2> QED
    BY <1>8, <2>1, <2>3 DEF ScanNothing, PeriodEnd, Released
<1>9. ASSUME NEW c \in Check, ScanFinds(c) PROVE TypeOK'
  <2>1. [start |-> periodStart, end |-> now, found |-> Found] \in Window
    BY FoundIsProblems DEF Window
  <2>2. draft' \in [Check -> Window]
    BY <1>9, <2>1 DEF ScanFinds, PeriodEnd
  <2> QED
    BY <1>9, <2>2 DEF ScanFinds, PeriodAfterScan
<1>10. ASSUME NEW c \in Check, Report(c) PROVE TypeOK'
  <2>1. Tail(lock) \in Seq(Check)
    BY <1>10, ScannerHolds DEF Report
  <2>2. /\ windows' = Append(windows, [start |-> draft[c].start, end |-> draft[c].end,
                                       found |-> draft[c].found])
        /\ periodStart' = draft[c].end
    BY <1>10 DEF Report, Conclude
  <2>3. windows' \in Seq(Window) /\ periodStart' \in Time
    BY <2>2 DEF Window
  <2>4. draft' \in [Check -> Window]
    BY <1>10, TimeAssumption DEF Report, Window, NoDraft, Time
  <2> QED
    BY <1>10, <2>1, <2>3, <2>4 DEF Report, Released
<1>11. ASSUME NEW c \in Check, EmailFails(c) PROVE TypeOK'
  <2>1. Tail(lock) \in Seq(Check)
    BY <1>11, ScannerHolds DEF EmailFails
  <2>2. draft' \in [Check -> Window]
    BY <1>11, TimeAssumption DEF EmailFails, Window, NoDraft, Time
  <2> QED
    BY <1>11, <2>1, <2>2 DEF EmailFails, Released
<1>12. CASE UNCHANGED vars
  BY <1>12 DEF vars
<1> QED
  BY <1>1, <1>2, <1>4, <1>5, <1>6, <1>7, <1>8, <1>9, <1>10, <1>11, <1>12
     DEF Next, CheckStep, TimeGoesOn
-----------------------------------------------------------------------------
(* The lock.                                                                *)

\* A call of _check_entities queues up behind the others.
LEMMA LockedByStart ==
  ASSUME TypeOK, LockHeld, NEW c \in Check, Start(c)
  PROVE  LockHeld'
<1>1. /\ pc' = [pc EXCEPT ![c] = "lock"] /\ lock' = Append(lock, c)
  BY DEF Start
<1>2. /\ lock' # <<>> /\ Len(lock') = Len(lock) + 1 /\ lock'[Len(lock) + 1] = c
      /\ \A k \in 1 .. Len(lock) : lock'[k] = lock[k]
      /\ lock # <<>> => Head(lock') = Head(lock)
  BY <1>1, AppendProperties DEF TypeOK
<1>3. ASSUME NEW d \in Check, pc'[d] = "lock"
      PROVE  \E k \in 1 .. Len(lock') : lock'[k] = d
  <2>1. CASE d = c
    BY <1>2, <2>1 DEF TypeOK
  <2>2. CASE d # c
    <3>1. PICK k \in 1 .. Len(lock) : lock[k] = d
      BY <1>1, <1>3, <2>2 DEF LockHeld, TypeOK
    <3> QED
      BY <1>2, <3>1 DEF TypeOK
  <2> QED
    BY <2>1, <2>2
<1>4. ASSUME NEW d \in Check, pc'[d] \in {"sleep", "email"}
      PROVE  lock' # <<>> /\ Head(lock') = d
  BY <1>1, <1>2, <1>4 DEF LockHeld, TypeOK
<1> QED
  BY <1>3, <1>4 DEF LockHeld

\* The holder goes, and the others move up.
LEMMA LockedByRelease ==
  ASSUME TypeOK, LockHeld, NEW c \in Check, Scanning(c) \/ pc[c] = "email",
         pc' = [pc EXCEPT ![c] = "done"], lock' = Released
  PROVE  LockHeld'
<1>1. /\ Head(lock) = c /\ lock[1] = c
      /\ Len(lock') = Len(lock) - 1 /\ Len(lock) >= 1
      /\ \A k \in 1 .. Len(lock) - 1 : lock'[k] = lock[k + 1]
  BY ScannerHolds DEF Released
<1>2. ASSUME NEW d \in Check, pc'[d] = "lock"
      PROVE  \E k \in 1 .. Len(lock') : lock'[k] = d
  <2>1. d # c /\ pc[d] = "lock"
    BY <1>2 DEF TypeOK
  <2>2. PICK k \in 1 .. Len(lock) : lock[k] = d
    BY <2>1 DEF LockHeld
  <2>3. k # 1 /\ k - 1 \in 1 .. Len(lock')
    BY <1>1, <2>1, <2>2 DEF TypeOK
  <2>4. lock'[k - 1] = d
    BY <1>1, <2>2, <2>3 DEF TypeOK
  <2> QED
    BY <2>3, <2>4
<1>3. ASSUME NEW d \in Check, pc'[d] \in {"sleep", "email"} PROVE FALSE
  BY <1>1, <1>3 DEF LockHeld, TypeOK
<1> QED
  BY <1>2, <1>3 DEF LockHeld

\* The holder goes on and keeps the lock.
LEMMA LockedByHolder ==
  ASSUME TypeOK, LockHeld, NEW c \in Check, lock # <<>>, Head(lock) = c,
         NEW p \in {"sleep", "email"}, pc' = [pc EXCEPT ![c] = p], UNCHANGED lock
  PROVE  LockHeld'
BY DEF LockHeld, TypeOK

LEMMA LockStep == TypeOK /\ LockHeld /\ [Next]_vars => LockHeld'
<1> SUFFICES ASSUME TypeOK, LockHeld, [Next]_vars PROVE LockHeld'
  OBVIOUS
<1> USE DEF homeVars
<1>1. ASSUME UNCHANGED <<pc, lock>> PROVE LockHeld'
  BY <1>1 DEF LockHeld
<1>2. CASE Tick \/ Remove \/ UNCHANGED vars
  BY <1>1, <1>2 DEF Tick, Remove, vars
<1>3. ASSUME NEW e \in Entity, Change(e) PROVE LockHeld'
  BY <1>1, <1>3 DEF Change
<1>4. ASSUME NEW c \in Check, Start(c) PROVE LockHeld'
  BY <1>4, LockedByStart
<1>5. ASSUME NEW c \in Check, Delay(c) PROVE LockHeld'
  <2>1. lock # <<>> /\ Head(lock) = c /\ pc' = [pc EXCEPT ![c] = "sleep"] /\ UNCHANGED lock
    BY <1>5 DEF Delay, HoldsLock, LockHeld, TypeOK
  <2> QED
    BY <2>1, LockedByHolder
<1>6. ASSUME NEW c \in Check, ScanFinds(c) PROVE LockHeld'
  <2>1. lock # <<>> /\ Head(lock) = c /\ pc' = [pc EXCEPT ![c] = "email"] /\ UNCHANGED lock
    BY <1>6, ScannerHolds DEF ScanFinds
  <2> QED
    BY <2>1, LockedByHolder
<1>7. ASSUME NEW c \in Check, ScanNothing(c) \/ Report(c) \/ EmailFails(c) PROVE LockHeld'
  BY <1>7, LockedByRelease DEF ScanNothing, Report, EmailFails
<1> QED
  BY <1>2, <1>3, <1>4, <1>5, <1>6, <1>7
     DEF Next, CheckStep, Setup, Timer, TimeGoesOn
-----------------------------------------------------------------------------
(* The windows.                                                             *)

\* What was found tells of each entity whether it was a problem at time t.
Shows(found, t) == \A e \in Entity : <<t, e \in found>> \in seen[e]

SeenNow == \A e \in Entity : <<now, IsProblem(e, status, disabled)>> \in seen[e]

\* A check that has scanned holds a window that begins where the last one ended.
DraftsFit ==
  \A c \in Check : pc[c] = "email" =>
    /\ draft[c].start = periodStart
    /\ periodStart <= draft[c].end /\ draft[c].end <= now
    /\ Shows(draft[c].found, draft[c].end)

SeenAtEnd == \A i \in 1 .. Len(windows) : Shows(windows[i].found, windows[i].end)

WindowInv == /\ SeenNow /\ periodStart <= now
             /\ DraftsFit /\ WindowsTile /\ SeenAtEnd

LEMMA FoundShows ==
  ASSUME TypeOK, SeenNow
  PROVE  Shows(Found, now)
BY FoundIsProblems DEF Shows, SeenNow, IsProblem

LEMMA WindowInit == Init => WindowInv
<1> SUFFICES ASSUME Init PROVE WindowInv
  OBVIOUS
<1>1. Len(windows) = 0 /\ windows = <<>> /\ periodStart = 0 /\ now = 0
  BY DEF Init
<1>2. SeenNow
  BY DEF Init, SeenNow
<1>3. DraftsFit
  BY DEF Init, DraftsFit
<1> QED
  BY <1>1, <1>2, <1>3 DEF WindowInv, WindowsTile, SeenAtEnd

\* The history only grows, so what was shown stays shown.
LEMMA WindowFrame ==
  ASSUME TypeOK, TypeOK', WindowInv, SeenNow', now <= now',
         \A e \in Entity : seen[e] \subseteq seen'[e],
         UNCHANGED <<periodStart, draft, windows>>,
         \A c \in Check : pc'[c] = "email" => pc[c] = "email"
  PROVE  WindowInv'
<1>1. \A found, t : Shows(found, t) => Shows(found, t)'
  BY DEF Shows
<1>2. DraftsFit'
  <2>1. \A c \in Check : draft[c].end \in Nat /\ now \in Nat /\ now' \in Nat
    BY DEF TypeOK, Window, Time
  <2> QED
    BY <1>1, <2>1 DEF WindowInv, DraftsFit
<1>4. SeenAtEnd'
  BY <1>1 DEF WindowInv, SeenAtEnd
<1>3. periodStart' <= now'
  BY DEF WindowInv, TypeOK, Time
<1> QED
  BY <1>2, <1>3, <1>4 DEF WindowInv, WindowsTile

\* A window is concluded that begins at the period's start.
LEMMA WindowConcluded ==
  ASSUME TypeOK, TypeOK', WindowInv, SeenNow, NEW end \in Time, NEW found,
         periodStart <= end, end <= now, Shows(found, end),
         Conclude(periodStart, end, found), periodStart' = end,
         UNCHANGED <<now, seen, status, disabled>>,
         \A c \in Check : pc'[c] # "email"
  PROVE  WindowInv'
<1> DEFINE w == [start |-> periodStart, end |-> end, found |-> found]
<1>1. windows \in Seq(Window) /\ windows' = Append(windows, w)
  BY DEF TypeOK, Conclude
<1>2. /\ Len(windows') = Len(windows) + 1 /\ Len(windows) \in Nat
      /\ windows'[Len(windows) + 1] = w
      /\ \A i \in 1 .. Len(windows) : windows'[i] = windows[i]
      /\ windows' # <<>>
  BY <1>1, AppendProperties
<1>3. w.start = periodStart /\ w.end = end /\ w.found = found
  OBVIOUS
<1> HIDE DEF w
<1>4. periodStart = IF Len(windows) = 0 THEN 0 ELSE windows[Len(windows)].end
  BY <1>1, EmptySeq DEF WindowInv, WindowsTile
<1>5. ASSUME NEW i \in 1 .. Len(windows')
      PROVE  /\ windows'[i].start = IF i = 1 THEN 0 ELSE windows'[i - 1].end
             /\ windows'[i].start <= windows'[i].end
  <2>1. CASE i = Len(windows) + 1
    BY <1>2, <1>3, <1>4, <2>1
  <2>2. CASE i # Len(windows) + 1
    <3>1. i \in 1 .. Len(windows) /\ (i = 1 \/ i - 1 \in 1 .. Len(windows))
      BY <1>2, <2>2
    <3> QED
      BY <1>2, <3>1 DEF WindowInv, WindowsTile
  <2> QED
    BY <2>1, <2>2
<1>6. WindowsTile'
  BY <1>2, <1>3, <1>5 DEF WindowsTile
<1>7. SeenAtEnd'
  <2> SUFFICES ASSUME NEW i \in 1 .. Len(windows')
               PROVE  Shows(windows[i].found, windows[i].end)'
    BY DEF SeenAtEnd
  <2>1. CASE i = Len(windows) + 1
    BY <1>2, <1>3, <2>1 DEF Shows
  <2>2. CASE i # Len(windows) + 1
    BY <1>2, <2>2 DEF WindowInv, SeenAtEnd, Shows
  <2> QED
    BY <2>1, <2>2
<1>8. SeenNow' /\ DraftsFit' /\ periodStart' <= now'
  BY DEF WindowInv, SeenNow, DraftsFit
<1> QED
  BY <1>6, <1>7, <1>8 DEF WindowInv

\* While a check releases the lock, no other one has a window fixed.
LEMMA NobodyElseLoads ==
  ASSUME TypeOK, LockHeld, NEW c \in Check, Scanning(c) \/ pc[c] = "email",
         NEW d \in Check, d # c
  PROVE  pc[d] # "email"
BY ScannerHolds DEF LockHeld

LEMMA WindowStep == TypeOK /\ TypeOK' /\ LockHeld /\ WindowInv /\ [Next]_vars => WindowInv'
<1> SUFFICES ASSUME TypeOK, TypeOK', LockHeld, WindowInv, [Next]_vars PROVE WindowInv'
  OBVIOUS
<1> USE DEF homeVars
<1>0. now \in Nat /\ now <= now /\ periodStart \in Nat
  BY DEF TypeOK, Time
<1>1. CASE Tick
  <2>1. now' \in Time /\ now' = now + 1
    BY <1>1 DEF Tick, TypeOK
  <2>2. SeenNow' /\ \A e \in Entity : seen[e] \subseteq seen'[e]
    BY <1>1, <2>1, NoteTyped DEF Tick, SeenNow
  <2> QED
    BY <1>0, <1>1, <2>1, <2>2, WindowFrame DEF Tick
<1>2. ASSUME NEW e \in Entity, Change(e) PROVE WindowInv'
  <2>1. now \in Time /\ seen' = Note(status', disabled', now)
    BY <1>2 DEF Change, TypeOK
  <2>2. SeenNow' /\ \A d \in Entity : seen[d] \subseteq seen'[d]
    <3> DEFINE st == status'
               dis == disabled'
    <3>1. seen' = Note(st, dis, now)
      BY <2>1
    <3> HIDE DEF st, dis
    <3>2. \A d \in Entity : /\ seen[d] \subseteq seen'[d]
                            /\ <<now, IsProblem(d, st, dis)>> \in seen'[d]
      BY <2>1, <3>1, NoteTyped
    <3> QED
      BY <1>2, <3>2 DEF st, dis, SeenNow, Change, IsProblem
  <2> QED
    BY <1>0, <1>2, <2>2, WindowFrame DEF Change
<1>3. ASSUME UNCHANGED <<now, status, disabled, periodStart, draft, windows, seen>>,
             \A c \in Check : pc'[c] = "email" => pc[c] = "email"
      PROVE  WindowInv'
  <2>1. SeenNow'
    BY <1>3 DEF WindowInv, SeenNow, IsProblem
  <2> QED
    BY <1>0, <1>3, <2>1, WindowFrame
<1>4. CASE Setup
  BY <1>3, <1>4 DEF Setup, Start, TypeOK
<1>5. ASSUME NEW c \in Check, Timer(c) \/ Delay(c) PROVE WindowInv'
  BY <1>3, <1>5 DEF Timer, Start, Delay, TypeOK
<1>6. CASE Remove \/ UNCHANGED vars
  BY <1>3, <1>6 DEF Remove, vars
<1>7. ASSUME NEW c \in Check, ScanNothing(c) PROVE WindowInv'
  <2>1. /\ Scanning(c) /\ Found = {} /\ Conclude(periodStart, now, {})
        /\ periodStart' = now /\ UNCHANGED <<now, seen, status, disabled>>
        /\ pc' = [pc EXCEPT ![c] = "done"]
    BY <1>7 DEF ScanNothing, PeriodEnd
  <2>2. \A d \in Check : pc'[d] # "email"
    BY <2>1, NobodyElseLoads DEF TypeOK
  <2>3. Shows({}, now) /\ now \in Time /\ SeenNow /\ periodStart <= now
    BY <2>1, FoundShows DEF WindowInv, TypeOK
  <2> QED
    BY <1>0, <2>1, <2>2, <2>3, WindowConcluded
<1>8. ASSUME NEW c \in Check, ScanFinds(c) PROVE WindowInv'
  <2>1. /\ Scanning(c) /\ pc' = [pc EXCEPT ![c] = "email"]
        /\ draft' = [draft EXCEPT ![c] = [start |-> periodStart, end |-> now,
                                           found |-> Found]]
        /\ UNCHANGED <<now, status, disabled, periodStart, windows, seen>>
    BY <1>8 DEF ScanFinds, PeriodEnd, PeriodAfterScan
  <2>2. Shows(Found, now) /\ periodStart <= now /\ now <= now
    BY <1>0, FoundShows DEF WindowInv
  <2>3. \A d \in Check \ {c} : pc'[d] # "email"
    BY <2>1, NobodyElseLoads DEF TypeOK
  <2>4. /\ draft'[c].start = periodStart /\ draft'[c].end = now
        /\ draft'[c].found = Found
    BY <2>1 DEF TypeOK
  <2>5. DraftsFit'
    BY <2>1, <2>2, <2>3, <2>4 DEF DraftsFit, Shows
  <2>6. SeenNow' /\ SeenAtEnd' /\ WindowsTile' /\ periodStart' <= now'
    BY <2>1 DEF WindowInv, SeenNow, IsProblem, SeenAtEnd, Shows, WindowsTile
  <2> QED
    BY <2>5, <2>6 DEF WindowInv
<1>9. ASSUME NEW c \in Check, Report(c) PROVE WindowInv'
  <2>1. /\ pc[c] = "email" /\ pc' = [pc EXCEPT ![c] = "done"]
        /\ Conclude(draft[c].start, draft[c].end, draft[c].found)
        /\ periodStart' = draft[c].end /\ UNCHANGED <<now, status, disabled, seen>>
    BY <1>9 DEF Report
  <2>2. \A d \in Check : pc'[d] # "email"
    BY <2>1, NobodyElseLoads DEF TypeOK
  <2>3. /\ draft[c].start = periodStart /\ periodStart <= draft[c].end
        /\ Shows(draft[c].found, draft[c].end) /\ SeenNow /\ draft[c].end <= now
    BY <2>1 DEF WindowInv, DraftsFit
  <2>4. draft[c].end \in Time
    BY DEF TypeOK, Window
  <2> QED
    BY <1>0, <2>1, <2>2, <2>3, <2>4, WindowConcluded
<1>10. ASSUME NEW c \in Check, EmailFails(c) PROVE WindowInv'
  <2>1. /\ pc[c] = "email" /\ pc' = [pc EXCEPT ![c] = "done"]
        /\ UNCHANGED <<now, status, disabled, periodStart, windows, seen>>
    BY <1>10 DEF EmailFails
  <2>2. DraftsFit'
    BY <2>1, NobodyElseLoads DEF DraftsFit, TypeOK
  <2> QED
    BY <2>1, <2>2 DEF WindowInv, SeenNow, IsProblem, SeenAtEnd, Shows, WindowsTile
<1> QED
  BY <1>1, <1>2, <1>4, <1>5, <1>6, <1>7, <1>8, <1>9, <1>10
     DEF Next, CheckStep, TimeGoesOn

LEMMA CheckerAlways == Spec => [](TypeOK /\ LockHeld /\ WindowInv)
<1>1. Init => TypeOK /\ LockHeld /\ WindowInv
  BY TypedInit, WindowInit DEF LockHeld, Init
<1>2. TypeOK /\ LockHeld /\ WindowInv /\ [Next]_vars => (TypeOK /\ LockHeld /\ WindowInv)'
  BY TypedStep, LockStep, WindowStep
<1> QED
  BY <1>1, <1>2, PTL DEF Spec

\* Type correctness, with it that no check releases a lock nobody holds.
THEOREM TypeCorrect == Spec => []TypeOK
<1> QED
  BY CheckerAlways, PTL

\* However many checks queue up, and whichever of them fail to load the e-mail,
\* the windows of the reports leave no gap and do not overlap.
THEOREM NoGapNoOverlap == Spec => []WindowsTile
<1>1. WindowInv => WindowsTile
  BY DEF WindowInv
<1> QED
  BY <1>1, CheckerAlways, PTL

\* Whatever the home does meanwhile, an entity that was a problem throughout a
\* window is in its report, and one in the report was a problem within it.
THEOREM ReportsAreTrue == Spec => []FoundInWindow
<1>1. TypeOK /\ WindowInv => FoundInWindow
  <2> SUFFICES ASSUME TypeOK, WindowInv, NEW i \in 1 .. Len(windows), NEW e \in Entity
               PROVE  LET w == windows[i]
                          during == {o \in seen[e] : o[1] \in w.start .. w.end}
                      IN /\ (\A o \in during : o[2]) => e \in w.found
                         /\ e \in w.found => \E o \in during : o[2]
    BY DEF FoundInWindow
  <2> DEFINE w == windows[i]
             o == <<w.end, e \in w.found>>
  <2>1. w \in Window /\ w.start <= w.end
    BY DEF TypeOK, WindowInv, WindowsTile
  <2>2. o \in seen[e]
    BY DEF WindowInv, SeenAtEnd, Shows
  <2>3. o[1] \in w.start .. w.end /\ o[2] = (e \in w.found)
    BY <2>1 DEF Window, Time
  <2> QED
    BY <2>2, <2>3
<1> QED
  BY <1>1, CheckerAlways, PTL
-----------------------------------------------------------------------------
(* The issue.                                                               *)

LEMMA FirstOfPart ==
  ASSUME NEW S, IsFiniteSet(S), NEW limit \in Nat, NEW T \in FirstOf(S, limit)
  PROVE  /\ T \subseteq S
         /\ T # S => Cardinality(T) = limit
<1>1. /\ T \in SUBSET S
      /\ Cardinality(T) = IF Cardinality(S) < limit THEN Cardinality(S) ELSE limit
  BY DEF FirstOf, kSubset
<1>2. Cardinality(T) = Cardinality(S) => T = S
  BY <1>1, FS_Subset
<1> QED
  BY <1>1, <1>2

\* Grouping by device loses nothing and counts nothing twice.
LEMMA GroupKeeps ==
  ASSUME NEW found \in SUBSET Entity
  PROVE  /\ Listed(Group(found)) = found
         /\ Counts(Group(found)).entities = Cardinality(found)
         /\ Counts(Group(found)).devices = Cardinality(DOMAIN Group(found).devices)
<1> DEFINE g == Group(found)
           owned == found \cap DOMAIN DeviceOf
           pairs == UNION {{d} \X g.devices[d] : d \in DOMAIN g.devices}
<1>1. /\ DOMAIN g.devices = {DeviceOf[e] : e \in owned}
      /\ \A d \in DOMAIN g.devices : g.devices[d] = {e \in owned : DeviceOf[e] = d}
      /\ g.pure = found \ DOMAIN DeviceOf
  BY DEF Group, Pure
<1> HIDE DEF g
<1>2. Listed(g) = found
  BY <1>1 DEF Listed
<1>3. IsFiniteSet(found)
  BY RegistryAssumption, FS_Subset
<1>4. IsFiniteSet(owned) /\ IsFiniteSet(g.pure)
  BY <1>1, <1>3, FS_Subset
<1>5. Cardinality(pairs) = Cardinality(owned)
  <2> DEFINE pair == [e \in owned |-> <<DeviceOf[e], e>>]
  <2>1. \A p : p \in pairs <=> \E d \in DOMAIN g.devices : \E e \in g.devices[d] : p = <<d, e>>
    OBVIOUS
  <2>2. pair \in [owned -> pairs]
    <3> SUFFICES ASSUME NEW e \in owned PROVE <<DeviceOf[e], e>> \in pairs
      OBVIOUS
    <3>1. DeviceOf[e] \in DOMAIN g.devices /\ e \in g.devices[DeviceOf[e]]
      BY <1>1
    <3> QED
      BY <2>1, <3>1
  <2>3. \A a, b \in owned : pair[a] = pair[b] => a = b
    OBVIOUS
  <2>4. \A p \in pairs : \E e \in owned : pair[e] = p
    <3> SUFFICES ASSUME NEW p \in pairs PROVE \E e \in owned : <<DeviceOf[e], e>> = p
      OBVIOUS
    <3>1. PICK d \in DOMAIN g.devices : \E e \in g.devices[d] : p = <<d, e>>
      BY <2>1
    <3>2. PICK e \in g.devices[d] : p = <<d, e>>
      BY <3>1
    <3> QED
      BY <1>1, <3>2
  <2> HIDE DEF pair, pairs, owned
  <2>5. pair \in Bijection(owned, pairs)
    BY <2>2, <2>3, <2>4 DEF Bijection, Injection, Surjection, IsInjective
  <2> QED
    BY <1>4, <2>5, FS_Bijection DEF ExistsBijection
<1>6. Cardinality(found) = Cardinality(owned) + Cardinality(g.pure)
  <2>1. owned \cup g.pure = found /\ owned \cap g.pure = {}
    BY <1>1
  <2> HIDE DEF owned
  <2>2. Cardinality(owned) \in Nat /\ Cardinality(g.pure) \in Nat
    BY <1>4, FS_CardinalityType
  <2>3. /\ Cardinality(owned \cup g.pure) =
                Cardinality(owned) + Cardinality(g.pure) - Cardinality(owned \cap g.pure)
        /\ Cardinality(owned \cap g.pure) = 0
    BY <1>4, <2>1, FS_Union, FS_EmptySet
  <2>4. Cardinality(owned \cup g.pure) = Cardinality(found)
    BY <2>1, Zenon
  <2> QED
    BY <2>2, <2>3, <2>4
<1>7. Counts(g) = [devices |-> Cardinality(DOMAIN g.devices),
                   entities |-> Cardinality(pairs) + Cardinality(g.pure)]
  BY DEF Counts
<1> HIDE DEF pairs, owned
<1> QED
  BY <1>2, <1>5, <1>6, <1>7 DEF g

\* A preview is part of what is listed, and all of it within the limits.
PartOf(p, full) ==
  /\ Listed(p) \subseteq Listed(full)
  /\ \A d \in DOMAIN p.devices :
       p.devices[d] # full.devices[d] => Cardinality(p.devices[d]) = MaxOfDevice
  /\ DOMAIN p.devices # DOMAIN full.devices => Cardinality(DOMAIN p.devices) = MaxDevices
  /\ p.pure # full.pure => Cardinality(p.pure) = MaxPure

LEMMA PreviewsFit ==
  ASSUME NEW found \in SUBSET Entity, NEW p \in Previews(Group(found))
  PROVE  PartOf(p, Group(found))
<1> DEFINE g == Group(found)
           owned == found \cap DOMAIN DeviceOf
<1>1. /\ DOMAIN g.devices = {DeviceOf[e] : e \in owned}
      /\ \A d \in DOMAIN g.devices : g.devices[d] = {e \in owned : DeviceOf[e] = d}
      /\ g.pure = found \ DOMAIN DeviceOf
  BY DEF Group, Pure
<1>2. p \in Previews(g)
  OBVIOUS
<1> HIDE DEF g
<1>3. IsFiniteSet(found) /\ IsFiniteSet(owned)
  BY RegistryAssumption, FS_Subset
<1>4. /\ IsFiniteSet(g.pure) /\ \A d \in DOMAIN g.devices : IsFiniteSet(g.devices[d])
  BY <1>1, <1>3, FS_Subset
<1>5. IsFiniteSet(DOMAIN g.devices)
  <2> DEFINE dev == [e \in owned |-> DeviceOf[e]]
  <2>1. dev \in Surjection(owned, DOMAIN g.devices)
    BY <1>1 DEF Surjection
  <2> QED
    BY <1>3, <2>1, FS_Surjection
<1>6. PICK D \in FirstOf(DOMAIN g.devices, MaxDevices) :
        p \in {[devices |-> x, pure |-> q] :
                 x \in {f \in [D -> SUBSET Entity] :
                          \A d \in D : f[d] \in FirstOf(g.devices[d], MaxOfDevice)},
                 q \in FirstOf(g.pure, MaxPure)}
  BY <1>2 DEF Previews
<1>7. /\ DOMAIN p.devices = D
      /\ \A d \in D : p.devices[d] \in FirstOf(g.devices[d], MaxOfDevice)
      /\ p.pure \in FirstOf(g.pure, MaxPure)
  BY <1>6
<1>8. D \subseteq DOMAIN g.devices /\ (D # DOMAIN g.devices => Cardinality(D) = MaxDevices)
  BY <1>5, FirstOfPart, LimitsAssumption
<1>9. /\ p.pure \subseteq g.pure
      /\ p.pure # g.pure => Cardinality(p.pure) = MaxPure
  BY <1>4, <1>7, FirstOfPart, LimitsAssumption
<1>10. ASSUME NEW d \in D
       PROVE  /\ p.devices[d] \subseteq g.devices[d]
              /\ p.devices[d] # g.devices[d] => Cardinality(p.devices[d]) = MaxOfDevice
  <2>1. IsFiniteSet(g.devices[d]) /\ p.devices[d] \in FirstOf(g.devices[d], MaxOfDevice)
    BY <1>4, <1>7, <1>8
  <2> QED
    BY <2>1, FirstOfPart, LimitsAssumption
<1>11. Listed(p) \subseteq Listed(g)
  BY <1>7, <1>8, <1>9, <1>10 DEF Listed
<1> QED
  BY <1>7, <1>8, <1>9, <1>10, <1>11 DEF PartOf, g

\* The issues are a list, a fixed window found something, and an issue's
\* counts and preview are those of its list.
IssueRight(x) ==
  /\ x.counts.entities = Cardinality(Listed(x.entities))
  /\ x.counts.devices = Cardinality(DOMAIN x.entities.devices)
  /\ PartOf(x.preview, x.entities)

IssueInv ==
  /\ \E S : issues \in Seq(S)
  /\ \A c \in Check : pc[c] = "email" => draft[c].found # {}
  /\ \A i \in 1 .. Len(issues) : IssueRight(issues[i])
  /\ \E f \in [1 .. Len(issues) -> 1 .. Len(windows)] : CarriedBy(f)

LEMMA IssueInit == Init => IssueInv
<1> SUFFICES ASSUME Init PROVE IssueInv
  OBVIOUS
<1>1. issues = <<>> /\ windows = <<>> /\ \A c \in Check : pc[c] = "idle"
  BY DEF Init
<1>2. Len(issues) = 0 /\ Len(windows) = 0
  BY <1>1
<1>3. \E f \in [1 .. Len(issues) -> 1 .. Len(windows)] : CarriedBy(f)
  <2> DEFINE f == [i \in 1 .. 0 |-> 0]
  <2>1. f \in [1 .. Len(issues) -> 1 .. Len(windows)]
    BY <1>2
  <2>2. CarriedBy(f)
    BY <1>2 DEF CarriedBy
  <2> QED
    BY <2>1, <2>2
<1>4. issues \in Seq({})
  BY <1>1
<1>5. \A i \in 1 .. Len(issues) : IssueRight(issues[i])
  BY <1>2
<1> QED
  BY <1>1, <1>3, <1>4, <1>5 DEF IssueInv

LEMMA IssueStep == TypeOK /\ LockHeld /\ WindowInv /\ IssueInv /\ [Next]_vars => IssueInv'
<1> SUFFICES ASSUME TypeOK, LockHeld, WindowInv, IssueInv, [Next]_vars PROVE IssueInv'
  OBVIOUS
<1> USE DEF homeVars
<1>f. PICK f \in [1 .. Len(issues) -> 1 .. Len(windows)] : CarriedBy(f)
  BY DEF IssueInv
<1>n. Len(issues) \in Nat /\ Len(windows) \in Nat
  BY DEF IssueInv, TypeOK
<1>0. ASSUME UNCHANGED <<issues, windows>>,
             \A c \in Check : pc'[c] = "email" => draft'[c].found # {}
      PROVE  IssueInv'
  <2>1. CarriedBy(f)' /\ \A i \in 1 .. Len(issues) : IssueRight(issues'[i])
    BY <1>f, <1>0 DEF CarriedBy, IssueInv
  <2> QED
    BY <1>0, <2>1 DEF IssueInv
<1>1. ASSUME UNCHANGED <<issues, windows, draft>>,
             \A c \in Check : pc'[c] = "email" => pc[c] = "email"
      PROVE  IssueInv'
  BY <1>0, <1>1 DEF IssueInv
<1>2. CASE Tick \/ Remove \/ UNCHANGED vars \/ \E e \in Entity : Change(e)
  BY <1>1, <1>2 DEF Tick, Remove, Change, vars
<1>3. ASSUME NEW c \in Check, Start(c), UNCHANGED <<issues, windows, draft>> PROVE IssueInv'
  BY <1>1, <1>3 DEF Start, TypeOK
<1>4. ASSUME NEW c \in Check, Delay(c) PROVE IssueInv'
  BY <1>1, <1>4 DEF Delay, TypeOK
<1>5. ASSUME NEW c \in Check, ScanNothing(c) PROVE IssueInv'
  <2> DEFINE w == [start |-> periodStart, end |-> now, found |-> {}]
  <2>1. /\ windows' = Append(windows, w) /\ UNCHANGED <<issues, draft>>
        /\ pc' = [pc EXCEPT ![c] = "done"]
    BY <1>5 DEF ScanNothing, Conclude, PeriodEnd
  <2>2. w.found = {}
    OBVIOUS
  <2> HIDE DEF w
  <2>3. /\ Len(windows') = Len(windows) + 1 /\ windows'[Len(windows) + 1] = w
        /\ \A k \in 1 .. Len(windows) : windows'[k] = windows[k]
    BY <2>1, AppendProperties DEF TypeOK
  <2>4. f \in [1 .. Len(issues) -> 1 .. Len(windows')] /\ \A i \in 1 .. Len(issues) :
          f[i] \in 1 .. Len(windows) /\ windows'[f[i]] = windows[f[i]] /\ f[i] # Len(windows) + 1
    BY <1>f, <1>n, <2>3
  <2>5. \A k \in 1 .. Len(windows') : k = Len(windows) + 1 \/ k \in 1 .. Len(windows)
    BY <1>n, <2>3
  <2>6. CarriedBy(f)'
    BY <1>f, <2>1, <2>2, <2>3, <2>4, <2>5 DEF CarriedBy
  <2>7. \A d \in Check : pc'[d] = "email" => draft'[d].found # {}
    BY <2>1 DEF IssueInv, TypeOK
  <2>8. \A i \in 1 .. Len(issues) : IssueRight(issues'[i])
    BY <2>1 DEF IssueInv
  <2> QED
    BY <2>1, <2>4, <2>6, <2>7, <2>8 DEF IssueInv
<1>6. ASSUME NEW c \in Check, ScanFinds(c) PROVE IssueInv'
  <2>1. /\ Found # {} /\ pc' = [pc EXCEPT ![c] = "email"] /\ UNCHANGED <<issues, windows>>
        /\ draft'[c].found = Found /\ \A d \in Check \ {c} : draft'[d] = draft[d]
    BY <1>6 DEF ScanFinds, TypeOK
  <2> QED
    BY <1>0, <2>1 DEF IssueInv, TypeOK
<1>7. ASSUME NEW c \in Check, Report(c) PROVE IssueInv'
  <2> DEFINE g == Group(draft[c].found)
             w == [start |-> draft[c].start, end |-> draft[c].end, found |-> draft[c].found]
  <2>1. PICK p \in Previews(g) :
          issues' = Append(issues, [start |-> draft[c].start, end |-> draft[c].end,
                                    counts |-> Counts(g), entities |-> g, preview |-> p])
    BY <1>7 DEF Report
  <2>2. PICK r : /\ issues' = Append(issues, r)
                 /\ r.start = draft[c].start /\ r.end = draft[c].end
                 /\ r.counts = Counts(g) /\ r.entities = g /\ r.preview = p
    BY <2>1
  <2>3. /\ windows' = Append(windows, w) /\ pc[c] = "email"
        /\ pc' = [pc EXCEPT ![c] = "done"] /\ \A d \in Check \ {c} : draft'[d] = draft[d]
    BY <1>7 DEF Report, Conclude, TypeOK
  <2>4. w.start = draft[c].start /\ w.end = draft[c].end /\ w.found = draft[c].found
    OBVIOUS
  <2>5. draft[c].found \in SUBSET Entity /\ draft[c].found # {}
    BY <2>3 DEF IssueInv, TypeOK, Window
  <2>6. /\ Listed(g) = draft[c].found
        /\ Counts(g).entities = Cardinality(Listed(g))
        /\ Counts(g).devices = Cardinality(DOMAIN g.devices)
        /\ PartOf(p, g)
    BY <2>5, GroupKeeps, PreviewsFit
  <2> HIDE DEF g, w
  <2>7. /\ Len(windows') = Len(windows) + 1 /\ windows'[Len(windows) + 1] = w
        /\ \A k \in 1 .. Len(windows) : windows'[k] = windows[k]
    BY <2>3, AppendProperties DEF TypeOK
  <2>8. /\ Len(issues') = Len(issues) + 1 /\ issues'[Len(issues) + 1] = r
        /\ \A i \in 1 .. Len(issues) : issues'[i] = issues[i]
        /\ \E S : issues' \in Seq(S)
    <3>1. PICK S : issues \in Seq(S)
      BY DEF IssueInv
    <3>2. issues \in Seq(S \cup {r})
      BY <3>1
    <3> QED
      BY <2>2, <3>2, AppendProperties
  <2>9. PICK l, m \in Nat : l = Len(issues) /\ m = Len(windows)
    BY <1>n
  <2> DEFINE h == [i \in 1 .. l + 1 |-> IF i = l + 1 THEN m + 1 ELSE f[i]]
  <2>10. \A i \in 1 .. l + 1 : i = l + 1 \/ i \in 1 .. l
    OBVIOUS
  <2>11. \A k \in 1 .. m + 1 : k = m + 1 \/ k \in 1 .. m
    OBVIOUS
  <2>12. /\ h[l + 1] = m + 1
         /\ \A i \in 1 .. l : h[i] = f[i] /\ f[i] \in 1 .. m /\ h[i] < m + 1 /\ h[i] # m + 1
    BY <1>f, <2>9
  <2>13. h \in [1 .. Len(issues') -> 1 .. Len(windows')]
    BY <1>f, <2>7, <2>8, <2>9, <2>10, <2>12
  <2> HIDE DEF h
  <2>14. ASSUME NEW i \in 1 .. l + 1
         PROVE  /\ issues'[i].start = windows'[h[i]].start
                /\ issues'[i].end = windows'[h[i]].end
                /\ Listed(issues'[i].entities) = windows'[h[i]].found
                /\ \A j \in 1 .. i - 1 : h[j] < h[i]
    <3>1. CASE i = l + 1
      <4>1. \A j \in 1 .. i - 1 : j \in 1 .. l
        BY <3>1
      <4>2. issues'[i] = r /\ windows'[h[i]] = w
        BY <2>7, <2>8, <2>9, <2>12, <3>1
      <4>3. \A j \in 1 .. i - 1 : h[j] < h[i]
        BY <2>12, <3>1, <4>1
      <4>4. /\ r.start = w.start /\ r.end = w.end
            /\ Listed(r.entities) = w.found
        BY <2>2, <2>4, <2>6, Zenon
      <4>5. /\ issues'[i].start = windows'[h[i]].start
            /\ issues'[i].end = windows'[h[i]].end
        BY <4>2, <4>4
      <4>6. Listed(issues'[i].entities) = windows'[h[i]].found
        BY <4>2, <4>4, Zenon
      <4> QED
        BY <4>3, <4>5, <4>6, Zenon
    <3>2. CASE i \in 1 .. l
      <4>1. \A j \in 1 .. i - 1 : j \in 1 .. l
        BY <3>2
      <4>2. /\ issues'[i] = issues[i] /\ windows'[h[i]] = windows[f[i]]
            /\ h[i] = f[i] /\ i \in 1 .. Len(issues)
        BY <2>7, <2>8, <2>9, <2>12, <3>2
      <4>3. /\ issues[i].start = windows[f[i]].start
            /\ issues[i].end = windows[f[i]].end
            /\ Listed(issues[i].entities) = windows[f[i]].found
            /\ \A j \in 1 .. i - 1 : f[j] < f[i]
        BY <1>f, <4>2, Zenon DEF CarriedBy
      <4>4. \A j \in 1 .. i - 1 : h[j] < h[i]
        BY <2>12, <4>1, <4>2, <4>3
      <4>5. /\ issues'[i].start = windows'[h[i]].start
            /\ issues'[i].end = windows'[h[i]].end
            /\ Listed(issues'[i].entities) = windows'[h[i]].found
        BY <4>2, <4>3, Zenon
      <4> QED
        BY <4>4, <4>5, Zenon
    <3> QED
      BY <2>10, <3>1, <3>2
  <2>15. ASSUME NEW k \in 1 .. m + 1
         PROVE  windows'[k].found # {} <=> \E i \in 1 .. l + 1 : h[i] = k
    <3>1. CASE k = m + 1
      <4>1. l + 1 \in 1 .. l + 1 /\ windows'[k].found # {}
        BY <2>4, <2>5, <2>7, <2>9, <3>1
      <4> QED
        BY <2>12, <3>1, <4>1
    <3>2. CASE k \in 1 .. m
      <4>1. windows'[k].found # {} <=> \E i \in 1 .. l : f[i] = k
        BY <1>f, <2>7, <2>9, <3>2 DEF CarriedBy
      <4>2. \A i \in 1 .. l : i \in 1 .. l + 1
        OBVIOUS
      <4> QED
        BY <2>10, <2>12, <3>2, <4>1, <4>2
    <3> QED
      BY <2>11, <3>1, <3>2
  <2>16. CarriedBy(h)'
    BY <2>7, <2>8, <2>9, <2>14, <2>15 DEF CarriedBy, Listed
  <2>17. ASSUME NEW i \in 1 .. Len(issues') PROVE IssueRight(issues'[i])
    <3>1. CASE i = l + 1
      <4>1. IssueRight(r)
        BY <2>2, <2>6 DEF IssueRight
      <4> QED
        BY <2>8, <2>9, <3>1, <4>1
    <3>2. CASE i \in 1 .. l
      BY <2>8, <2>9, <3>2 DEF IssueInv
    <3> QED
      BY <2>8, <2>9, <2>10, <3>1, <3>2
  <2>18. \A d \in Check : pc'[d] = "email" => draft'[d].found # {}
    BY <2>3 DEF IssueInv, TypeOK
  <2> QED
    BY <2>8, <2>13, <2>16, <2>17, <2>18 DEF IssueInv
<1>8. ASSUME NEW c \in Check, EmailFails(c) PROVE IssueInv'
  <2>1. /\ pc' = [pc EXCEPT ![c] = "done"] /\ UNCHANGED <<issues, windows>>
        /\ \A d \in Check \ {c} : draft'[d] = draft[d]
    BY <1>8 DEF EmailFails, TypeOK
  <2> QED
    BY <1>0, <2>1 DEF IssueInv, TypeOK
<1> QED
  BY <1>2, <1>3, <1>4, <1>5, <1>6, <1>7, <1>8
     DEF Next, CheckStep, Setup, Timer, TimeGoesOn

\* However many entities are unavailable, of devices or of none, the issues
\* carry the windows that found something, in order, with counts that agree with
\* their lists and previews that leave out only what is beyond the limits.
THEOREM IssuesAreRight == Spec => []IssueFits
<1>1. Init => IssueInv
  BY IssueInit
<1>2. TypeOK /\ LockHeld /\ WindowInv /\ IssueInv /\ [Next]_vars => IssueInv'
  BY IssueStep
<1>3. IssueInv => IssueFits
  BY DEF IssueInv, IssueFits, IssueRight, PartOf
<1> QED
  BY <1>1, <1>2, <1>3, CheckerAlways, PTL DEF Spec
=============================================================================
