--------------------------- MODULE EntitiesChecker ---------------------------
(***************************************************************************)
(* EntitiesStatusChecker (error_watchers/watchers/entities_checker.py): a  *)
(* check at start-up and one at each tick of a timer, one at a time under  *)
(* a lock, looks for unavailable entities and makes an issue of them that  *)
(* covers the time since the check before.                                 *)
(*                                                                         *)
(* The scan of the registries has no await, so it is one step and sees one *)
(* state of the home; the entities go on changing while the e-mail is      *)
(* loaded.  In which order a set of ids is listed, and so what a preview   *)
(* shows of a long list, is left open.                                     *)
(***************************************************************************)
EXTENDS Naturals, Sequences, FiniteSets, FiniteSetsExt

CONSTANTS
  Entity,
  Registered,        \* entities in the entity registry
  DeviceOf,          \* the device of those that belong to one
  Check,             \* calls of _check_entities
  MaxDevices, MaxOfDevice, MaxPure,     \* limits of _preview_devices
  MaxTime,           \* bound on the clock
  MaxChanges         \* bound on the changes of entities

ASSUME RegistryAssumption ==
  /\ IsFiniteSet(Entity)
  /\ Registered \subseteq Entity /\ DOMAIN DeviceOf \subseteq Registered
ASSUME LimitsAssumption == {MaxDevices, MaxOfDevice, MaxPure} \subseteq Nat
ASSUME TimeAssumption == MaxTime \in Nat /\ MaxChanges \in Nat

VARIABLES
  now,
  status,            \* state of each entity: "none" if it has none
  disabled,          \* registered entities that are disabled
  changes,
  listening,         \* "new", "on" after setup(), "off" after remove()
  lock,              \* self._lock: holder, then the waiting
  firstRun,          \* self._first_run
  periodStart,       \* self._period_start
  pc,                \* where each check is
  draft,             \* what each check has found, before its issue is made
  issues,            \* the issues handed to _send_report
  windows,           \* history: the windows concluded, with what was found
  seen               \* history: when each entity was (not) a problem

homeVars == <<status, disabled, changes>>
vars == <<now, homeVars, listening, lock, firstRun, periodStart, pc, draft,
          issues, windows, seen>>

Time == 0 .. MaxTime
Status == {"none", "fine", "unavailable"}

NoDraft == [start |-> 0, end |-> 0, found |-> {}]

-----------------------------------------------------------------------------
(* The issue, from the ids that were found. *)

RegisteredOnly(st) == Registered       \* faulty: what has no unique id is missed

\* _get_all_entity_ids
AllEntityIds(st) == {e \in Entity : st[e] # "none"} \cup Registered

\* Explicitly disabled entities are not considered problematic.
IsProblem(e, st, dis) == e \notin dis /\ st[e] = "unavailable"

\* The loop of _check_entities
Unavailable(st, dis) == {e \in AllEntityIds(st) : IsProblem(e, st, dis)}

OnlyRegisteredPure(found) == (found \cap Registered) \ DOMAIN DeviceOf  \* faulty

Pure(found) == found \ DOMAIN DeviceOf

\* _group_by_device
Group(found) ==
  LET devices == {DeviceOf[e] : e \in found \cap DOMAIN DeviceOf}
  IN [devices |-> [d \in devices |->
                     {e \in found \cap DOMAIN DeviceOf : DeviceOf[e] = d}],
      pure |-> Pure(found)]

\* _count_devices_entities: the entities of all devices, added up, and the others
Counts(g) ==
  [devices |-> Cardinality(DOMAIN g.devices),
   entities |-> Cardinality(UNION {{d} \X g.devices[d] : d \in DOMAIN g.devices})
                  + Cardinality(g.pure)]

\* list[:limit], of a list of S in any order
FirstOf(S, limit) == kSubset(IF Cardinality(S) < limit THEN Cardinality(S) ELSE limit, S)

\* _preview_devices: a set of possible previews
Previews(g) ==
  UNION {{[devices |-> p, pure |-> q] :
            p \in {f \in [D -> SUBSET Entity] :
                     \A d \in D : f[d] \in FirstOf(g.devices[d], MaxOfDevice)},
            q \in FirstOf(g.pure, MaxPure)} :
         D \in FirstOf(DOMAIN g.devices, MaxDevices)}

-----------------------------------------------------------------------------
(* The home: entities change and time passes. *)

Note(st, dis, t) ==
  [e \in Entity |-> seen[e] \cup {<<t, IsProblem(e, st, dis)>>}]

Init ==
  /\ now = 0
  /\ status \in [Entity -> Status]
  /\ \A e \in Registered : status[e] = "fine"
  /\ disabled = {} /\ changes = 0
  /\ listening = "new"
  /\ lock = <<>> /\ firstRun = TRUE /\ periodStart = 0
  /\ pc = [c \in Check |-> "idle"]
  /\ draft = [c \in Check |-> NoDraft]
  /\ issues = <<>> /\ windows = <<>>
  /\ seen = [e \in Entity |-> {<<0, IsProblem(e, status, {})>>}]

Tick ==
  /\ now < MaxTime
  /\ now' = now + 1
  /\ seen' = Note(status, disabled, now')
  /\ UNCHANGED <<homeVars, listening, lock, firstRun, periodStart, pc, draft,
                 issues, windows>>

Change(e) ==
  /\ changes < MaxChanges
  /\ changes' = changes + 1
  /\ \/ status' \in {[status EXCEPT ![e] = s] : s \in Status} /\ UNCHANGED disabled
     \/ /\ e \in Registered /\ UNCHANGED status
        /\ disabled' = IF e \in disabled THEN disabled \ {e} ELSE disabled \cup {e}
  /\ seen' = Note(status', disabled', now)
  /\ UNCHANGED <<now, listening, lock, firstRun, periodStart, pc, draft, issues,
                 windows>>

-----------------------------------------------------------------------------
(* The checker. *)

\* A call of _check_entities, up to its lock
Start(c) ==
  /\ pc[c] = "idle"
  /\ pc' = [pc EXCEPT ![c] = "lock"]
  /\ lock' = Append(lock, c)

\* setup() starts the timer and a first check.
Setup ==
  /\ listening = "new"
  /\ listening' = "on"
  /\ \E c \in Check : Start(c)
  /\ UNCHANGED <<now, homeVars, firstRun, periodStart, draft, issues, windows, seen>>

Timer(c) ==
  /\ listening = "on"
  /\ Start(c)
  /\ UNCHANGED <<now, homeVars, listening, firstRun, periodStart, draft, issues,
                 windows, seen>>

\* remove() cancels the timer; a check under way goes on.
Remove ==
  /\ listening = "on"
  /\ listening' = "off"
  /\ UNCHANGED <<now, homeVars, lock, firstRun, periodStart, pc, draft, issues,
                 windows, seen>>

HoldsLock(c) == Head(lock) = c

\* `if self._first_run: await asyncio.sleep(15)'
Delay(c) ==
  /\ pc[c] = "lock" /\ HoldsLock(c) /\ firstRun
  /\ pc' = [pc EXCEPT ![c] = "sleep"]
  /\ UNCHANGED <<now, homeVars, listening, lock, firstRun, periodStart, draft,
                 issues, windows, seen>>

\* The check may scan: its sleep is over, or there is none.
Scanning(c) == pc[c] = "sleep" \/ (pc[c] = "lock" /\ HoldsLock(c) /\ ~firstRun)

Found == Unavailable(status, disabled)

Conclude(start, end, found) == windows' = Append(windows,
                                 [start |-> start, end |-> end, found |-> found])

KeptLocked == lock                             \* faulty: the lock is not released

Released == Tail(lock)

PeriodEnd == now

\* Nothing to report: the period moves on.
ScanNothing(c) ==
  /\ Scanning(c) /\ Found = {}
  /\ firstRun' = FALSE
  /\ periodStart' = PeriodEnd
  /\ Conclude(periodStart, PeriodEnd, {})
  /\ pc' = [pc EXCEPT ![c] = "done"]
  /\ lock' = Released
  /\ UNCHANGED <<now, homeVars, listening, draft, issues, seen>>

MovedAtScan == PeriodEnd            \* faulty: the period moves before the issue is made

PeriodAfterScan == periodStart

\* period_start, period_end and the ids are fixed; then _get_email awaits.
ScanFinds(c) ==
  /\ Scanning(c) /\ Found # {}
  /\ firstRun' = FALSE
  /\ periodStart' = PeriodAfterScan
  /\ draft' = [draft EXCEPT ![c] = [start |-> periodStart, end |-> PeriodEnd,
                                     found |-> Found]]
  /\ pc' = [pc EXCEPT ![c] = "email"]
  /\ UNCHANGED <<now, homeVars, listening, lock, issues, windows, seen>>

\* The issue is made and handed to _send_report, and the period moves on.
Report(c) ==
  /\ pc[c] = "email"
  /\ LET d == draft[c]
         g == Group(d.found)
     IN /\ \E p \in Previews(g) :
             issues' = Append(issues, [start |-> d.start, end |-> d.end,
                         counts |-> Counts(g), entities |-> g, preview |-> p])
        /\ Conclude(d.start, d.end, d.found)
        /\ periodStart' = d.end
  /\ draft' = [draft EXCEPT ![c] = NoDraft]
  /\ pc' = [pc EXCEPT ![c] = "done"]
  /\ lock' = Released
  /\ UNCHANGED <<now, homeVars, listening, firstRun, seen>>

\* StorageError leaves the check: no issue, and the period stays.
EmailFails(c) ==
  /\ pc[c] = "email"
  /\ draft' = [draft EXCEPT ![c] = NoDraft]
  /\ pc' = [pc EXCEPT ![c] = "done"]
  /\ lock' = Released
  /\ UNCHANGED <<now, homeVars, listening, firstRun, periodStart, issues, windows, seen>>

-----------------------------------------------------------------------------
CheckStep(c) == Delay(c) \/ ScanNothing(c) \/ ScanFinds(c) \/ Report(c) \/ EmailFails(c)

\* Beyond its bound time goes on; that no check stands still is ChecksEnd.
TimeGoesOn == now = MaxTime /\ UNCHANGED vars

Next ==
  \/ Tick \/ \E e \in Entity : Change(e)
  \/ Setup \/ Remove
  \/ \E c \in Check : Timer(c) \/ CheckStep(c)
  \/ TimeGoesOn

Spec == Init /\ [][Next]_vars

\* A check that can go on does so; the timer and the home are not forced.
FairSpec == Spec /\ \A c \in Check : WF_vars(CheckStep(c))
-----------------------------------------------------------------------------
(* Properties. *)

Window == [start : Time, end : Time, found : SUBSET Entity]

TypeOK ==
  /\ now \in Time /\ periodStart \in Time
  /\ status \in [Entity -> Status] /\ disabled \subseteq Registered
  /\ changes \in 0 .. MaxChanges
  /\ listening \in {"new", "on", "off"} /\ firstRun \in BOOLEAN
  /\ lock \in Seq(Check)
  /\ pc \in [Check -> {"idle", "lock", "sleep", "email", "done"}]
  /\ draft \in [Check -> Window]
  /\ windows \in Seq(Window)
  /\ seen \in [Entity -> SUBSET (Time \X BOOLEAN)]

\* The windows of the checks cover the time since the start without a gap or
\* an overlap, also when the e-mail cannot be loaded or checks queue up.
WindowsTile ==
  /\ \A i \in 1 .. Len(windows) :
       /\ windows[i].start = IF i = 1 THEN 0 ELSE windows[i - 1].end
       /\ windows[i].start <= windows[i].end
  /\ periodStart = IF windows = <<>> THEN 0 ELSE windows[Len(windows)].end

\* What a window reports is true of it: an entity that was a problem all the
\* time is reported, and each one that is was a problem at some time in it.
FoundInWindow ==
  \A i \in 1 .. Len(windows) : \A e \in Entity :
    LET w == windows[i]
        during == {o \in seen[e] : o[1] \in w.start .. w.end}
    IN /\ (\A o \in during : o[2]) => e \in w.found
       /\ e \in w.found => \E o \in during : o[2]

Listed(g) == g.pure \cup UNION {g.devices[d] : d \in DOMAIN g.devices}

\* Issue i carries what window f[i] found, and each window that found something
\* has an issue, in the order of the windows.
CarriedBy(f) ==
  /\ \A i \in 1 .. Len(issues) :
       /\ issues[i].start = windows[f[i]].start /\ issues[i].end = windows[f[i]].end
       /\ Listed(issues[i].entities) = windows[f[i]].found
       /\ \A j \in 1 .. i - 1 : f[j] < f[i]
  /\ \A k \in 1 .. Len(windows) :
       windows[k].found # {} <=> \E i \in 1 .. Len(issues) : f[i] = k

\* Issues carry the windows that found something, in their order; each entity
\* is counted and listed once; the preview is a part of the list that is as
\* long as its limits allow.
IssueFits ==
  /\ \E f \in [1 .. Len(issues) -> 1 .. Len(windows)] : CarriedBy(f)
  /\ \A i \in 1 .. Len(issues) :
       LET full == issues[i].entities
           p == issues[i].preview
       IN /\ issues[i].counts.entities = Cardinality(Listed(full))
          /\ issues[i].counts.devices = Cardinality(DOMAIN full.devices)
          /\ Listed(p) \subseteq Listed(full)
          /\ \A d \in DOMAIN p.devices :
               p.devices[d] # full.devices[d] =>
                 Cardinality(p.devices[d]) = MaxOfDevice
          /\ DOMAIN p.devices # DOMAIN full.devices =>
               Cardinality(DOMAIN p.devices) = MaxDevices
          /\ p.pure # full.pure => Cardinality(p.pure) = MaxPure

\* Every check comes to its end, whatever the one before it met.
ChecksEnd == \A c \in Check : pc[c] = "lock" ~> pc[c] = "done"
=============================================================================
