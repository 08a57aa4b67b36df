--------------------------- MODULE LifecycleProofs ---------------------------
(***************************************************************************)
(* Proofs about Lifecycle for any number of dialogs, forms and crashes.    *)
(*                                                                         *)
(* The inductive invariant has four parts.  Places: one dialog at a time,  *)
(* none beside an entry, one entry, also on disk.  Running: service and    *)
(* watchers follow the state of the entries Home Assistant knows.  Trust:  *)
(* between the save of a dialog and the end of its entry the store has     *)
(* that dialog's credentials or, by a removal under way, none.  Remains:   *)
(* who answers for credentials and log files that are on disk.             *)
(***************************************************************************)
EXTENDS Lifecycle, FiniteSetTheorems, TLAPS

Places ==
  /\ \A f, g \in Flow : flow[f] \in Dialog /\ flow[g] \in Dialog => f = g
  /\ \A e \in entries : \A f \in Flow : flow[f] \notin Dialog
  /\ \A e, g \in entries : e = g
  /\ \A e, g \in saved : e = g
  /\ \A e \in entries \cup saved : flow[e] = "done"

\* The first form is filled in before the second one is shown.
FilledIn ==
  \A f \in Flow : flow[f] \in {"seed", "reading", "writing", "saved"} => data[f] \in Creds

Running ==
  /\ \A e \in Flow : state[e] # "none" => e \in entries
  /\ \A e \in Flow : watchers[e] = IF state[e] = "loaded" THEN 1 ELSE 0
  /\ \A e \in Flow : service = e <=> state[e] = "loaded"

Inside(f) == flow[f] \in {"seed", "reading", "writing", "saved"} \/ f \in entries
Saved(f) == flow[f] = "saved" \/ f \in entries

Trust ==
  /\ \A f \in Flow \ torn : Saved(f) => store \in {data[f], None}
  /\ \A e \in Flow \ torn : state[e] \in {"sweeping", "loaded"} => using[e] = data[e]
  /\ \A f \in Flow \ (raced \cup torn) : Inside(f) => \A e \in Flow : ~Removing(e)
  /\ \A f \in Flow \ (raced \cup torn) : Saved(f) => store = data[f]

Remains ==
  /\ store # None /\ "store" \notin kept =>
       /\ holder \in Flow
       /\ holder \notin torn => Saved(holder) \/ removal[holder] = "store"
  /\ logs /\ "logs" \notin kept /\ torn = {} =>
       entries # {} \/ \E e \in Flow : Removing(e)

LifecycleInv == TypeOK /\ FilledIn /\ Places /\ Running /\ Trust /\ Remains

\* The steps that leave everything to the dialogs
DialogStep(f) ==
  OpenDialog(f) \/ SubmitUser(f) \/ SubmitSeed(f) \/ ReadStore(f) \/ WriteStore(f)
    \/ SaveFails(f) \/ CloseDialog(f)

LEMMA LifecycleInit == Init => LifecycleInv
<1> SUFFICES ASSUME Init PROVE LifecycleInv
  OBVIOUS
<1>1. TypeOK
  <2>1. 0 \in 0 .. MaxCrashes /\ 0 \in 0 .. 1
    BY CrashesAssumption
  <2>2. flow \in [Flow -> Dialog \cup {"new", "done", "aborted"}]
    BY DEF Init
  <2>3. /\ state \in [Flow -> {"none", "loading", "sweeping", "loaded", "failed"}]
        /\ removal \in [Flow -> {"no", "store", "logs", "over"}]
    BY DEF Init
  <2>4. data \in [Flow -> Creds \cup {None}] /\ using \in [Flow -> Creds \cup {None}]
    BY DEF Init
  <2>5. watchers \in [Flow -> 0 .. 1]
    BY <2>1 DEF Init
  <2> QED
    BY <2>1, <2>2, <2>3, <2>4, <2>5 DEF Init, TypeOK
<1>2. FilledIn /\ Places /\ Running
  BY NoneAssumption DEF Init, FilledIn, Places, Running, Dialog
<1>3. Trust /\ Remains
  BY DEF Init, Trust, Remains, Saved, Inside, Removing
<1> QED
  BY <1>1, <1>2, <1>3 DEF LifecycleInv
-----------------------------------------------------------------------------
LEMMA TypedStep == TypeOK /\ FilledIn /\ Running /\ [Next]_vars => TypeOK'
<1> SUFFICES ASSUME TypeOK, FilledIn, Running, [Next]_vars PROVE TypeOK'
  OBVIOUS
<1> USE DEF TypeOK, flowVars, storeVars, entryVars, removalVars
<1>1. ASSUME NEW f \in Flow, OpenDialog(f) \/ CloseDialog(f) \/ SaveFails(f)
      PROVE  TypeOK'
  BY <1>1 DEF OpenDialog, CloseDialog, SaveFails, Goto, Dialog
<1>2. ASSUME NEW f \in Flow, SubmitUser(f) PROVE TypeOK'
  <2>1. \A form \in Form : [form |-> form, seed |-> "own"] \in Creds
    BY DEF Creds
  <2>2. data' \in [Flow -> Creds \cup {None}]
    BY <1>2, <2>1 DEF SubmitUser
  <2>3. flow' \in [Flow -> Dialog \cup {"new", "done", "aborted"}]
    BY <1>2 DEF SubmitUser, Goto, Dialog
  <2>4. raced' \subseteq Flow
    BY <1>2 DEF SubmitUser
  <2> QED
    BY <1>2, <2>2, <2>3, <2>4 DEF SubmitUser
<1>3. ASSUME NEW f \in Flow, SubmitSeed(f) PROVE TypeOK'
  <2>1. PICK seed \in {"own", f} : data' = [data EXCEPT ![f].seed = seed]
    BY <1>3 DEF SubmitSeed
  <2>2. data[f] \in Creds
    BY <1>3 DEF FilledIn, SubmitSeed
  <2>3. [data[f] EXCEPT !.seed = seed] \in Creds
    BY <2>2 DEF Creds
  <2>4. data' \in [Flow -> Creds \cup {None}]
    BY <2>1, <2>3
  <2> QED
    BY <1>3, <2>4 DEF SubmitSeed, Goto, Dialog
<1>4. ASSUME NEW f \in Flow, ReadStore(f) \/ WriteStore(f) PROVE TypeOK'
  <2>1. /\ store' \in Creds \cup {None} /\ holder' \in Flow \cup {None}
        /\ UNCHANGED <<data, raced, entryVars, removalVars, crashes, torn>>
    BY <1>4 DEF ReadStore, WriteStore
  <2>2. flow' \in [Flow -> Dialog \cup {"new", "done", "aborted"}]
    BY <1>4 DEF ReadStore, WriteStore, SaveNext, Goto, Dialog
  <2> QED
    BY <2>1, <2>2
<1>5. ASSUME NEW f \in Flow, CreateEntry(f) PROVE TypeOK'
  BY <1>5 DEF CreateEntry, Goto, Dialog
<1>6. ASSUME NEW e \in Flow, SetupAgain(e) \/ LoadCreds(e) \/ SetupFails(e)
      PROVE  TypeOK'
  <2>1. /\ using' \in [Flow -> Creds \cup {None}]
        /\ UNCHANGED <<flowVars, storeVars, entries, saved, service, watchers,
                       removalVars, crashes, torn>>
    BY <1>6 DEF SetupAgain, LoadCreds, SetupFails
  <2>2. state' \in [Flow -> {"none", "loading", "sweeping", "loaded", "failed"}]
    BY <1>6 DEF SetupAgain, LoadCreds, SetupFails, NotSetUp
  <2> QED
    BY <2>1, <2>2
<1>7. ASSUME NEW e \in Flow, FinishSetup(e) PROVE TypeOK'
  <2>1. watchers[e] = 0
    BY <1>7 DEF FinishSetup, Running
  <2> QED
    BY <1>7, <2>1 DEF FinishSetup
<1>8. ASSUME NEW e \in Flow, Unload(e) PROVE TypeOK'
  BY <1>8 DEF Unload, UnloadEffect, WatchersLeft
<1>9. CASE LogLine
  BY <1>9 DEF LogLine
<1>10. ASSUME NEW e \in Flow, RemoveEntry(e) PROVE TypeOK'
  BY <1>10 DEF RemoveEntry, UnloadEffect, WatchersLeft
<1>11. ASSUME NEW e \in Flow, RemovalStep(e) PROVE TypeOK'
  BY <1>11 DEF RemovalStep, RemoveStore, RemoveStoreFails, RemoveLogs, StoreLeft
<1>12. CASE Persist
  BY <1>12 DEF Persist
<1>13. CASE Crash
  <2>1. crashes' \in 0 .. MaxCrashes
    BY <1>13, CrashesAssumption DEF Crash
  <2>2. flow' \in [Flow -> Dialog \cup {"new", "done", "aborted"}]
    BY <1>13 DEF Crash
  <2>3. removal' \in [Flow -> {"no", "store", "logs", "over"}]
    BY <1>13 DEF Crash
  <2>4. torn' \subseteq Flow
    BY <1>13 DEF Crash
  <2> QED
    BY <1>13, <2>1, <2>2, <2>3, <2>4 DEF Crash
<1>14. CASE UNCHANGED vars
  BY <1>14 DEF vars
<1> QED
  BY <1>1, <1>2, <1>3, <1>4, <1>5, <1>6, <1>7, <1>8, <1>9, <1>10, <1>11, <1>12,
     <1>13, <1>14
     DEF Next, FlowStep, SetupStep, Quiescent

LEMMA FilledInStep == TypeOK /\ TypeOK' /\ FilledIn /\ [Next]_vars => FilledIn'
<1> SUFFICES ASSUME TypeOK, TypeOK', FilledIn, [Next]_vars PROVE FilledIn'
  OBVIOUS
<1> USE DEF TypeOK, FilledIn, flowVars, storeVars, entryVars, removalVars
<1>1. ASSUME NEW f \in Flow, SubmitUser(f) PROVE FilledIn'
  <2>1. \A form \in Form : [form |-> form, seed |-> "own"] \in Creds
    BY DEF Creds
  <2> QED
    BY <1>1, <2>1 DEF SubmitUser, Goto
<1>2. ASSUME NEW f \in Flow, SubmitSeed(f) PROVE FilledIn'
  <2>1. PICK seed \in {"own", f} : data' = [data EXCEPT ![f].seed = seed]
    BY <1>2 DEF SubmitSeed
  <2>2. [data[f] EXCEPT !.seed = seed] \in Creds
    BY <1>2 DEF SubmitSeed, Creds
  <2> QED
    BY <1>2, <2>1, <2>2 DEF SubmitSeed, Goto
<1>3. ASSUME NEW f \in Flow, OpenDialog(f) \/ CloseDialog(f) \/ SaveFails(f) \/ CreateEntry(f)
      PROVE  FilledIn'
  BY <1>3 DEF OpenDialog, CloseDialog, SaveFails, CreateEntry, Goto
<1>4. ASSUME NEW f \in Flow, ReadStore(f) \/ WriteStore(f) PROVE FilledIn'
  BY <1>4 DEF ReadStore, WriteStore, SaveNext, Goto
<1>5. ASSUME UNCHANGED <<flow, data>> PROVE FilledIn'
  BY <1>5
<1>6. ASSUME NEW e \in Flow,
             SetupAgain(e) \/ SetupStep(e) \/ Unload(e) \/ RemoveEntry(e) \/ RemovalStep(e)
      PROVE  FilledIn'
  BY <1>5, <1>6 DEF SetupAgain, SetupStep, LoadCreds, SetupFails, FinishSetup, Unload,
                    RemoveEntry, RemovalStep, RemoveStore, RemoveStoreFails, RemoveLogs
<1>7. CASE LogLine \/ Persist \/ UNCHANGED vars
  BY <1>5, <1>7 DEF LogLine, Persist, vars
<1>8. CASE Crash
  BY <1>8 DEF Crash
<1> QED
  BY <1>1, <1>2, <1>3, <1>4, <1>6, <1>7, <1>8 DEF Next, FlowStep, Quiescent

LEMMA PlacesStep == TypeOK /\ Places /\ [Next]_vars => Places'
<1> SUFFICES ASSUME TypeOK, Places, [Next]_vars PROVE Places'
  OBVIOUS
<1> USE DEF TypeOK, Places, flowVars, storeVars, entryVars, removalVars
<1>1. ASSUME NEW f \in Flow, OpenDialog(f) PROVE Places'
  BY <1>1 DEF OpenDialog, MayGoOn, Goto, Dialog
<1>2. ASSUME NEW f \in Flow, flow[f] \in Dialog, UNCHANGED <<entries, saved>>,
             NEW to \in Dialog \cup {"aborted"}, Goto(f, to)
      PROVE  Places'
  BY <1>2 DEF Goto, Dialog
<1>3. ASSUME NEW f \in Flow, SubmitUser(f) PROVE Places'
  BY <1>2, <1>3 DEF SubmitUser, Dialog
<1>4. ASSUME NEW f \in Flow,
             SubmitSeed(f) \/ ReadStore(f) \/ WriteStore(f) \/ SaveFails(f) \/ CloseDialog(f)
      PROVE  Places'
  BY <1>2, <1>4 DEF SubmitSeed, ReadStore, SaveNext, WriteStore, SaveFails, CloseDialog,
                    Dialog
<1>5. ASSUME NEW f \in Flow, CreateEntry(f) PROVE Places'
  BY <1>5 DEF CreateEntry, Goto, Dialog
<1>6. ASSUME UNCHANGED <<flow, entries, saved>> PROVE Places'
  BY <1>6
<1>7. ASSUME NEW e \in Flow, SetupAgain(e) \/ SetupStep(e) \/ Unload(e) \/ RemovalStep(e)
      PROVE  Places'
  BY <1>6, <1>7 DEF SetupAgain, SetupStep, LoadCreds, SetupFails, FinishSetup, Unload,
                    RemovalStep, RemoveStore, RemoveStoreFails, RemoveLogs
<1>8. ASSUME NEW e \in Flow, RemoveEntry(e) PROVE Places'
  BY <1>8 DEF RemoveEntry
<1>9. CASE Persist
  BY <1>9 DEF Persist
<1>10. CASE Crash
  BY <1>10 DEF Crash, Dialog
<1>11. CASE LogLine \/ UNCHANGED vars
  BY <1>6, <1>11 DEF LogLine, vars
<1> QED
  BY <1>1, <1>3, <1>4, <1>5, <1>7, <1>8, <1>9, <1>10, <1>11
     DEF Next, FlowStep, Quiescent

LEMMA RunningStep == TypeOK /\ Places /\ Running /\ [Next]_vars => Running'
<1> SUFFICES ASSUME TypeOK, Places, Running, [Next]_vars PROVE Running'
  OBVIOUS
<1> USE DEF TypeOK, Running, flowVars, storeVars, entryVars, removalVars
<1>1. ASSUME UNCHANGED <<entries, state, watchers, service>> PROVE Running'
  BY <1>1
<1>2. ASSUME NEW f \in Flow, DialogStep(f) PROVE Running'
  BY <1>1, <1>2 DEF DialogStep, OpenDialog, SubmitUser, SubmitSeed, ReadStore,
                    WriteStore, SaveFails, CloseDialog
<1>3. ASSUME NEW f \in Flow, CreateEntry(f) PROVE Running'
  <2>1. state[f] # "loaded"
    BY <1>3 DEF CreateEntry, Places, Dialog
  <2> QED
    BY <1>3, <2>1 DEF CreateEntry
<1>4. ASSUME NEW e \in Flow, SetupAgain(e) \/ LoadCreds(e) \/ SetupFails(e)
      PROVE  Running'
  BY <1>4 DEF SetupAgain, LoadCreds, SetupFails, NotSetUp
<1>5. ASSUME NEW e \in Flow, FinishSetup(e) PROVE Running'
  <2>1. /\ state[e] = "sweeping" /\ state' = [state EXCEPT ![e] = "loaded"] /\ service' = e
        /\ watchers' = [watchers EXCEPT ![e] = @ + 1] /\ entries' = entries
    BY <1>5 DEF FinishSetup
  <2>2. \A g \in Flow \ {e} : state[g] = "none" /\ state'[g] = "none" /\ watchers'[g] = 0
    BY <2>1 DEF Places
  <2>3. state'[e] = "loaded" /\ watchers'[e] = 1 /\ e \in entries'
    BY <2>1
  <2> QED
    BY <2>1, <2>2, <2>3
<1>6. ASSUME NEW e \in Flow, e \in entries, UnloadEffect(e),
             entries' \in {entries, entries \ {e}}
      PROVE  Running'
  <2>1. \A g \in Flow \ {e} : state[g] = "none" /\ state'[g] = "none"
    BY <1>6 DEF Places, UnloadEffect
  <2>2. state'[e] = "none" /\ watchers'[e] = 0
    BY <1>6 DEF UnloadEffect, WatchersLeft
  <2>3. \A g \in Flow \ {e} : watchers'[g] = 0
    BY <1>6, <2>1 DEF UnloadEffect
  <2>4. \A g \in Flow : service' # g
    <3>1. CASE state[e] = "loaded"
      BY <1>6, <3>1, NoneAssumption DEF UnloadEffect
    <3>2. CASE state[e] # "loaded"
      <4>1. \A g \in Flow : state[g] # "loaded"
        BY <2>1, <3>2
      <4> QED
        BY <1>6, <3>2, <4>1 DEF UnloadEffect
    <3> QED
      BY <3>1, <3>2
  <2> QED
    BY <1>6, <2>1, <2>2, <2>3, <2>4
<1>7. ASSUME NEW e \in Flow, Unload(e) \/ RemoveEntry(e) PROVE Running'
  BY <1>6, <1>7 DEF Unload, RemoveEntry
<1>8. ASSUME NEW e \in Flow, RemovalStep(e) PROVE Running'
  BY <1>1, <1>8 DEF RemovalStep, RemoveStore, RemoveStoreFails, RemoveLogs
<1>9. CASE LogLine \/ Persist \/ UNCHANGED vars
  BY <1>1, <1>9 DEF LogLine, Persist, vars
<1>10. CASE Crash
  BY <1>10, NoneAssumption DEF Crash
<1> QED
  BY <1>2, <1>3, <1>4, <1>5, <1>7, <1>8, <1>9, <1>10
     DEF Next, DialogStep, FlowStep, SetupStep, Quiescent
-----------------------------------------------------------------------------
LEMMA TrustStep ==
  TypeOK /\ Places /\ Running /\ Trust /\ [Next]_vars => Trust'
<1> SUFFICES ASSUME TypeOK, Places, Running, Trust, [Next]_vars PROVE Trust'
  OBVIOUS
<1> USE DEF TypeOK, Trust, Saved, Inside, Removing,
            flowVars, storeVars, entryVars, removalVars
\* A dialog at work is the only one, and there is no entry beside it.
<1>0. ASSUME NEW f \in Flow, flow[f] \in Dialog
      PROVE  entries = {} /\ \A g \in Flow \ {f} : flow[g] \notin Dialog
  BY <1>0 DEF Places
<1>1. ASSUME NEW f \in Flow, OpenDialog(f) \/ CloseDialog(f) \/ SaveFails(f)
      PROVE  Trust'
  BY <1>1 DEF OpenDialog, CloseDialog, SaveFails, Goto
<1>2. ASSUME NEW f \in Flow, SubmitUser(f) PROVE Trust'
  <2>1. entries = {} /\ \A g \in Flow \ {f} : flow[g] \notin Dialog
    BY <1>0, <1>2 DEF SubmitUser, Dialog
  <2>2. \A g \in Flow \ {f} : flow'[g] = flow[g]
    BY <1>2 DEF SubmitUser, Goto
  <2>3. flow'[f] \in {"seed", "aborted"}
    BY <1>2 DEF SubmitUser, Goto
  <2>4. \A g \in Flow : ~Saved(g)' /\ state'[g] = "none"
    BY <1>2, <2>1, <2>2, <2>3 DEF SubmitUser, Running, Dialog
  <2>5. f \in raced' \/ flow'[f] = "aborted" \/ \A e \in Flow : ~Removing(e)
    BY <1>2 DEF SubmitUser, Goto
  <2>6. \A g \in Flow \ {f} : ~Inside(g)'
    BY <1>2, <2>1, <2>2 DEF SubmitUser, Dialog
  <2>7. \A g \in Flow \ (raced' \cup torn') : Inside(g)' => \A e \in Flow : ~Removing(e)'
    BY <1>2, <2>1, <2>3, <2>5, <2>6 DEF SubmitUser
  <2> QED
    BY <2>4, <2>7
<1>3. ASSUME NEW f \in Flow, SubmitSeed(f) PROVE Trust'
  <2>1. entries = {} /\ \A g \in Flow \ {f} : flow[g] \notin Dialog
    BY <1>0, <1>3 DEF SubmitSeed, Dialog
  <2> QED
    BY <1>3, <2>1 DEF SubmitSeed, Goto, Running, Dialog
<1>4. ASSUME NEW f \in Flow, ReadStore(f) \/ WriteStore(f) PROVE Trust'
  <2>1. entries = {} /\ \A g \in Flow \ {f} : flow[g] \notin Dialog
    BY <1>0, <1>4 DEF ReadStore, WriteStore, Dialog
  <2>2. \A g \in Flow \ {f} : flow'[g] = flow[g]
    BY <1>4 DEF ReadStore, WriteStore, Goto
  <2>3. flow'[f] = "writing" \/ (flow'[f] = "saved" /\ store' = data[f])
    BY <1>4 DEF ReadStore, WriteStore, Goto, SaveNext
  <2>4. flow[f] \in {"reading", "writing"}
        /\ UNCHANGED <<data, raced, entryVars, removalVars, crashes, torn>>
    BY <1>4 DEF ReadStore, WriteStore
  <2>5. \A g \in Flow : state'[g] = "none"
    BY <2>1, <2>4 DEF Running
  <2>6. \A g \in Flow : Saved(g)' => g = f /\ store' = data'[g]
    BY <2>1, <2>2, <2>3, <2>4 DEF Dialog
  <2>7. \A g \in Flow : Inside(g)' => Inside(g)
    BY <2>1, <2>2, <2>4
  <2> QED
    BY <2>4, <2>5, <2>6, <2>7
<1>5. ASSUME NEW f \in Flow, CreateEntry(f) PROVE Trust'
  BY <1>0, <1>5 DEF CreateEntry, Goto, Dialog
<1>6. ASSUME NEW e \in Flow, SetupAgain(e) \/ SetupFails(e) \/ FinishSetup(e) \/ Unload(e)
      PROVE  Trust'
  BY <1>6 DEF SetupAgain, SetupFails, NotSetUp, FinishSetup, Unload, UnloadEffect
<1>7. ASSUME NEW e \in Flow, LoadCreds(e) PROVE Trust'
  <2>1. e \in entries
    BY <1>7 DEF LoadCreds, Running
  <2> QED
    BY <1>7, <2>1 DEF LoadCreds
<1>8. ASSUME NEW e \in Flow, RemoveEntry(e) PROVE Trust'
  <2>1. entries' = {} /\ \A g \in Flow : flow[g] \notin Dialog
    BY <1>8 DEF RemoveEntry, Places
  <2> QED
    BY <1>8, <2>1 DEF RemoveEntry, UnloadEffect, Dialog
<1>9. ASSUME NEW e \in Flow, RemoveStore(e) PROVE Trust'
  BY <1>9 DEF RemoveStore, StoreLeft
<1>10. ASSUME NEW e \in Flow, RemoveStoreFails(e) \/ RemoveLogs(e) PROVE Trust'
  BY <1>10 DEF RemoveStoreFails, RemoveLogs
<1>11. CASE Crash
  <2>1. /\ entries' = saved /\ UNCHANGED <<data, raced, store>>
        /\ \A f \in Flow : flow'[f] \notin Dialog /\ state'[f] = "none"
    BY <1>11 DEF Crash, Dialog
  <2>2. torn \subseteq torn' /\ \A f \in saved \ torn' : f \in entries
    BY <1>11 DEF Crash
  <2>3. \A e \in Flow : ~Removing(e)'
    BY <1>11 DEF Crash
  <2> QED
    BY <2>1, <2>2, <2>3 DEF Dialog
<1>12. CASE LogLine \/ Persist \/ UNCHANGED vars
  BY <1>12 DEF LogLine, Persist, vars
<1> QED
  BY <1>1, <1>2, <1>3, <1>4, <1>5, <1>6, <1>7, <1>8, <1>9, <1>10, <1>11, <1>12
     DEF Next, FlowStep, SetupStep, RemovalStep, Quiescent

LEMMA RemainsStep ==
  TypeOK /\ Places /\ Running /\ Remains /\ [Next]_vars => Remains'
<1> SUFFICES ASSUME TypeOK, Places, Running, Remains, [Next]_vars PROVE Remains'
  OBVIOUS
<1> USE DEF TypeOK, Remains, Saved, Removing, flowVars, storeVars, entryVars, removalVars
<1>1. ASSUME NEW f \in Flow,
             OpenDialog(f) \/ SubmitUser(f) \/ SubmitSeed(f) \/ SaveFails(f) \/ CloseDialog(f)
      PROVE  Remains'
  <2>1. flow[f] # "saved" /\ \A g \in Flow \ {f} : flow'[g] = flow[g]
    BY <1>1 DEF OpenDialog, SubmitUser, SubmitSeed, SaveFails, CloseDialog, Goto
  <2>2. UNCHANGED <<storeVars, entryVars, removalVars, crashes, torn>>
    BY <1>1 DEF OpenDialog, SubmitUser, SubmitSeed, SaveFails, CloseDialog
  <2> QED
    BY <2>1, <2>2
<1>2. ASSUME NEW f \in Flow, ReadStore(f) PROVE Remains'
  BY <1>2 DEF ReadStore, SaveNext, Goto
<1>3. ASSUME NEW f \in Flow, WriteStore(f) PROVE Remains'
  BY <1>3 DEF WriteStore, Goto
<1>4. ASSUME NEW f \in Flow, CreateEntry(f) PROVE Remains'
  BY <1>4 DEF CreateEntry, Goto
<1>5. ASSUME NEW e \in Flow, SetupAgain(e) \/ SetupStep(e) \/ Unload(e) PROVE Remains'
  BY <1>5 DEF SetupAgain, SetupStep, LoadCreds, SetupFails, FinishSetup, Unload
<1>6. CASE LogLine
  <2>1. entries # {}
    BY <1>6 DEF LogLine, Running
  <2> QED
    BY <1>6, <2>1 DEF LogLine
<1>7. ASSUME NEW e \in Flow, RemoveEntry(e) PROVE Remains'
  <2>1. /\ e \in entries /\ entries' = entries \ {e} /\ removal' = [removal EXCEPT ![e] = "store"]
        /\ UNCHANGED <<flowVars, storeVars, logs, kept, torn>>
    BY <1>7 DEF RemoveEntry
  <2>2. removal'[e] = "store" /\ \A g \in Flow \ {e} : removal'[g] = removal[g]
    BY <2>1
  <2> QED
    BY <2>1, <2>2
<1>8. ASSUME NEW e \in Flow, RemoveStore(e) PROVE Remains'
  BY <1>8 DEF RemoveStore, StoreLeft
<1>9. ASSUME NEW e \in Flow, RemoveStoreFails(e) PROVE Remains'
  BY <1>9 DEF RemoveStoreFails
<1>10. ASSUME NEW e \in Flow, RemoveLogs(e) PROVE Remains'
  BY <1>10 DEF RemoveLogs
<1>11. CASE Persist \/ UNCHANGED vars
  BY <1>11 DEF Persist, vars
<1>12. CASE Crash
  <2>1. /\ entries' = saved /\ UNCHANGED <<store, holder, logs, kept>>
        /\ torn' = torn \cup {f \in Flow : \/ flow[f] \in {"reading", "writing", "saved"}
                                           \/ (f \in entries) # (f \in saved)
                                           \/ Removing(f)}
    BY <1>12 DEF Crash
  <2>2. store # None /\ "store" \notin kept /\ holder \notin torn' => holder \in saved
    BY <2>1
  <2>3. torn' = {} => entries = saved /\ torn = {} /\ \A e \in Flow : ~Removing(e)
    BY <2>1
  <2> QED
    BY <2>1, <2>2, <2>3
<1> QED
  BY <1>1, <1>2, <1>3, <1>4, <1>5, <1>6, <1>7, <1>8, <1>9, <1>10, <1>11, <1>12
     DEF Next, FlowStep, RemovalStep, Quiescent
-----------------------------------------------------------------------------
LEMMA LifecycleAlways == Spec => []LifecycleInv
<1>1. LifecycleInv /\ [Next]_vars => LifecycleInv'
  BY TypedStep, FilledInStep, PlacesStep, RunningStep, TrustStep, RemainsStep
     DEF LifecycleInv
<1> QED
  BY <1>1, LifecycleInit, PTL DEF Spec

\* Type correctness; in it, that an entry's watchers are never started twice.
THEOREM TypeCorrect == Spec => []TypeOK
<1>1. LifecycleInv => TypeOK
  BY DEF LifecycleInv
<1> QED
  BY <1>1, LifecycleAlways, PTL

\* However dialogs, set-ups, removals and crashes interleave, there is one
\* entry, or one dialog past its first form, or neither.
THEOREM NeverTwo == Spec => []OneInstance
<1>1. LifecycleInv => OneInstance
  <2> SUFFICES ASSUME LifecycleInv PROVE OneInstance
    OBVIOUS
  <2> DEFINE S == entries \cup {f \in Flow : flow[f] \in Dialog \ {"user"}}
  <2>1. \A f, g \in S : f = g
    BY DEF LifecycleInv, TypeOK, Places
  <2>2. CASE S = {}
    BY <2>2, FS_EmptySet DEF OneInstance
  <2>3. CASE S # {}
    <3>1. PICK f \in S : S = {f}
      BY <2>1, <2>3
    <3>2. Cardinality(S) = 1
      BY <3>1, FS_Singleton
    <3> QED
      BY <3>2 DEF OneInstance
  <2> QED
    BY <2>2, <2>3
<1> QED
  BY <1>1, LifecycleAlways, PTL

\* An entry finds its own credentials in the store, however many entries came
\* before it, but for the races EntryHasItsCreds names.
THEOREM CredsAreTheEntrys == Spec => []EntryHasItsCreds
<1>1. LifecycleInv => EntryHasItsCreds
  BY DEF LifecycleInv, TypeOK, Trust, Saved, EntryHasItsCreds
<1> QED
  BY <1>1, LifecycleAlways, PTL

\* The service and the watchers run for the loaded entry and for nothing else,
\* with its own credentials, also when its dialog raced a removal.
THEOREM RunningForTheEntry == Spec => []RunsForItsEntry
<1>1. LifecycleInv => RunsForItsEntry
  BY DEF LifecycleInv, Running, Trust, RunsForItsEntry
<1> QED
  BY <1>1, LifecycleAlways, PTL

\* Credentials and log files that outlive the last entry are accounted for by
\* a removal under way, a failure, or a crash.
THEOREM RemovalIsComplete == Spec => []NothingLeftOver
<1>1. LifecycleInv => NothingLeftOver
  <2> SUFFICES ASSUME LifecycleInv, entries = {} PROVE NothingLeftOver
    BY DEF NothingLeftOver
  <2>1. store # None /\ "store" \notin kept /\ holder \notin torn
          => \E f \in Flow : flow[f] = "saved" \/ Removing(f)
    BY DEF LifecycleInv, Remains, Saved, Removing
  <2>2. logs /\ "logs" \notin kept /\ torn = {} => \E e \in Flow : Removing(e)
    BY DEF LifecycleInv, Remains
  <2> QED
    BY <2>1, <2>2 DEF NothingLeftOver
<1> QED
  BY <1>1, LifecycleAlways, PTL

\* The service passes from one entry to the next only by way of no service, and
\* as long as it is registered it works with the credentials it was set up with:
\* what ReportPipeline takes for granted of its Setup and Unload.
ServiceHandover ==
  [][\A e \in Flow : service = e =>
       service' = None \/ (service' = e /\ using'[e] = using[e])]_vars

\* No step takes the service from one entry straight to another, nor changes the
\* credentials it works with (__init__.py's set-up and unload).
THEOREM OneServiceAtATime == Spec => ServiceHandover
<1> USE DEF flowVars, storeVars, entryVars, removalVars
<1>1. ASSUME LifecycleInv, [Next]_vars, NEW e \in Flow, service = e
      PROVE  service' = None \/ (service' = e /\ using'[e] = using[e])
  <2>1. /\ state[e] = "loaded" /\ e \in entries /\ using \in [Flow -> Creds \cup {None}]
        /\ \A g \in Flow \ {e} : state[g] = "none"
    BY <1>1 DEF LifecycleInv, TypeOK, Places, Running
  <2>2. ASSUME UNCHANGED <<service, using>>
        PROVE  service' = None \/ (service' = e /\ using'[e] = using[e])
    BY <1>1, <2>2
  <2>3. ASSUME NEW g \in Flow, DialogStep(g) \/ CreateEntry(g) \/ SetupAgain(g)
                                 \/ SetupFails(g) \/ RemovalStep(g)
        PROVE  UNCHANGED <<service, using>>
    BY <2>3 DEF DialogStep, OpenDialog, SubmitUser, SubmitSeed, ReadStore, WriteStore,
         SaveFails, CloseDialog, CreateEntry, SetupAgain, SetupFails, RemovalStep,
         RemoveStore, RemoveStoreFails, RemoveLogs
  <2>4. ASSUME NEW g \in Flow, LoadCreds(g) \/ FinishSetup(g) PROVE FALSE
    BY <2>1, <2>4 DEF LoadCreds, FinishSetup
  <2>5. ASSUME NEW g \in Flow, Unload(g) \/ RemoveEntry(g)
        PROVE  service' = None \/ (service' = e /\ using'[e] = using[e])
    BY <1>1, <2>5 DEF Unload, RemoveEntry, UnloadEffect
  <2>6. CASE LogLine \/ Persist \/ UNCHANGED vars
    BY <2>2, <2>6 DEF LogLine, Persist, vars
  <2>7. CASE Crash
    BY <2>7 DEF Crash
  <2> QED
    BY <1>1, <2>2, <2>3, <2>4, <2>5, <2>6, <2>7
       DEF Next, DialogStep, FlowStep, SetupStep, Quiescent
<1>2. LifecycleInv /\ [Next]_vars
        => [\A e \in Flow : service = e =>
              service' = None \/ (service' = e /\ using'[e] = using[e])]_vars
  BY <1>1
<1> QED
  BY <1>2, LifecycleAlways, PTL DEF ServiceHandover, Spec
=============================================================================
