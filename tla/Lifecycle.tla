------------------------------ MODULE Lifecycle ------------------------------
(***************************************************************************)
(* The life of the integration: the configuration flow (config_flow.py),   *)
(* the store of credentials (utils/ha_storage.py), and set-up, unload and  *)
(* removal of the config entry (__init__.py) with the watchers manager.    *)
(*                                                                         *)
(* A step runs from one await to the next.  Home Assistant is external: it *)
(* serves forms, keeps the entries (and writes them to disk some time      *)
(* later), runs set-up, unload and removal of an entry one after another,  *)
(* and takes an entry off its list before async_remove_entry.              *)
(*                                                                         *)
(* An entry is named by the flow that creates it.  Credentials are what    *)
(* the user typed into the first form, and a seed: the user's own, or the  *)
(* one generated in a flow (named by the flow).                            *)
(***************************************************************************)
EXTENDS Naturals, FiniteSets

CONSTANTS
  Flow,          \* runs of the configuration dialog
  Form,          \* what can be typed into its first form
  None,
  MaxCrashes     \* bound on the ends of the Home Assistant process

ASSUME NoneAssumption == None \notin Flow
ASSUME CrashesAssumption == MaxCrashes \in Nat

VARIABLES
  flow,          \* where each dialog is
  data,          \* _storage_data of each
  store,         \* the credentials on disk, or None
  entries,       \* the entries Home Assistant knows
  saved,         \* those it has on disk
  state,         \* of each entry
  using,         \* the credentials each was set up with
  service,       \* the entry whose handler serves send_problem_report, or None
  watchers,      \* the number of started managers of each entry
  logs,          \* whether log files exist
  removal,       \* async_remove_entry of each entry
  crashes,
  holder,        \* history: the flow whose save ended last, or None
  raced,         \* history: flows that got past the checks during a removal
  kept,          \* history: what the removals could not remove
  torn           \* history: flows and entries a crash caught half-way

flowVars == <<flow, data, raced>>
storeVars == <<store, holder>>
entryVars == <<entries, saved, state, using, service, watchers>>
removalVars == <<logs, removal, kept>>
vars == <<flowVars, storeVars, entryVars, removalVars, crashes, torn>>

Creds == [form : Form, seed : Flow \cup {"own"}]

Dialog == {"user", "seed", "reading", "writing", "saved"}    \* in progress
Removing(e) == removal[e] \in {"store", "logs"}

-----------------------------------------------------------------------------
Init ==
  /\ flow = [f \in Flow |-> "new"]
  /\ data = [f \in Flow |-> None]
  /\ store = None /\ holder = None
  /\ entries = {} /\ saved = {}
  /\ state = [e \in Flow |-> "none"]
  /\ using = [e \in Flow |-> None]
  /\ service = None
  /\ watchers = [e \in Flow |-> 0]
  /\ logs = FALSE
  /\ removal = [e \in Flow |-> "no"]
  /\ crashes = 0
  /\ raced = {} /\ kept = {} /\ torn = {}

-----------------------------------------------------------------------------
(* The configuration flow. *)

Goto(f, next) == flow' = [flow EXCEPT ![f] = next]

OnlyConfigured(f) == entries = {}      \* faulty: other dialogs are not asked

\* async_set_unique_id and _abort_if_unique_id_configured
MayGoOn(f) == entries = {} /\ \A g \in Flow \ {f} : flow[g] \notin Dialog

OpenDialog(f) ==
  /\ flow[f] = "new"
  /\ Goto(f, IF MayGoOn(f) THEN "user" ELSE "aborted")
  /\ UNCHANGED <<data, raced, storeVars, entryVars, removalVars, crashes, torn>>

\* async_step_user again, and the first pass of async_step_seed, which shows
\* the second form.
SubmitUser(f) ==
  /\ flow[f] = "user"
  /\ \/ /\ MayGoOn(f)
        /\ Goto(f, "seed")
        /\ \E form \in Form :
             data' = [data EXCEPT ![f] = [form |-> form, seed |-> "own"]]
        /\ raced' = IF \E e \in Flow : Removing(e) THEN raced \cup {f} ELSE raced
     \/ ~MayGoOn(f) /\ Goto(f, "aborted") /\ UNCHANGED <<data, raced>>
  /\ UNCHANGED <<storeVars, entryVars, removalVars, crashes, torn>>

\* async_step_seed.  A seed that could not be generated before is generated
\* now; when that fails again, or the seed is invalid, the form is shown again
\* and nothing has changed.
SubmitSeed(f) ==
  /\ flow[f] = "seed"
  /\ \E seed \in {"own", f} : data' = [data EXCEPT ![f].seed = seed]
  /\ Goto(f, "reading")
  /\ UNCHANGED <<raced, storeVars, entryVars, removalVars, crashes, torn>>

NotAwaited(f) == "saved"                   \* faulty: saved in the background

SaveNext(f) == IF store = data[f] THEN "saved" ELSE "writing"

\* async_save_to_store: load and compare,
ReadStore(f) ==
  /\ flow[f] = "reading"
  /\ Goto(f, SaveNext(f))
  /\ holder' = IF store = data[f] THEN f ELSE holder
  /\ UNCHANGED <<data, raced, store, entryVars, removalVars, crashes, torn>>

\* then write (a write that fails raises: Home Assistant's Store is taken to
\* lose nothing silently, as the code takes it);
WriteStore(f) ==
  /\ flow[f] = "writing"
  /\ Goto(f, "saved")
  /\ store' = data[f] /\ holder' = f
  /\ UNCHANGED <<data, raced, entryVars, removalVars, crashes, torn>>

\* either may raise StorageError: the form again, with storage_save_failed.
SaveFails(f) ==
  /\ flow[f] \in {"reading", "writing"}
  /\ Goto(f, "seed")
  /\ UNCHANGED <<data, raced, storeVars, entryVars, removalVars, crashes, torn>>

\* async_create_entry: Home Assistant adds the entry and sets it up.
CreateEntry(f) ==
  /\ flow[f] = "saved"
  /\ Goto(f, "done")
  /\ entries' = entries \cup {f}
  /\ state' = [state EXCEPT ![f] = "loading"]
  /\ UNCHANGED <<data, raced, storeVars, saved, using, service, watchers,
                 removalVars, crashes, torn>>

\* The user closes the dialog while a form is shown.  That Home Assistant does
\* not end a flow during the awaited save, after which the credentials would be
\* stored without an entry as after a crash there, is taken for granted.
CloseDialog(f) ==
  /\ flow[f] \in {"user", "seed"}
  /\ Goto(f, "aborted")
  /\ UNCHANGED <<data, raced, storeVars, entryVars, removalVars, crashes, torn>>

-----------------------------------------------------------------------------
(* Set-up and unload of the entry. *)

\* At the start of Home Assistant, or when the user reloads or enables it.
SetupAgain(e) ==
  /\ e \in entries
  /\ state[e] \in {"none", "failed"}
  /\ state' = [state EXCEPT ![e] = "loading"]
  /\ UNCHANGED <<flowVars, storeVars, entries, saved, using, service, watchers,
                 removalVars, crashes, torn>>

\* async_load_from_store, and the objects that are made of the credentials
LoadCreds(e) ==
  /\ state[e] = "loading"
  /\ store # None
  /\ state' = [state EXCEPT ![e] = "sweeping"]
  /\ using' = [using EXCEPT ![e] = store]
  /\ UNCHANGED <<flowVars, storeVars, entries, saved, service, watchers,
                 removalVars, crashes, torn>>

KeepsTrying(e) == "loading"                       \* faulty: no way out

\* `return False'
NotSetUp(e) == "failed"

\* StorageError, KeyError when the store is empty, or an unexpected exception
SetupFails(e) ==
  /\ state[e] \in {"loading", "sweeping"}
  /\ state' = [state EXCEPT ![e] = NotSetUp(e)]
  /\ UNCHANGED <<flowVars, storeVars, entries, saved, using, service, watchers,
                 removalVars, crashes, torn>>

\* ReportService.async_init is over: the service and the watchers start.
FinishSetup(e) ==
  /\ state[e] = "sweeping"
  /\ state' = [state EXCEPT ![e] = "loaded"]
  /\ service' = e
  /\ watchers' = [watchers EXCEPT ![e] = @ + 1]
  /\ UNCHANGED <<flowVars, storeVars, entries, saved, using, removalVars, crashes,
                 torn>>

WatchersGoOn(e) == watchers[e]                 \* faulty: the manager is forgotten

\* remove_watchers
WatchersLeft(e) == 0

\* async_unload_entry has no await.
UnloadEffect(e) ==
  /\ state' = [state EXCEPT ![e] = "none"]
  /\ service' = IF state[e] = "loaded" THEN None ELSE service
  /\ watchers' = [watchers EXCEPT ![e] =
                    IF state[e] = "loaded" THEN WatchersLeft(e) ELSE @]

Unload(e) ==
  /\ state[e] = "loaded"
  /\ UnloadEffect(e)
  /\ UNCHANGED <<flowVars, storeVars, entries, saved, using, removalVars, crashes,
                 torn>>

\* A running LoggerHandler writes a raw line (see LogRotation).
LogLine ==
  /\ ~logs /\ \E e \in Flow : watchers[e] > 0
  /\ logs' = TRUE
  /\ UNCHANGED <<flowVars, storeVars, entryVars, removal, kept, crashes, torn>>

-----------------------------------------------------------------------------
(* Removal of the entry, and the process. *)

RemoveEntry(e) ==
  /\ e \in entries
  /\ state[e] \in {"none", "loaded", "failed"}
  /\ UnloadEffect(e)
  /\ entries' = entries \ {e}
  /\ removal' = [removal EXCEPT ![e] = "store"]
  /\ UNCHANGED <<flowVars, storeVars, saved, using, logs, kept, crashes, torn>>

CredsForgotten == store                        \* faulty: nothing is removed

StoreLeft == None

\* async_remove_entry: async_remove_store,
RemoveStore(e) ==
  /\ removal[e] = "store"
  /\ removal' = [removal EXCEPT ![e] = "logs"]
  /\ store' = StoreLeft
  /\ UNCHANGED <<flowVars, holder, entryVars, logs, kept, crashes, torn>>

\* which may raise, and then nothing else is done;
RemoveStoreFails(e) ==
  /\ removal[e] = "store"
  /\ removal' = [removal EXCEPT ![e] = "over"]
  /\ kept' = kept \cup {"store", "logs"}
  /\ UNCHANGED <<flowVars, storeVars, entryVars, logs, crashes, torn>>

\* remove_logs_files and remove_logs_dir_if_empty; errors are only logged.
RemoveLogs(e) ==
  /\ removal[e] = "logs"
  /\ removal' = [removal EXCEPT ![e] = "over"]
  /\ \/ logs' = FALSE /\ UNCHANGED kept
     \/ kept' = kept \cup {"logs"} /\ UNCHANGED logs
  /\ UNCHANGED <<flowVars, storeVars, entryVars, crashes, torn>>

\* Home Assistant writes its list of entries, some time after a change.
Persist ==
  /\ saved # entries
  /\ saved' = entries
  /\ UNCHANGED <<flowVars, storeVars, entries, state, using, service, watchers,
                 removalVars, crashes, torn>>

\* The process ends and starts again with the entries it finds on disk.
Crash ==
  /\ crashes < MaxCrashes
  /\ crashes' = crashes + 1
  /\ torn' = torn \cup {f \in Flow : \/ flow[f] \in {"reading", "writing", "saved"}
                                     \/ (f \in entries) # (f \in saved)
                                     \/ Removing(f)}
  /\ flow' = [f \in Flow |-> IF flow[f] \in Dialog THEN "aborted" ELSE flow[f]]
  /\ entries' = saved
  /\ state' = [e \in Flow |-> "none"]
  /\ service' = None
  /\ watchers' = [e \in Flow |-> 0]
  /\ removal' = [e \in Flow |-> IF e \in saved THEN "no"
                                ELSE IF Removing(e) THEN "over" ELSE removal[e]]
  /\ UNCHANGED <<data, raced, storeVars, saved, using, logs, kept>>

-----------------------------------------------------------------------------
FlowStep(f) == ReadStore(f) \/ WriteStore(f) \/ SaveFails(f) \/ CreateEntry(f)
SetupStep(e) == LoadCreds(e) \/ SetupFails(e) \/ FinishSetup(e)
RemovalStep(e) == RemoveStore(e) \/ RemoveStoreFails(e) \/ RemoveLogs(e)

\* Nobody is configuring, setting up or removing anything.
Quiescent ==
  /\ \A f \in Flow : /\ flow[f] \in {"done", "aborted"}
                     /\ state[f] \in {"none", "loaded", "failed"}
                     /\ ~Removing(f)
  /\ UNCHANGED vars

Next ==
  \/ \E f \in Flow :
       \/ OpenDialog(f) \/ SubmitUser(f) \/ SubmitSeed(f)
       \/ CloseDialog(f) \/ FlowStep(f)
       \/ SetupAgain(f) \/ SetupStep(f) \/ Unload(f)
       \/ RemoveEntry(f) \/ RemovalStep(f)
  \/ LogLine \/ Persist \/ Crash
  \/ Quiescent

Spec == Init /\ [][Next]_vars

\* Coroutines and their jobs end; what users, timers and crashes do is not
\* forced.
Fairness == \A f \in Flow : /\ WF_vars(FlowStep(f))
                            /\ WF_vars(SetupStep(f))
                            /\ WF_vars(RemovalStep(f))

FairSpec == Spec /\ Fairness
-----------------------------------------------------------------------------
(* Properties. *)

TypeOK ==
  /\ flow \in [Flow -> Dialog \cup {"new", "done", "aborted"}]
  /\ data \in [Flow -> Creds \cup {None}]
  /\ store \in Creds \cup {None} /\ holder \in Flow \cup {None}
  /\ entries \subseteq Flow /\ saved \subseteq Flow
  /\ state \in [Flow -> {"none", "loading", "sweeping", "loaded", "failed"}]
  /\ using \in [Flow -> Creds \cup {None}]
  /\ service \in Flow \cup {None}
  /\ watchers \in [Flow -> 0 .. 1]
  /\ logs \in BOOLEAN
  /\ removal \in [Flow -> {"no", "store", "logs", "over"}]
  /\ crashes \in 0 .. MaxCrashes
  /\ raced \subseteq Flow /\ kept \subseteq {"store", "logs"} /\ torn \subseteq Flow

\* "It is needed exactly one integration instance" (config_flow.py:78): the
\* store, the service and the log files exist once, so entries and dialogs on
\* their way to one are never two.
OneInstance ==
  Cardinality(entries \cup {f \in Flow : flow[f] \in Dialog \ {"user"}}) <= 1

\* An entry finds in the store the credentials of the dialog that made it, at
\* its first set-up and at each one after, unless its dialog overlapped the
\* removal of an earlier entry or a crash restored what was being removed.
EntryHasItsCreds ==
  \A e \in entries \ (raced \cup torn) : store = data[e]

\* The service and the watchers belong to the loaded entry, which runs with its
\* own credentials; nothing runs for an entry that is gone, failed or unloaded.
RunsForItsEntry ==
  /\ \A e \in Flow : watchers[e] = IF state[e] = "loaded" THEN 1 ELSE 0
  /\ \A e \in Flow : service = e <=> state[e] = "loaded"
  /\ \A e \in Flow : state[e] = "loaded" => e \in entries
  /\ \A e \in Flow \ torn : state[e] = "loaded" => using[e] = data[e]

\* Without an entry nothing stays on disk: seed and Pinata keys only for a
\* dialog that is about to make an entry, both only while a removal is under
\* way or after one that failed, or that a crash cut short, or a crash between
\* the save and the moment the entry is on disk.
NothingLeftOver ==
  entries = {} =>
    /\ store # None => \/ \E f \in Flow : flow[f] = "saved" \/ Removing(f)
                       \/ "store" \in kept \/ holder \in torn
    /\ logs => \/ \E e \in Flow : Removing(e)
               \/ "logs" \in kept \/ torn # {}

\* Every set-up comes to its end, with True or with False, and so does every
\* removal.
JobsEnd ==
  \A e \in Flow : /\ state[e] = "loading" ~> state[e] \in {"none", "loaded", "failed"}
                  /\ Removing(e) ~> ~Removing(e)
=============================================================================
