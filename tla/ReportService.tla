---------------------------- MODULE ReportService ----------------------------
(***************************************************************************)
(* ReportService.send_report (report_service.py) with the temporary        *)
(* directories of utils/file_handler.py, the upload of ipfs.py, and the    *)
(* setup and unload of the config entry (__init__.py) around it.           *)
(*                                                                         *)
(* A report is collected, staged (encrypted into a directory of its own),  *)
(* archived, pinned and handed to the datalog queue, under the send lock   *)
(* of its ReportService.  Each job runs in an executor thread, so jobs of  *)
(* different actors interleave: a reload of the entry makes a new          *)
(* ReportService, with a lock of its own, whose async_init deletes every   *)
(* temporary directory it finds, while reports of the old one go on.       *)
(*                                                                         *)
(* Atomicity.  A step is a stretch of the coroutine, or one operation of a *)
(* job on the file system or on Pinata.  rmtree is one step for the owner  *)
(* of a directory (whoever looks in between sees a directory that is going *)
(* to vanish), and goes file by file in the sweep, where it matters.       *)
(*                                                                         *)
(* A report finds the log files by their paths and reads them later, and   *)
(* LoggerHandler rotates them meanwhile: the files are numbered in the     *)
(* order they were made, to tell which one a path stands for.              *)
(***************************************************************************)
EXTENDS Naturals, Sequences, FiniteSets, SequencesExt

CONSTANTS
  Report,          \* calls of the send_problem_report service
  WithIssue,       \* those that carry an issue
  Saved,           \* {"traces"} if Home Assistant has saved traces, else {}
  NumInstances,    \* bound on the ReportService objects made, one per setup
  MaxStuck,        \* bound on the directories that cannot be deleted
  MaxCrashes,      \* bound on the ends of the Home Assistant process
  MaxLogFiles      \* bound on the log files ever made

ASSUME WithIssueAssumption == WithIssue \subseteq Report
ASSUME SavedAssumption == Saved \subseteq {"traces"}
ASSUME NumInstancesAssumption == NumInstances \in Nat \ {0}
ASSUME BoundsAssumption ==
  MaxStuck \in Nat /\ MaxCrashes \in Nat /\ MaxLogFiles \in Nat

Instance == 1 .. NumInstances

LogPath == {"log", "backup"}               \* LOGS_PATH, LOGS_BACKUP_PATH
LogFile == LogPath \cup {"traces"}
File == LogFile \cup {"issue"}

\* The temporary directories: mkdtemp makes their names unique.
Kind == {"logs", "archive", "issue"}
Dir == Report \X Kind

NoDir == <<>>

VARIABLES
  entry,       \* the config entry: "unloaded", "listing", "sweeping", "loaded"
  instance,    \* the ReportService made last
  crashes,
  present,     \* the log files that exist
  version,     \* which log file is at each path, or was there last
  listed,      \* history: which were there when a report listed them,
  copy,        \*   and which it read
  dirs,        \* the temporary directories that exist
  inside,      \* what each holds (encrypted files under their source's name)
  stuck,       \* history: directories that an rmtree failed to delete
  leaked,      \* history: directories left by an exception nobody handles
  sweep,       \* _clear_temp_dirs: directories still to delete,
  rmdir, todo, \*   the one being deleted, and the files listed in it
  disturbed,   \* history: reports whose directory a sweep began to delete
  pc, owner,   \* where each send_report is, and the instance it runs in
  lock,        \* self._send_lock of each instance: holder, then the waiting
  files,       \* the files of the report
  known,       \* temp_logs_dir, temp_archive_dir, temp_issue_dir if not None
  work,        \* the files its running job still has to go over
  content,     \* the members of the archive
  result,      \* how send_report ends
  pinned,      \* the reports whose archive is pinned
  unsure,      \* history: reports whose upload failed after Pinata had it
  sent         \* send_datalog calls to each instance's Robonomics

entryVars == <<entry, instance, crashes, sweep, rmdir, todo>>
logVars == <<present, version, listed, copy>>
diskVars == <<dirs, inside, stuck, leaked, disturbed>>
callVars == <<owner, lock>>
workVars == <<files, known, work, content>>
outVars == <<pinned, unsure, sent>>

vars == <<entryVars, logVars, diskVars, callVars, pc, workVars, result, outVars>>

Waiting == {"lock"}
Working == {"collect", "collectRest", "mkIssue", "writeIssue", "mkStage",
            "staging", "dropIssue", "mkArchive", "openZip", "zipping", "pin",
            "enqueue", "finally"}
Active == Waiting \cup Working

InProgress(r) == pc[r] \in Active
-----------------------------------------------------------------------------
Init ==
  /\ entry = "unloaded" /\ instance = 0 /\ crashes = 0
  /\ present = Saved
  /\ version = [f \in LogPath |-> 0]
  /\ listed = [r \in Report |-> [f \in LogPath |-> 0]]
  /\ copy = [r \in Report |-> [f \in LogPath |-> 0]]
  /\ dirs = {} /\ inside = [d \in Dir |-> {}]
  /\ stuck = {} /\ leaked = {} /\ disturbed = {}
  /\ sweep = {} /\ rmdir = NoDir /\ todo = {}
  /\ pc = [r \in Report |-> "idle"]
  /\ owner = [r \in Report |-> 0]
  /\ lock = [i \in Instance |-> <<>>]
  /\ files = [r \in Report |-> {}]
  /\ known = [r \in Report |-> {}]
  /\ work = [r \in Report |-> {}]
  /\ content = [r \in Report |-> {}]
  /\ result = [r \in Report |-> "none"]
  /\ pinned = {} /\ unsure = {}
  /\ sent = [i \in Instance |-> <<>>]

-----------------------------------------------------------------------------
(* The file system. *)

MakeDir(d) ==
  /\ dirs' = dirs \cup {d}
  /\ UNCHANGED <<inside, stuck, leaked, disturbed>>

Put(d, f) ==
  /\ inside' = [inside EXCEPT ![d] = @ \cup {f}]
  /\ UNCHANGED <<dirs, stuck, leaked, disturbed>>

\* Deleting d may fail, and fail again.
MayStick(d) == d \in dirs /\ (d \in stuck \/ Cardinality(stuck) < MaxStuck)

\* delete_temp_dir, or rmtree(ignore_errors=True): best effort.
Rmtree(d) ==
  /\ UNCHANGED <<leaked, disturbed>>
  /\ \/ /\ dirs' = dirs \ {d}
        /\ inside' = [inside EXCEPT ![d] = {}]
        /\ UNCHANGED stuck
     \/ /\ MayStick(d)
        /\ stuck' = stuck \cup {d}
        /\ UNCHANGED <<dirs, inside>>

\* LoggerHandler rotates its files in a thread of its own: the backup is
\* removed, the log takes its place (the place of another backup too, which a
\* second handler has moved there meanwhile), the next append makes a new log.
RotateLog ==
  /\ \/ "backup" \in present /\ present' = present \ {"backup"} /\ UNCHANGED version
     \/ /\ "log" \in present
        /\ present' = (present \ {"log"}) \cup {"backup"}
        /\ version' = [version EXCEPT !["backup"] = version["log"]]
     \/ /\ "log" \notin present /\ version["log"] < MaxLogFiles
        /\ present' = present \cup {"log"}
        /\ version' = [version EXCEPT !["log"] = @ + 1]
  /\ UNCHANGED <<entryVars, listed, copy, diskVars, callVars, pc, workVars,
                 result, outVars>>

\* async_remove_entry deletes the log files, and a call may still go on.
RemoveLogs ==
  /\ entry = "unloaded"
  /\ \E f \in LogPath \cap present : present' = present \ {f}
  /\ UNCHANGED <<entryVars, version, listed, copy, diskVars, callVars, pc,
                 workVars, result, outVars>>

-----------------------------------------------------------------------------
(* send_report.  `finally' runs whatever the outcome. *)

Goto(r, next) == pc' = [pc EXCEPT ![r] = next]

Raise(r, class, next) ==
  /\ Goto(r, next)
  /\ result' = [result EXCEPT ![r] = class]

\* _handle_send_report, then `async with self._send_lock'
Call(r) ==
  /\ entry = "loaded"
  /\ pc[r] = "idle"
  /\ Goto(r, "lock")
  /\ owner' = [owner EXCEPT ![r] = instance]
  /\ lock' = [lock EXCEPT ![instance] = Append(@, r)]
  /\ UNCHANGED <<entryVars, logVars, diskVars, workVars, result, outVars>>

NoLock(r) == TRUE                              \* faulty: the lock is missing

HoldsLock(r) == lock[owner[r]][1] = r

Acquire(r) ==
  /\ pc[r] = "lock"
  /\ HoldsLock(r)
  /\ Goto(r, "collect")
  /\ UNCHANGED <<entryVars, logVars, diskVars, callVars, workVars, result, outVars>>

\* _get_logs_files looks for the log,
ListLog(r) ==
  /\ pc[r] = "collect"
  /\ files' = [files EXCEPT ![r] = present \cap {"log"}]
  /\ listed' = [listed EXCEPT ![r]["log"] = version["log"]]
  /\ Goto(r, "collectRest")
  /\ UNCHANGED <<entryVars, present, version, copy, diskVars, callVars, known,
                 work, content, result, outVars>>

\* and then for the backup and the traces; a rotation may come in between.
\* `if not files' holds when no issue adds a file of its own.
CollectFiles(r) ==
  /\ pc[r] = "collectRest"
  /\ files' = [files EXCEPT ![r] = @ \cup (present \ {"log"})]
  /\ listed' = [listed EXCEPT ![r]["backup"] = version["backup"]]
  /\ IF r \in WithIssue
     THEN Goto(r, "mkIssue") /\ UNCHANGED result
     ELSE IF files'[r] = {} THEN Raise(r, "validation", "finally")
     ELSE Goto(r, "mkStage") /\ UNCHANGED result
  /\ UNCHANGED <<entryVars, present, version, copy, diskVars, callVars, known,
                 work, content, outVars>>

\* create_temp_dir_with_issue
MakeIssueDir(r) ==
  /\ pc[r] = "mkIssue"
  /\ MakeDir(<<r, "issue">>)
  /\ Goto(r, "writeIssue")
  /\ UNCHANGED <<entryVars, logVars, callVars, workVars, result, outVars>>

WriteIssue(r) ==
  /\ pc[r] = "writeIssue"
  /\ <<r, "issue">> \in dirs
  /\ Put(<<r, "issue">>, "issue")
  /\ files' = [files EXCEPT ![r] = @ \cup {"issue"}]
  /\ Goto(r, "mkStage")
  /\ UNCHANGED <<entryVars, logVars, callVars, known, work, content, result,
                 outVars>>

\* OSError (the directory may have been swept) or TypeError: IssueFileCreateError
WriteIssueFails(r) ==
  /\ pc[r] = "writeIssue"
  /\ Rmtree(<<r, "issue">>)
  /\ Raise(r, "validation", "finally")
  /\ UNCHANGED <<entryVars, logVars, callVars, workVars, outVars>>

\* Any other exception, such as UnicodeEncodeError for text that has no UTF-8
\* form, passes by with the path: nobody knows the directory any more.
WriteIssueEscapes(r) ==
  /\ pc[r] = "writeIssue"
  /\ <<r, "issue">> \in dirs
  /\ leaked' = leaked \cup {<<r, "issue">>}
  /\ Raise(r, "error", "finally")
  /\ UNCHANGED <<entryVars, logVars, dirs, inside, stuck, disturbed, callVars,
                 workVars, outVars>>

\* create_temp_dir_with_encrypted_files
MakeStagingDir(r) ==
  /\ pc[r] = "mkStage"
  /\ MakeDir(<<r, "logs">>)
  /\ work' = [work EXCEPT ![r] = files[r]]
  /\ Goto(r, "staging")
  /\ UNCHANGED <<entryVars, logVars, callVars, files, known, content, result,
                 outVars>>

\* Something is at the path now, whatever was there when it was listed.
Readable(r, f) == IF f = "issue" THEN f \in inside[<<r, "issue">>] ELSE f \in present

\* The files that come before each in the list `files'
Before == [log |-> {}, backup |-> {"log"}, traces |-> LogPath, issue |-> LogFile]

ReadBackwards(r, f) ==       \* faulty: the list is gone through from its end
  \A g \in work[r] : f \notin Before[g]

IsNext(r, f) == Before[f] \cap work[r] = {}

\* One file is opened by its path, read, encrypted and written.
StageFile(r) ==
  /\ pc[r] = "staging"
  /\ <<r, "logs">> \in dirs
  /\ \E f \in work[r] :
       /\ IsNext(r, f)
       /\ Readable(r, f)
       /\ Put(<<r, "logs">>, f)
       /\ work' = [work EXCEPT ![r] = @ \ {f}]
       /\ copy' = IF f \in LogPath THEN [copy EXCEPT ![r][f] = version[f]] ELSE copy
  /\ UNCHANGED <<entryVars, present, version, listed, callVars, pc, files, known,
                 content, result, outVars>>

\* send_report learns of the two directories only when both are complete.
StagingDone(r) ==
  /\ pc[r] = "staging"
  /\ work[r] = {}
  /\ known' = [known EXCEPT ![r] = {"logs"} \cup (files[r] \cap {"issue"})]
  /\ Goto(r, "mkArchive")
  /\ UNCHANGED <<entryVars, logVars, diskVars, callVars, files, work, content,
                 result, outVars>>

\* `except Exception' of _get_temp_dir_with_encrypted_payload
StagingCleanup(r) == IF r \in WithIssue THEN "dropIssue" ELSE "finally"

\* A file or the directory has vanished, or the encryption fails.
StagingFails(r) ==
  /\ pc[r] = "staging"
  /\ work[r] # {}
  /\ Rmtree(<<r, "logs">>)
  /\ work' = [work EXCEPT ![r] = {}]
  /\ Raise(r, "validation", StagingCleanup(r))
  /\ UNCHANGED <<entryVars, logVars, callVars, files, known, content, outVars>>

DropIssueDir(r) ==
  /\ pc[r] = "dropIssue"
  /\ Rmtree(<<r, "issue">>)
  /\ Goto(r, "finally")
  /\ UNCHANGED <<entryVars, logVars, callVars, workVars, result, outVars>>

\* mkdtemp itself raises, outside of the jobs' own handlers.
MakeDirFails(r) ==
  /\ pc[r] \in {"mkIssue", "mkStage", "mkArchive"}
  /\ Raise(r, "error", IF pc[r] = "mkStage" THEN StagingCleanup(r) ELSE "finally")
  /\ UNCHANGED <<entryVars, logVars, diskVars, callVars, workVars, outVars>>

\* create_temp_archive
MakeArchiveDir(r) ==
  /\ pc[r] = "mkArchive"
  /\ MakeDir(<<r, "archive">>)
  /\ Goto(r, "openZip")
  /\ UNCHANGED <<entryVars, logVars, callVars, workVars, result, outVars>>

\* ZipFile(...) and os.scandir(dir_to_archive)
OpenZip(r) ==
  /\ pc[r] = "openZip"
  /\ {<<r, "archive">>, <<r, "logs">>} \subseteq dirs
  /\ Put(<<r, "archive">>, "zip")
  /\ work' = [work EXCEPT ![r] = inside[<<r, "logs">>]]
  /\ Goto(r, "zipping")
  /\ UNCHANGED <<entryVars, logVars, callVars, files, known, content, result,
                 outVars>>

ZipFile(r) ==
  /\ pc[r] = "zipping"
  /\ \E f \in work[r] \cap inside[<<r, "logs">>] :
       /\ content' = [content EXCEPT ![r] = @ \cup {f}]
       /\ work' = [work EXCEPT ![r] = @ \ {f}]
  /\ UNCHANGED <<entryVars, logVars, diskVars, callVars, pc, files, known,
                 result, outVars>>

ZipDone(r) ==
  /\ pc[r] = "zipping"
  /\ work[r] = {}
  /\ known' = [known EXCEPT ![r] = @ \cup {"archive"}]
  /\ Goto(r, "pin")
  /\ UNCHANGED <<entryVars, logVars, diskVars, callVars, files, work, content,
                 result, outVars>>

\* TempArchiveCreateError: a directory or a listed file has vanished, or the
\* archive cannot be written.
ZipFails(r) ==
  /\ pc[r] \in {"openZip", "zipping"}
  /\ Rmtree(<<r, "archive">>)
  /\ work' = [work EXCEPT ![r] = {}]
  /\ content' = [content EXCEPT ![r] = {}]
  /\ Raise(r, "error", "finally")
  /\ UNCHANGED <<entryVars, logVars, callVars, files, known, outVars>>

PinnedThenDropped(r) ==         \* faulty: handed on only without an issue
  IF r \in WithIssue THEN "finally" ELSE "enqueue"

PinReturned(r) == "enqueue"

\* IPFS.pin_file_to_pinata returns a hash
Pin(r) ==
  /\ pc[r] = "pin"
  /\ "zip" \in inside[<<r, "archive">>]
  /\ pinned' = pinned \cup {r}
  /\ Goto(r, PinReturned(r))
  /\ UNCHANGED <<entryVars, logVars, diskVars, callVars, workVars, result,
                 unsure, sent>>

PinErrorSwallowed(r) == "enqueue"      \* faulty: the error is only logged

PinRaised(r) == "finally"

\* IPFSError or PinataKeysRevokedError: no credentials, no file, a refused
\* call, or a call that raised after Pinata had taken the file.
PinFails(r) ==
  /\ pc[r] = "pin"
  /\ \/ UNCHANGED <<pinned, unsure>>
     \/ /\ "zip" \in inside[<<r, "archive">>]
        /\ pinned' = pinned \cup {r} /\ unsure' = unsure \cup {r}
  /\ Raise(r, "error", PinRaised(r))
  /\ UNCHANGED <<entryVars, logVars, diskVars, callVars, workVars, sent>>

\* self.robonomics.send_datalog(data_to_send)
Enqueue(r) ==
  /\ pc[r] = "enqueue"
  /\ sent' = [sent EXCEPT ![owner[r]] = Append(@, r)]
  /\ Raise(r, "ok", "finally")
  /\ UNCHANGED <<entryVars, logVars, diskVars, callVars, workVars, pinned, unsure>>

ForgetArchive(r) == known[r] \ {"archive"}     \* faulty: two calls of three

ToDelete(r) == known[r]

\* `finally': logs, archive, issue; each delete_temp_dir is a job of its own.
DeleteDir(r) ==
  /\ pc[r] = "finally"
  /\ LET first == CASE "logs" \in ToDelete(r) -> "logs"
                    [] ToDelete(r) \cap {"logs", "archive"} = {"archive"} -> "archive"
                    [] OTHER -> "issue"
     IN /\ first \in ToDelete(r)
        /\ Rmtree(<<r, first>>)
        /\ known' = [known EXCEPT ![r] = @ \ {first}]
  /\ UNCHANGED <<entryVars, logVars, callVars, pc, files, work, content, result,
                 outVars>>

Release(l) == Tail(l)

Finish(r) ==
  /\ pc[r] = "finally"
  /\ ToDelete(r) = {}
  /\ Goto(r, "done")
  /\ lock' = [lock EXCEPT ![owner[r]] = Release(@)]
  /\ UNCHANGED <<entryVars, logVars, diskVars, owner, workVars, result,
                 outVars>>

-----------------------------------------------------------------------------
(* The config entry. *)

\* async_unload_entry: the service goes, reports under way do not.
Unload ==
  /\ entry = "loaded"
  /\ entry' = "unloaded"
  /\ UNCHANGED <<instance, crashes, sweep, rmdir, todo, logVars, diskVars,
                 callVars, pc, workVars, result, outVars>>

\* async_setup_entry up to async_init; setups that fail before leave no trace
Setup ==
  /\ entry = "unloaded" /\ instance < NumInstances
  /\ instance' = instance + 1
  /\ entry' = "listing"
  /\ UNCHANGED <<crashes, sweep, rmdir, todo, logVars, diskVars, callVars, pc,
                 workVars, result, outVars>>

\* get_temp_dirs; an OSError is an empty list
ListTempDirs ==
  /\ entry = "listing"
  /\ entry' = "sweeping"
  /\ \/ sweep' = dirs /\ UNCHANGED stuck
     \/ /\ dirs # {} /\ Cardinality(stuck) < MaxStuck
        /\ sweep' = {} /\ stuck' = stuck \cup dirs
  /\ UNCHANGED <<instance, crashes, rmdir, todo, logVars, dirs, inside, leaked,
                 disturbed, callVars, pc, workVars, result, outVars>>

\* delete_temp_dir: rmtree lists the directory,
SweepOpens ==
  /\ rmdir = NoDir
  /\ \E d \in sweep :
       /\ rmdir' = d
       /\ todo' = inside[d]
       /\ sweep' = sweep \ {d}
       /\ disturbed' = IF InProgress(d[1]) THEN disturbed \cup {d[1]} ELSE disturbed
  /\ UNCHANGED <<entry, instance, crashes, logVars, dirs, inside, stuck, leaked,
                 callVars, pc, workVars, result, outVars>>

\* unlinks what it listed,
SweepUnlinks ==
  /\ rmdir # NoDir
  /\ \E f \in todo : /\ todo' = todo \ {f}
                     /\ inside' = [inside EXCEPT ![rmdir] = @ \ {f}]
  /\ UNCHANGED <<entry, instance, crashes, sweep, rmdir, logVars, dirs, stuck,
                 leaked, disturbed, callVars, pc, workVars, result, outVars>>

TryAgain == sweep \cup {rmdir}           \* faulty: until the deletion works

NextInSweep == sweep

\* and removes the directory, which fails when a file was added meanwhile; the
\* failure is ignored, as any other.
SweepRemoves ==
  /\ rmdir # NoDir
  /\ \/ /\ todo = {}
        /\ dirs' = IF inside[rmdir] = {} THEN dirs \ {rmdir} ELSE dirs
        /\ UNCHANGED <<sweep, stuck>>
     \/ /\ MayStick(rmdir)
        /\ stuck' = stuck \cup {rmdir}
        /\ sweep' = NextInSweep
        /\ UNCHANGED dirs
  /\ rmdir' = NoDir /\ todo' = {}
  /\ UNCHANGED <<entry, instance, crashes, logVars, inside, leaked,
                 disturbed, callVars, pc, workVars, result, outVars>>

SweepOver == sweep = {} /\ rmdir = NoDir

\* The service is registered and the watchers are set up.
Loaded ==
  /\ entry = "sweeping"
  /\ SweepOver
  /\ entry' = "loaded"
  /\ UNCHANGED <<instance, crashes, sweep, rmdir, todo, logVars, diskVars,
                 callVars, pc, workVars, result, outVars>>

\* The process ends; the file system and Pinata stay.
Crash ==
  /\ crashes < MaxCrashes
  /\ crashes' = crashes + 1
  /\ entry' = "unloaded"
  /\ sweep' = {} /\ rmdir' = NoDir /\ todo' = {}
  /\ pc' = [r \in Report |-> IF InProgress(r) THEN "dead" ELSE pc[r]]
  /\ lock' = [i \in Instance |-> <<>>]
  /\ known' = [r \in Report |-> {}] /\ work' = [r \in Report |-> {}]
  /\ UNCHANGED <<instance, logVars, diskVars, owner, files, content,
                 result, outVars>>

-----------------------------------------------------------------------------
ReportStep(r) ==
  \/ Acquire(r) \/ ListLog(r) \/ CollectFiles(r)
  \/ MakeIssueDir(r) \/ WriteIssue(r) \/ WriteIssueFails(r) \/ WriteIssueEscapes(r)
  \/ MakeStagingDir(r) \/ StageFile(r) \/ StagingDone(r) \/ StagingFails(r)
  \/ DropIssueDir(r) \/ MakeDirFails(r)
  \/ MakeArchiveDir(r) \/ OpenZip(r) \/ ZipFile(r) \/ ZipDone(r) \/ ZipFails(r)
  \/ Pin(r) \/ PinFails(r) \/ Enqueue(r) \/ DeleteDir(r) \/ Finish(r)

SetupStep ==
  ListTempDirs \/ SweepOpens \/ SweepUnlinks \/ SweepRemoves \/ Loaded

\* All calls have come to their end and no setup is under way.
Quiescent ==
  /\ entry \in {"loaded", "unloaded"}
  /\ \A r \in Report : pc[r] \in {"done", "dead"} \/ (entry = "unloaded" /\ pc[r] = "idle")
  /\ UNCHANGED vars

Next ==
  \/ RotateLog \/ RemoveLogs
  \/ \E r \in Report : Call(r) \/ ReportStep(r)
  \/ Unload \/ Setup \/ SetupStep \/ Crash
  \/ Quiescent

Spec == Init /\ [][Next]_vars

\* Jobs of the executor and steps of coroutines end; calls, reloads, crashes
\* and log rotation need not happen.
Fairness == WF_vars(SetupStep) /\ \A r \in Report : WF_vars(ReportStep(r))

FairSpec == Spec /\ Fairness
-----------------------------------------------------------------------------
(* Properties. *)

Delivered == UNION {ToSet(sent[i]) : i \in Instance}

LogsTypeOK ==
  /\ present \subseteq LogFile
  /\ version \in [LogPath -> 0 .. MaxLogFiles]
  /\ listed \in [Report -> [LogPath -> 0 .. MaxLogFiles]]
  /\ copy \in [Report -> [LogPath -> 0 .. MaxLogFiles]]

TypeOK ==
  /\ entry \in {"unloaded", "listing", "sweeping", "loaded"}
  /\ instance \in 0 .. NumInstances
  /\ crashes \in 0 .. MaxCrashes
  /\ LogsTypeOK
  /\ dirs \subseteq Dir
  /\ inside \in [Dir -> SUBSET (File \cup {"zip"})]
  /\ stuck \subseteq Dir /\ leaked \subseteq Dir
  /\ sweep \subseteq Dir /\ rmdir \in Dir \cup {NoDir}
  /\ todo \subseteq File \cup {"zip"}
  /\ disturbed \subseteq Report
  /\ pc \in [Report -> Active \cup {"idle", "done", "dead"}]
  /\ owner \in [Report -> 0 .. NumInstances]
  /\ lock \in [Instance -> Seq(Report)]
  /\ files \in [Report -> SUBSET File]
  /\ known \in [Report -> SUBSET Kind]
  /\ work \in [Report -> SUBSET File]
  /\ content \in [Report -> SUBSET File]
  /\ result \in [Report -> {"none", "ok", "validation", "error"}]
  /\ pinned \subseteq Report /\ unsure \subseteq Report
  /\ sent \in [Instance -> Seq(Report)]

\* Every temporary directory is accounted for: its report is still under way,
\* or died with the process and the next setup has not swept yet.  The two
\* exceptions are directories that could not be deleted and the one path by
\* which an exception takes the directory's name with it.
NoOrphanDirs ==
  \A d \in dirs \ (stuck \cup leaked) :
    InProgress(d[1]) \/ (pc[d[1]] = "dead" /\ entry # "loaded")

\* What the caller is told is what happened: a report ends without an error
\* exactly when its hash was handed to the datalog queue, once, with its
\* archive pinned.
OutcomeIsTruthful ==
  \A r \in Report : pc[r] = "done" =>
    /\ result[r] # "none"
    /\ result[r] = "ok" <=>
         /\ Cardinality({n \in 1 .. Len(sent[owner[r]]) : sent[owner[r]][n] = r}) = 1
         /\ r \in pinned

OnDisk(v) == \E f \in LogPath \cap present : version[f] = v

\* What became of the file that r found at the path f: its content is in the
\* archive, under this name or the other one; or it has been deleted; or it was
\* the log, has become the backup, and r found no backup to read.
AccountedFor(r, f) ==
  LET v == listed[r][f]
  IN  \/ \E g \in LogPath \cap content[r] : copy[r][g] = v
      \/ ~OnDisk(v)
      \/ f = "log" /\ "backup" \notin files[r] /\ version["backup"] = v

\* A report that goes out holds a file for every name it was begun with, and of
\* the log files it found it misses only what rotation has deleted since, or
\* has moved to a name that was not there: the order of reading follows the
\* order of moving.  The exception is a report that the sweep of a later set-up,
\* that is a reload of the entry under it, came across.
WholeReport ==
  \A r \in Delivered :
    \/ r \in disturbed /\ owner[r] < instance
    \/ /\ content[r] = files[r]
       /\ \A f \in LogPath \cap files[r] : AccountedFor(r, f)

\* Nothing stays pinned that no datalog will name, except after an upload
\* whose answer was lost, or when the process ended right after it.
PinsAccounted ==
  \A r \in pinned \ (Delivered \cup unsure) : pc[r] \in {"enqueue", "dead"}

\* "The resulting encrypted files are placed in an archive" (README): all the
\* files of a report that is sent.
ArchiveComplete == \A r \in Delivered : content[r] = files[r]

\* A setup comes to its end, whatever the reports of the old instance do to
\* the directories it deletes.
SetupEnds == entry = "listing" ~> entry \in {"loaded", "unloaded"}
-----------------------------------------------------------------------------
(* Refinement: the jobs, directories and error paths of send_report make up *)
(* one service that takes its calls in turn.                                *)

OutcomeOf(r) ==
  CASE pc[r] = "idle" -> "uncalled"
    [] pc[r] = "dead" -> "lost"
    [] pc[r] = "done" -> IF result[r] = "ok" THEN "ok" ELSE "failed"
    [] OTHER -> "open"

Intake == INSTANCE ReportIntake WITH
  line <- lock,
  handed <- sent,
  outcome <- [r \in Report |-> OutcomeOf(r)]

\* Whatever fails or is swept, calls are served one at a time in their order,
\* handed over at most once and only when pinned, answered truthfully, and
\* none is kept for ever.
ImplementsIntake == Intake!FairSpec
=============================================================================
