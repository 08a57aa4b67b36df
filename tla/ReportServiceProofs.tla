------------------------- MODULE ReportServiceProofs -------------------------
(***************************************************************************)
(* Proofs about ReportService for any number of reports, reloads, crashes  *)
(* and directories that cannot be deleted.                                 *)
(*                                                                         *)
(* Typed and LockHeld come first: the send lock of an instance is held by  *)
(* the report that works, so releases find it.  On them rest four          *)
(* arguments that do not need each other: what is handed on and what the   *)
(* caller is told (Handed), which directories may exist where a report is  *)
(* (Accounted), what a report that no sweep came across holds (Whole; that *)
(* only a later instance sweeps it is Elders), and which log files it has  *)
(* read while they were rotated (Versions).  With Handed, the steps are    *)
(* those of ReportIntake.                                                  *)
(***************************************************************************)
EXTENDS ReportService, SequenceTheorems, FiniteSetTheorems, TLAPS

\* A report under way is in the line of its instance, first if it works.
LockHeld ==
  \A r \in Report : InProgress(r) =>
    /\ owner[r] \in Instance
    /\ \E k \in 1 .. Len(lock[owner[r]]) : lock[owner[r]][k] = r
    /\ pc[r] \in Working => lock[owner[r]][1] = r

\* Only encrypted files are put into a staging directory.
LogsHoldFiles == \A r \in Report : inside[<<r, "logs">>] \subseteq File

\* A set-up has made an instance; once it is over nothing is swept.
SetupHeld ==
  /\ entry # "unloaded" => instance \in Instance
  /\ entry # "sweeping" => sweep = {} /\ rmdir = NoDir

Typed == TypeOK /\ LockHeld /\ LogsHoldFiles /\ SetupHeld

LEMMA TypedInit == Init => Typed
<1> SUFFICES ASSUME Init PROVE Typed
  OBVIOUS
<1> USE DEF Init
<1>1. instance \in 0 .. NumInstances /\ crashes \in 0 .. MaxCrashes /\ 0 \in 0 .. NumInstances
  BY NumInstancesAssumption, BoundsAssumption
<1>2. /\ present \subseteq LogFile /\ version \in [LogPath -> 0 .. MaxLogFiles]
      /\ listed \in [Report -> [LogPath -> 0 .. MaxLogFiles]]
      /\ copy \in [Report -> [LogPath -> 0 .. MaxLogFiles]]
  <2>1. 0 \in 0 .. MaxLogFiles
    BY BoundsAssumption
  <2> QED
    BY <2>1, SavedAssumption DEF LogFile
<1>3. inside \in [Dir -> SUBSET (File \cup {"zip"})]
  OBVIOUS
<1>4. pc \in [Report -> Active \cup {"idle", "done", "dead"}]
  OBVIOUS
<1>5. lock \in [Instance -> Seq(Report)] /\ sent \in [Instance -> Seq(Report)]
  OBVIOUS
<1>6. result \in [Report -> {"none", "ok", "validation", "error"}]
  OBVIOUS
<1>7. TypeOK
  BY <1>1, <1>2, <1>3, <1>4, <1>5, <1>6 DEF TypeOK, LogsTypeOK
<1>8. LockHeld
  BY DEF LockHeld, InProgress, Active, Waiting, Working
<1>9. LogsHoldFiles
  BY DEF LogsHoldFiles, Dir, Kind
<1>10. SetupHeld
  BY DEF SetupHeld
<1> QED
  BY <1>7, <1>8, <1>9, <1>10 DEF Typed

\* A report that works finds itself at the head of its instance's line.
LEMMA WorkerHolds ==
  ASSUME Typed, NEW r \in Report, pc[r] \in Working
  PROVE  /\ owner[r] \in Instance /\ lock[owner[r]] \in Seq(Report)
         /\ lock[owner[r]] # <<>> /\ Head(lock[owner[r]]) = r
         /\ lock[owner[r]][1] = r /\ Len(lock[owner[r]]) >= 1
<1>1. owner[r] \in Instance /\ lock[owner[r]][1] = r
      /\ \E k \in 1 .. Len(lock[owner[r]]) : lock[owner[r]][k] = r
  BY DEF Typed, LockHeld, InProgress, Active
<1>2. lock[owner[r]] \in Seq(Report)
  BY <1>1 DEF Typed, TypeOK
<1> QED
  BY <1>1, <1>2, HeadTailProperties
-----------------------------------------------------------------------------
(* Typing. *)

LEMMA RmtreeTyped ==
  ASSUME TypeOK, NEW d \in Dir, Rmtree(d)
  PROVE  /\ dirs' \subseteq Dir /\ inside' \in [Dir -> SUBSET (File \cup {"zip"})]
         /\ stuck' \subseteq Dir /\ leaked' \subseteq Dir /\ disturbed' \subseteq Report
         /\ \A c \in Dir : inside'[c] \subseteq inside[c]
BY DEF TypeOK, Rmtree

LEMMA GotoTyped ==
  ASSUME TypeOK, NEW r \in Report, NEW next \in Active \cup {"done"}, Goto(r, next)
  PROVE  pc' \in [Report -> Active \cup {"idle", "done", "dead"}]
BY DEF TypeOK, Goto

LEMMA RaiseTyped ==
  ASSUME TypeOK, NEW r \in Report, NEW class \in {"ok", "validation", "error"},
         NEW next \in Active, Raise(r, class, next)
  PROVE  /\ pc' \in [Report -> Active \cup {"idle", "done", "dead"}]
         /\ result' \in [Report -> {"none", "ok", "validation", "error"}]
BY DEF TypeOK, Raise, Goto

LEMMA DirsOf ==
  ASSUME NEW r \in Report
  PROVE  {<<r, "logs">>, <<r, "archive">>, <<r, "issue">>} \subseteq Dir
BY DEF Dir, Kind

LEMMA LogsTyped == LogsTypeOK /\ UNCHANGED logVars => LogsTypeOK'
BY DEF LogsTypeOK, logVars

LEMMA TypeStep == Typed /\ [Next]_vars => TypeOK'
<1> SUFFICES ASSUME Typed, [Next]_vars PROVE TypeOK'
  OBVIOUS
<1> USE DirsOf, LogsTyped DEF entryVars, diskVars, callVars, workVars, outVars
<1>t. TypeOK
  BY DEF Typed
<1>a. /\ {"lock", "collect", "collectRest", "mkIssue", "writeIssue", "mkStage", "staging",
          "dropIssue", "mkArchive", "openZip", "zipping", "pin", "enqueue", "finally"} = Active
  BY DEF Active, Waiting, Working
<1>1. CASE RotateLog \/ RemoveLogs
  <2>1. present' \subseteq LogFile
    BY <1>t, <1>1 DEF RotateLog, RemoveLogs, TypeOK, LogsTypeOK, LogFile, LogPath
  <2>2. version' \in [LogPath -> 0 .. MaxLogFiles]
    <3>1. version["log"] \in 0 .. MaxLogFiles
      BY <1>t DEF TypeOK, LogsTypeOK, LogPath
    <3>2. version["log"] < MaxLogFiles => version["log"] + 1 \in 0 .. MaxLogFiles
      BY <3>1, BoundsAssumption
    <3> QED
      BY <1>t, <1>1, <3>1, <3>2 DEF RotateLog, RemoveLogs, TypeOK, LogsTypeOK
  <2> QED
    BY <1>t, <1>1, <2>1, <2>2 DEF RotateLog, RemoveLogs, TypeOK, LogsTypeOK
<1>2. ASSUME NEW r \in Report, Call(r) PROVE TypeOK'
  <2>1. instance \in Instance
    BY <1>2 DEF Call, Typed, SetupHeld
  <2> QED
    BY <1>t, <1>a, <1>2, <2>1, GotoTyped DEF Call, TypeOK
<1>3. ASSUME NEW r \in Report, Acquire(r) PROVE TypeOK'
  BY <1>t, <1>a, <1>3, GotoTyped DEF Acquire, TypeOK
<1>4. ASSUME NEW r \in Report, ListLog(r) PROVE TypeOK'
  <2>1. files' \in [Report -> SUBSET File]
    BY <1>t, <1>4 DEF ListLog, TypeOK, LogsTypeOK, LogFile, LogPath, File
  <2>2. listed' \in [Report -> [LogPath -> 0 .. MaxLogFiles]]
    BY <1>t, <1>4 DEF ListLog, TypeOK, LogsTypeOK, LogPath
  <2> QED
    BY <1>t, <1>a, <1>4, <2>1, <2>2, GotoTyped DEF ListLog, TypeOK, LogsTypeOK
<1>32. ASSUME NEW r \in Report, CollectFiles(r) PROVE TypeOK'
  <2>1. files' \in [Report -> SUBSET File]
    BY <1>t, <1>32 DEF CollectFiles, TypeOK, LogsTypeOK, File
  <2>2. /\ pc' \in [Report -> Active \cup {"idle", "done", "dead"}]
        /\ result' \in [Report -> {"none", "ok", "validation", "error"}]
    <3>1. pc \in [Report -> Active \cup {"idle", "done", "dead"}]
          /\ result \in [Report -> {"none", "ok", "validation", "error"}]
      BY <1>t DEF TypeOK
    <3>2. \/ /\ pc' = [pc EXCEPT ![r] = "finally"]
             /\ result' = [result EXCEPT ![r] = "validation"]
          \/ \E next \in {"mkIssue", "mkStage"} :
               pc' = [pc EXCEPT ![r] = next] /\ result' = result
      BY <1>32 DEF CollectFiles, Goto, Raise
    <3>3. {"finally", "mkIssue", "mkStage"} \subseteq Active
      BY <1>a
    <3> QED
      BY <3>1, <3>2, <3>3
  <2>3. listed' \in [Report -> [LogPath -> 0 .. MaxLogFiles]]
    BY <1>t, <1>32 DEF CollectFiles, TypeOK, LogsTypeOK, LogPath
  <2> QED
    BY <1>t, <1>32, <2>1, <2>2, <2>3 DEF CollectFiles, TypeOK, LogsTypeOK
<1>5. ASSUME NEW r \in Report, MakeIssueDir(r) PROVE TypeOK'
  BY <1>t, <1>a, <1>5, GotoTyped DEF MakeIssueDir, MakeDir, TypeOK
<1>6. ASSUME NEW r \in Report, WriteIssue(r) PROVE TypeOK'
  <2>1. files' \in [Report -> SUBSET File] /\ inside' \in [Dir -> SUBSET (File \cup {"zip"})]
    BY <1>t, <1>6 DEF WriteIssue, Put, TypeOK, File
  <2> QED
    BY <1>t, <1>a, <1>6, <2>1, GotoTyped DEF WriteIssue, Put, TypeOK
<1>7. ASSUME NEW r \in Report, WriteIssueFails(r) PROVE TypeOK'
  BY <1>t, <1>a, <1>7, RmtreeTyped, RaiseTyped DEF WriteIssueFails, TypeOK
<1>8. ASSUME NEW r \in Report, WriteIssueEscapes(r) PROVE TypeOK'
  BY <1>t, <1>a, <1>8, RaiseTyped DEF WriteIssueEscapes, TypeOK
<1>9. ASSUME NEW r \in Report, MakeStagingDir(r) PROVE TypeOK'
  BY <1>t, <1>a, <1>9, GotoTyped DEF MakeStagingDir, MakeDir, TypeOK
<1>10. ASSUME NEW r \in Report, StageFile(r) PROVE TypeOK'
  <2>1. PICK f \in work[r] :
          /\ Put(<<r, "logs">>, f)
          /\ work' = [work EXCEPT ![r] = @ \ {f}]
          /\ copy' = IF f \in LogPath THEN [copy EXCEPT ![r][f] = version[f]] ELSE copy
    BY <1>10 DEF StageFile
  <2>2. inside' \in [Dir -> SUBSET (File \cup {"zip"})] /\ work' \in [Report -> SUBSET File]
    BY <1>t, <2>1 DEF Put, TypeOK
  <2>3. copy' \in [Report -> [LogPath -> 0 .. MaxLogFiles]]
    BY <1>t, <2>1 DEF TypeOK, LogsTypeOK
  <2> QED
    BY <1>t, <1>10, <2>1, <2>2, <2>3 DEF StageFile, Put, TypeOK, LogsTypeOK
<1>11. ASSUME NEW r \in Report, StagingDone(r) PROVE TypeOK'
  <2>1. known' \in [Report -> SUBSET Kind]
    BY <1>t, <1>11 DEF StagingDone, TypeOK, Kind
  <2> QED
    BY <1>t, <1>a, <1>11, <2>1, GotoTyped DEF StagingDone, TypeOK
<1>12. ASSUME NEW r \in Report, StagingFails(r) PROVE TypeOK'
  <2>1. StagingCleanup(r) \in Active
    BY <1>a DEF StagingCleanup
  <2> QED
    BY <1>t, <1>12, <2>1, RmtreeTyped, RaiseTyped DEF StagingFails, TypeOK
<1>13. ASSUME NEW r \in Report, DropIssueDir(r) PROVE TypeOK'
  BY <1>t, <1>a, <1>13, RmtreeTyped, GotoTyped DEF DropIssueDir, TypeOK
<1>14. ASSUME NEW r \in Report, MakeDirFails(r) PROVE TypeOK'
  <2>1. (IF pc[r] = "mkStage" THEN StagingCleanup(r) ELSE "finally") \in Active
    BY <1>a DEF StagingCleanup
  <2> QED
    BY <1>t, <1>14, <2>1, RaiseTyped DEF MakeDirFails, TypeOK
<1>15. ASSUME NEW r \in Report, MakeArchiveDir(r) PROVE TypeOK'
  BY <1>t, <1>a, <1>15, GotoTyped DEF MakeArchiveDir, MakeDir, TypeOK
<1>16. ASSUME NEW r \in Report, OpenZip(r) PROVE TypeOK'
  <2>1. work' \in [Report -> SUBSET File]
    BY <1>t, <1>16 DEF OpenZip, TypeOK, Typed, LogsHoldFiles
  <2>2. inside' \in [Dir -> SUBSET (File \cup {"zip"})]
    BY <1>t, <1>16 DEF OpenZip, Put, TypeOK
  <2> QED
    BY <1>t, <1>a, <1>16, <2>1, <2>2, GotoTyped DEF OpenZip, Put, TypeOK
<1>17. ASSUME NEW r \in Report, ZipFile(r) PROVE TypeOK'
  BY <1>t, <1>17 DEF ZipFile, TypeOK
<1>18. ASSUME NEW r \in Report, ZipDone(r) PROVE TypeOK'
  <2>1. known' \in [Report -> SUBSET Kind]
    BY <1>t, <1>18 DEF ZipDone, TypeOK, Kind
  <2> QED
    BY <1>t, <1>a, <1>18, <2>1, GotoTyped DEF ZipDone, TypeOK
<1>19. ASSUME NEW r \in Report, ZipFails(r) PROVE TypeOK'
  BY <1>t, <1>a, <1>19, RmtreeTyped, RaiseTyped DEF ZipFails, TypeOK
<1>20. ASSUME NEW r \in Report, Pin(r) PROVE TypeOK'
  BY <1>t, <1>a, <1>20, GotoTyped DEF Pin, PinReturned, TypeOK
<1>21. ASSUME NEW r \in Report, PinFails(r) PROVE TypeOK'
  BY <1>t, <1>a, <1>21, RaiseTyped DEF PinFails, PinRaised, TypeOK
<1>22. ASSUME NEW r \in Report, Enqueue(r) PROVE TypeOK'
  <2>1. owner[r] \in Instance
    BY <1>22, WorkerHolds DEF Enqueue, Working
  <2>2. sent' \in [Instance -> Seq(Report)]
    BY <1>t, <1>22, <2>1 DEF Enqueue, TypeOK
  <2> QED
    BY <1>t, <1>a, <1>22, <2>2, RaiseTyped DEF Enqueue, TypeOK
<1>23. ASSUME NEW r \in Report, DeleteDir(r) PROVE TypeOK'
  <2>1. PICK kind \in Kind : /\ Rmtree(<<r, kind>>)
                             /\ known' = [known EXCEPT ![r] = @ \ {kind}]
    BY <1>t, <1>23 DEF DeleteDir, ToDelete, TypeOK
  <2>2. <<r, kind>> \in Dir
    BY DEF Dir
  <2> QED
    BY <1>t, <1>23, <2>1, <2>2, RmtreeTyped DEF DeleteDir, TypeOK
<1>24. ASSUME NEW r \in Report, Finish(r) PROVE TypeOK'
  <2>1. Tail(lock[owner[r]]) \in Seq(Report)
    BY <1>24, WorkerHolds, HeadTailProperties DEF Finish, Working
  <2>2. lock' \in [Instance -> Seq(Report)]
    BY <1>t, <1>24, <2>1 DEF Finish, Release, TypeOK
  <2> QED
    BY <1>t, <1>24, <2>2, GotoTyped DEF Finish, TypeOK
<1>25. CASE Unload \/ Setup
  BY <1>t, <1>25, NumInstancesAssumption DEF Unload, Setup, TypeOK
<1>26. CASE ListTempDirs \/ Loaded
  BY <1>t, <1>26 DEF ListTempDirs, Loaded, TypeOK
<1>27. CASE SweepOpens
  BY <1>t, <1>27 DEF SweepOpens, TypeOK, Dir
<1>28. CASE SweepUnlinks
  BY <1>t, <1>28 DEF SweepUnlinks, TypeOK
<1>29. CASE SweepRemoves
  BY <1>t, <1>29 DEF SweepRemoves, NextInSweep, TypeOK
<1>30. CASE Crash
  <2>1. crashes' \in 0 .. MaxCrashes /\ pc' \in [Report -> Active \cup {"idle", "done", "dead"}]
    BY <1>t, <1>30, BoundsAssumption DEF Crash, TypeOK
  <2>2. /\ lock' \in [Instance -> Seq(Report)] /\ known' \in [Report -> SUBSET Kind]
        /\ work' \in [Report -> SUBSET File]
    BY <1>30 DEF Crash
  <2> QED
    BY <1>t, <1>30, <2>1, <2>2 DEF Crash, TypeOK
<1>31. CASE UNCHANGED vars
  BY <1>t, <1>31 DEF vars, TypeOK
<1> QED
  BY <1>1, <1>2, <1>3, <1>4, <1>5, <1>6, <1>7, <1>8, <1>9, <1>10, <1>11, <1>12,
     <1>13, <1>14, <1>15, <1>16, <1>17, <1>18, <1>19, <1>20, <1>21, <1>22, <1>23,
     <1>24, <1>25, <1>26, <1>27, <1>28, <1>29, <1>30, <1>31, <1>32
     DEF Next, ReportStep, SetupStep, Quiescent
-----------------------------------------------------------------------------
(* The send lock. *)

\* The steps between the acquisition of the lock and its release
JobStep(r) ==
  \/ ListLog(r) \/ CollectFiles(r)
  \/ MakeIssueDir(r) \/ WriteIssue(r) \/ WriteIssueFails(r) \/ WriteIssueEscapes(r)
  \/ MakeStagingDir(r) \/ StageFile(r) \/ StagingDone(r) \/ StagingFails(r)
  \/ DropIssueDir(r) \/ MakeDirFails(r)
  \/ MakeArchiveDir(r) \/ OpenZip(r) \/ ZipFile(r) \/ ZipDone(r) \/ ZipFails(r)
  \/ Pin(r) \/ PinFails(r) \/ Enqueue(r) \/ DeleteDir(r)

\* A job moves its own report, which works and goes on working, and no lock.
LEMMA JobShape ==
  ASSUME Typed, NEW r \in Report, JobStep(r)
  PROVE  /\ pc[r] \in Working /\ pc'[r] \in Working
         /\ \A q \in Report \ {r} : pc'[q] = pc[q]
         /\ UNCHANGED <<entryVars, callVars>>
<1> USE DEF entryVars, diskVars, callVars, workVars, outVars, Goto, Raise
<1>w. pc \in [Report -> Active \cup {"idle", "done", "dead"}]
  BY DEF Typed, TypeOK
<1>1. CASE ListLog(r) \/ CollectFiles(r)
  BY <1>w, <1>1 DEF ListLog, CollectFiles, Working
<1>2. CASE MakeIssueDir(r) \/ WriteIssue(r) \/ WriteIssueFails(r) \/ WriteIssueEscapes(r)
  BY <1>w, <1>2 DEF MakeIssueDir, WriteIssue, WriteIssueFails, WriteIssueEscapes, Working
<1>3. CASE MakeStagingDir(r) \/ StagingDone(r) \/ DropIssueDir(r)
  BY <1>w, <1>3 DEF MakeStagingDir, StagingDone, DropIssueDir, Working
<1>4. CASE StageFile(r) \/ ZipFile(r) \/ DeleteDir(r)
  BY <1>w, <1>4 DEF StageFile, ZipFile, DeleteDir, Working
<1>5. CASE StagingFails(r) \/ MakeDirFails(r)
  BY <1>w, <1>5 DEF StagingFails, MakeDirFails, StagingCleanup, Working
<1>6. CASE MakeArchiveDir(r) \/ OpenZip(r) \/ ZipDone(r) \/ ZipFails(r)
  BY <1>w, <1>6 DEF MakeArchiveDir, OpenZip, ZipDone, ZipFails, Working
<1>7. CASE Pin(r) \/ PinFails(r) \/ Enqueue(r)
  BY <1>w, <1>7 DEF Pin, PinReturned, PinFails, PinRaised, Enqueue, Working
<1> QED
  BY <1>1, <1>2, <1>3, <1>4, <1>5, <1>6, <1>7 DEF JobStep

LEMMA LockStep == Typed /\ [Next]_vars => LockHeld'
<1> SUFFICES ASSUME Typed, [Next]_vars PROVE LockHeld'
  OBVIOUS
<1> USE DEF entryVars, diskVars, callVars, workVars, outVars
<1>t. TypeOK /\ LockHeld
  BY DEF Typed
<1>1. ASSUME UNCHANGED <<pc, owner, lock>> PROVE LockHeld'
  BY <1>t, <1>1 DEF LockHeld, InProgress
<1>2. ASSUME NEW r \in Report, Call(r) PROVE LockHeld'
  <2>1. instance \in Instance /\ lock[instance] \in Seq(Report)
    BY <1>t, <1>2 DEF Call, TypeOK, Typed, SetupHeld
  <2>2. /\ pc' = [pc EXCEPT ![r] = "lock"] /\ pc[r] = "idle"
        /\ owner' = [owner EXCEPT ![r] = instance]
        /\ lock' = [lock EXCEPT ![instance] = Append(lock[instance], r)]
    BY <1>2 DEF Call, Goto
  <2>3. /\ lock'[instance] = Append(lock[instance], r)
        /\ \A i \in Instance \ {instance} : lock'[i] = lock[i]
    BY <1>t, <2>1, <2>2 DEF TypeOK
  <2>4. /\ Len(lock'[instance]) = Len(lock[instance]) + 1
        /\ lock'[instance][Len(lock[instance]) + 1] = r
        /\ \A k \in 1 .. Len(lock[instance]) : lock'[instance][k] = lock[instance][k]
    BY <2>1, <2>3, AppendProperties
  <2> SUFFICES ASSUME NEW q \in Report, InProgress(q)'
               PROVE  /\ owner'[q] \in Instance
                      /\ \E k \in 1 .. Len(lock'[owner'[q]]) : lock'[owner'[q]][k] = q
                      /\ pc'[q] \in Working => lock'[owner'[q]][1] = q
    BY DEF LockHeld
  <2>5. CASE q = r
    <3>1. owner'[r] = instance /\ pc'[r] \notin Working
      BY <1>t, <2>2 DEF TypeOK, Working
    <3>2. Len(lock[instance]) + 1 \in 1 .. Len(lock'[instance])
      BY <2>1, <2>4
    <3> QED
      BY <2>1, <2>4, <2>5, <3>1, <3>2
  <2>6. CASE q # r
    <3>1. pc'[q] = pc[q] /\ owner'[q] = owner[q] /\ InProgress(q)
      BY <1>t, <2>2, <2>6 DEF TypeOK, InProgress
    <3>2. /\ owner[q] \in Instance
          /\ \E k \in 1 .. Len(lock[owner[q]]) : lock[owner[q]][k] = q
          /\ pc[q] \in Working => lock[owner[q]][1] = q
      BY <1>t, <3>1 DEF LockHeld
    <3>3. CASE owner[q] = instance
      <4>1. PICK k \in 1 .. Len(lock[instance]) : lock[instance][k] = q
        BY <3>2, <3>3
      <4>2. k \in 1 .. Len(lock'[instance]) /\ 1 \in 1 .. Len(lock[instance])
        BY <2>1, <2>4, <4>1
      <4> QED
        BY <2>4, <3>1, <3>2, <3>3, <4>1, <4>2
    <3>4. CASE owner[q] # instance
      BY <2>3, <3>1, <3>2, <3>4
    <3> QED
      BY <3>3, <3>4
  <2> QED
    BY <2>5, <2>6
<1>3. ASSUME NEW r \in Report, Acquire(r) PROVE LockHeld'
  <2>1. /\ InProgress(r) /\ lock[owner[r]][1] = r
        /\ UNCHANGED <<owner, lock>>
        /\ \A q \in Report \ {r} : pc'[q] = pc[q]
    BY <1>t, <1>3 DEF Acquire, Goto, HoldsLock, TypeOK, InProgress, Active, Waiting
  <2> QED
    BY <1>t, <2>1 DEF LockHeld, InProgress
<1>4. ASSUME NEW r \in Report, JobStep(r) PROVE LockHeld'
  BY <1>t, <1>4, JobShape DEF LockHeld, InProgress, Active
<1>5. ASSUME NEW r \in Report, Finish(r) PROVE LockHeld'
  <2> DEFINE i == owner[r]
  <2>1. /\ i \in Instance /\ lock[i] \in Seq(Report) /\ lock[i] # <<>>
        /\ lock[i][1] = r /\ Len(lock[i]) >= 1
    BY <1>5, WorkerHolds DEF Finish, Working
  <2>2. /\ pc' = [pc EXCEPT ![r] = "done"] /\ UNCHANGED owner
        /\ lock' = [lock EXCEPT ![i] = Tail(lock[i])]
    BY <1>5 DEF Finish, Goto, Release
  <2> HIDE DEF i
  <2>3. lock'[i] = Tail(lock[i]) /\ \A j \in Instance \ {i} : lock'[j] = lock[j]
    BY <1>t, <2>1, <2>2 DEF TypeOK
  <2>4. /\ Len(lock'[i]) = Len(lock[i]) - 1
        /\ \A k \in 1 .. Len(lock[i]) - 1 : lock'[i][k] = lock[i][k + 1]
    BY <2>1, <2>3, HeadTailProperties
  <2> SUFFICES ASSUME NEW q \in Report, InProgress(q)'
               PROVE  /\ owner'[q] \in Instance
                      /\ \E k \in 1 .. Len(lock'[owner'[q]]) : lock'[owner'[q]][k] = q
                      /\ pc'[q] \in Working => lock'[owner'[q]][1] = q
    BY DEF LockHeld
  <2>5. q # r /\ pc'[q] = pc[q] /\ InProgress(q)
    BY <1>t, <2>2 DEF TypeOK, InProgress, Active, Waiting, Working
  <2>6. /\ owner[q] \in Instance
        /\ \E k \in 1 .. Len(lock[owner[q]]) : lock[owner[q]][k] = q
        /\ pc[q] \in Working => lock[owner[q]][1] = q
    BY <1>t, <2>5 DEF LockHeld
  <2>7. CASE owner[q] = i
    <3>1. PICK k \in 1 .. Len(lock[i]) : lock[i][k] = q
      BY <2>6, <2>7
    <3>2. k # 1 /\ k - 1 \in 1 .. Len(lock'[i])
      <4>1. k # 1 /\ Len(lock[i]) \in Nat
        BY <2>1, <2>5, <3>1
      <4> QED
        BY <2>4, <3>1, <4>1
    <3>3. lock'[i][k - 1] = q
      BY <2>1, <2>4, <3>1, <3>2
    <3>4. pc'[q] \notin Working
      BY <2>1, <2>5, <2>6, <2>7
    <3> QED
      BY <2>2, <2>7, <2>6, <3>2, <3>3, <3>4
  <2>8. CASE owner[q] # i
    BY <2>2, <2>3, <2>5, <2>6, <2>8
  <2> QED
    BY <2>7, <2>8
<1>6. CASE RotateLog \/ RemoveLogs \/ Unload \/ Setup \/ SetupStep \/ UNCHANGED vars
  BY <1>1, <1>6 DEF RotateLog, RemoveLogs, Unload, Setup, SetupStep, ListTempDirs, SweepOpens,
                    SweepUnlinks, SweepRemoves, NextInSweep, Loaded, vars
<1>7. CASE Crash
  BY <1>7 DEF Crash, LockHeld, InProgress, Active, Waiting, Working, TypeOK
<1> QED
  BY <1>2, <1>3, <1>4, <1>5, <1>6, <1>7 DEF Next, ReportStep, JobStep, Quiescent

LEMMA SetupHeldStep == Typed /\ [Next]_vars => SetupHeld'
<1> SUFFICES ASSUME Typed, [Next]_vars PROVE SetupHeld'
  OBVIOUS
<1> USE DEF entryVars, diskVars, callVars, workVars, outVars, SetupHeld
<1>1. SetupHeld /\ instance \in 0 .. NumInstances
  BY DEF Typed, TypeOK
<1>2. ASSUME UNCHANGED entryVars PROVE SetupHeld'
  BY <1>1, <1>2
<1>3. ASSUME NEW r \in Report, Call(r) \/ ReportStep(r) PROVE SetupHeld'
  BY <1>2, <1>3, JobShape DEF Call, ReportStep, Acquire, Finish, JobStep
<1>4. CASE RotateLog \/ RemoveLogs \/ UNCHANGED vars
  BY <1>2, <1>4 DEF RotateLog, RemoveLogs, vars
<1>5. CASE Setup
  BY <1>1, <1>5, NumInstancesAssumption DEF Setup, Instance
<1>6. CASE Unload \/ Loaded \/ Crash
  BY <1>1, <1>6 DEF Unload, Loaded, SweepOver, Crash
<1>10. CASE ListTempDirs
  <2>1. entry = "listing" /\ entry' = "sweeping" /\ UNCHANGED instance
    BY <1>10 DEF ListTempDirs
  <2> QED
    BY <1>1, <2>1
<1>7. CASE SweepOpens
  <2>1. sweep # {} /\ UNCHANGED <<entry, instance>>
    BY <1>7 DEF SweepOpens
  <2> QED
    BY <1>1, <2>1
<1>8. CASE SweepUnlinks
  BY <1>1, <1>8 DEF SweepUnlinks
<1>9. CASE SweepRemoves
  BY <1>1, <1>9 DEF SweepRemoves, NextInSweep
<1> QED
  BY <1>3, <1>4, <1>5, <1>6, <1>7, <1>8, <1>9, <1>10 DEF Next, SetupStep, Quiescent

LEMMA LogsStep == Typed /\ [Next]_vars => LogsHoldFiles'
<1> SUFFICES ASSUME Typed, [Next]_vars PROVE LogsHoldFiles'
  OBVIOUS
<1> USE DirsOf DEF entryVars, diskVars, callVars, workVars, outVars
<1>t. TypeOK /\ LogsHoldFiles
  BY DEF Typed
<1>1. ASSUME \A r \in Report : inside'[<<r, "logs">>] \subseteq inside[<<r, "logs">>]
      PROVE  LogsHoldFiles'
  BY <1>t, <1>1 DEF LogsHoldFiles
<1>2. ASSUME NEW d \in Dir, Rmtree(d) PROVE LogsHoldFiles'
  BY <1>t, <1>1, <1>2, RmtreeTyped
<1>3. ASSUME NEW r \in Report, NEW kind \in {"issue", "archive"}, NEW f, Put(<<r, kind>>, f)
      PROVE  LogsHoldFiles'
  BY <1>t, <1>1, <1>3 DEF Put, TypeOK
<1>4. ASSUME NEW r \in Report, StageFile(r) PROVE LogsHoldFiles'
  <2>1. PICK f \in File : Put(<<r, "logs">>, f)
    BY <1>t, <1>4 DEF StageFile, TypeOK
  <2>2. \A q \in Report : inside'[<<q, "logs">>] \subseteq inside[<<q, "logs">>] \cup {f}
    BY <1>t, <2>1 DEF Put, TypeOK
  <2> QED
    BY <1>t, <2>1, <2>2 DEF LogsHoldFiles
<1>5. ASSUME NEW r \in Report, WriteIssue(r) \/ OpenZip(r) PROVE LogsHoldFiles'
  BY <1>3, <1>5 DEF WriteIssue, OpenZip
<1>6. ASSUME NEW r \in Report,
             WriteIssueFails(r) \/ StagingFails(r) \/ DropIssueDir(r) \/ ZipFails(r)
      PROVE  LogsHoldFiles'
  BY <1>2, <1>6 DEF WriteIssueFails, StagingFails, DropIssueDir, ZipFails
<1>7. ASSUME NEW r \in Report, DeleteDir(r) PROVE LogsHoldFiles'
  <2>1. PICK kind \in Kind : Rmtree(<<r, kind>>)
    BY <1>t, <1>7 DEF DeleteDir, ToDelete, TypeOK
  <2> QED
    BY <1>2, <2>1 DEF Dir
<1>8. ASSUME UNCHANGED inside PROVE LogsHoldFiles'
  BY <1>1, <1>8
<1>9. ASSUME NEW r \in Report,
             \/ Call(r) \/ Acquire(r) \/ ListLog(r) \/ CollectFiles(r) \/ MakeIssueDir(r)
             \/ WriteIssueEscapes(r) \/ MakeStagingDir(r) \/ StagingDone(r)
             \/ MakeDirFails(r) \/ MakeArchiveDir(r) \/ ZipFile(r) \/ ZipDone(r)
             \/ Pin(r) \/ PinFails(r) \/ Enqueue(r) \/ Finish(r)
      PROVE  LogsHoldFiles'
  BY <1>8, <1>9 DEF Call, Acquire, ListLog, CollectFiles, MakeIssueDir, WriteIssueEscapes,
                    MakeStagingDir, StagingDone, MakeDirFails, MakeArchiveDir, MakeDir,
                    ZipFile, ZipDone, Pin, PinFails, Enqueue, Finish
<1>10. CASE RotateLog \/ RemoveLogs \/ Unload \/ Setup \/ Loaded \/ ListTempDirs \/ SweepOpens
            \/ SweepRemoves \/ Crash \/ UNCHANGED vars
  BY <1>8, <1>10 DEF RotateLog, RemoveLogs, Unload, Setup, Loaded, ListTempDirs, SweepOpens,
                     SweepRemoves, Crash, vars
<1>11. CASE SweepUnlinks
  <2>1. PICK f \in todo : inside' = [inside EXCEPT ![rmdir] = @ \ {f}]
    BY <1>11 DEF SweepUnlinks
  <2>2. \A d \in Dir : inside'[d] \subseteq inside[d]
    BY <1>t, <2>1 DEF TypeOK
  <2> QED
    BY <1>1, <2>2 DEF Dir, Kind
<1> QED
  BY <1>4, <1>5, <1>6, <1>7, <1>9, <1>10, <1>11 DEF Next, ReportStep, SetupStep, Quiescent

LEMMA TypedAlways == Spec => []Typed
<1>1. Typed /\ [Next]_vars => Typed'
  BY TypeStep, LockStep, LogsStep, SetupHeldStep DEF Typed
<1> QED
  BY <1>1, TypedInit, PTL DEF Spec

\* Type correctness; in it, that every release finds its lock held.
THEOREM TypeCorrect == Spec => []TypeOK
<1>1. Typed => TypeOK
  BY DEF Typed
<1> QED
  BY <1>1, TypedAlways, PTL
-----------------------------------------------------------------------------
(* What is handed on, and what the caller is told. *)

HandedOnce(r) ==
  \E n \in 1 .. Len(sent[owner[r]]) :
    /\ sent[owner[r]][n] = r
    /\ \A m \in 1 .. Len(sent[owner[r]]) : sent[owner[r]][m] = r => m = n

Handed ==
  \A r \in Report :
    /\ pc[r] \in (Active \ {"finally"}) \cup {"idle"} => result[r] # "ok"
    /\ pc[r] \in {"dropIssue", "finally", "done"} => result[r] # "none"
    /\ pc[r] = "done" \/ result[r] = "ok" => owner[r] \in Instance
    /\ pc[r] = "enqueue" => r \in pinned
    /\ result[r] = "ok" => r \in pinned /\ HandedOnce(r)
    /\ result[r] # "ok" =>
         \A i \in Instance : \A n \in 1 .. Len(sent[i]) : sent[i][n] # r
    /\ r \in pinned =>
         result[r] = "ok" \/ r \in unsure \/ pc[r] \in {"enqueue", "dead"}

\* Where a report may go without having been handed on
StaysUnhanded(q) ==
  \/ UNCHANGED <<pc[q], result[q], owner[q]>>
  \/ /\ pc[q] \in (Active \ {"finally", "enqueue"}) \cup {"idle"}
     /\ pc'[q] \in Active \ {"enqueue"}
     /\ result'[q] \in {result[q], "validation", "error"}
     /\ pc'[q] \in {"dropIssue", "finally"} => result'[q] # "none"
     /\ owner'[q] = owner[q] \/ pc[q] = "idle"
  \/ /\ pc[q] = "finally" /\ pc'[q] = "done"
     /\ owner[q] \in Instance /\ UNCHANGED <<result[q], owner[q]>>
  \/ pc[q] \in Active /\ pc'[q] = "dead" /\ UNCHANGED <<result[q], owner[q]>>

LEMMA HandedFrame ==
  ASSUME Typed, Handed, UNCHANGED outVars, \A q \in Report : StaysUnhanded(q)
  PROVE  Handed'
<1> SUFFICES ASSUME NEW q \in Report
             PROVE  /\ pc'[q] \in (Active \ {"finally"}) \cup {"idle"} => result'[q] # "ok"
                    /\ pc'[q] \in {"dropIssue", "finally", "done"} => result'[q] # "none"
                    /\ pc'[q] = "done" \/ result'[q] = "ok" => owner'[q] \in Instance
                    /\ pc'[q] = "enqueue" => q \in pinned'
                    /\ result'[q] = "ok" => q \in pinned' /\ HandedOnce(q)'
                    /\ result'[q] # "ok" =>
                         \A i \in Instance : \A n \in 1 .. Len(sent'[i]) : sent'[i][n] # q
                    /\ q \in pinned' =>
                         result'[q] = "ok" \/ q \in unsure' \/ pc'[q] \in {"enqueue", "dead"}
  BY DEF Handed
<1> USE DEF outVars
<1>1. StaysUnhanded(q)
  OBVIOUS
<1>2. CASE UNCHANGED <<pc[q], result[q], owner[q]>>
  BY <1>2 DEF Handed, HandedOnce
<1>3. CASE /\ pc[q] \in (Active \ {"finally", "enqueue"}) \cup {"idle"}
           /\ pc'[q] \in Active \ {"enqueue"}
           /\ result'[q] \in {result[q], "validation", "error"}
           /\ pc'[q] \in {"dropIssue", "finally"} => result'[q] # "none"
           /\ owner'[q] = owner[q] \/ pc[q] = "idle"
  <2>1. result[q] # "ok" /\ result'[q] # "ok" /\ pc[q] # "dead" /\ pc'[q] \notin {"idle", "done"}
    BY <1>3 DEF Handed, Active, Waiting, Working
  <2> QED
    BY <1>3, <2>1 DEF Handed
<1>4. CASE \/ /\ pc[q] = "finally" /\ pc'[q] = "done"
              /\ owner[q] \in Instance /\ UNCHANGED <<result[q], owner[q]>>
           \/ pc[q] \in Active /\ pc'[q] = "dead" /\ UNCHANGED <<result[q], owner[q]>>
  <2>1. pc'[q] \in {"done", "dead"} /\ UNCHANGED <<result[q], owner[q]>>
        /\ pc[q] \notin {"dead", "done"}
    BY <1>4 DEF Active, Waiting, Working
  <2>2. pc'[q] = "done" => result[q] # "none" /\ owner[q] \in Instance /\ pc[q] # "enqueue"
    BY <1>4, <2>1 DEF Handed
  <2>3. pc'[q] \notin (Active \ {"finally"}) \cup {"idle"}
    BY <2>1 DEF Active, Waiting, Working
  <2> QED
    BY <2>1, <2>2, <2>3 DEF Handed, HandedOnce
<1> QED
  BY <1>1, <1>2, <1>3, <1>4 DEF StaysUnhanded

LEMMA HandedInit == Init => Handed
<1> SUFFICES ASSUME Init PROVE Handed
  OBVIOUS
<1>1. \A i \in Instance : Len(sent[i]) = 0
  BY DEF Init
<1>2. \A r \in Report : pc[r] = "idle" /\ result[r] = "none"
  BY DEF Init
<1>3. pinned = {}
  BY DEF Init
<1> QED
  BY <1>1, <1>2, <1>3 DEF Handed

LEMMA HandedStep == Typed /\ Handed /\ [Next]_vars => Handed'
<1> SUFFICES ASSUME Typed, Handed, [Next]_vars PROVE Handed'
  OBVIOUS
<1> USE DEF entryVars, diskVars, callVars, workVars, outVars
<1>t. TypeOK
  BY DEF Typed
<1>1. ASSUME NEW r \in Report, UNCHANGED outVars, StaysUnhanded(r),
             \A q \in Report \ {r} : UNCHANGED <<pc[q], result[q], owner[q]>>
      PROVE  Handed'
  BY <1>1, HandedFrame DEF StaysUnhanded
<1> DEFINE Moves(r, next) == /\ pc[r] \in Active \ {"finally", "enqueue"} /\ Goto(r, next)
                             /\ UNCHANGED <<result, owner, outVars>>
           Fails(r, class, next) == /\ pc[r] \in Active \ {"finally", "enqueue"}
                                    /\ Raise(r, class, next)
                                    /\ UNCHANGED <<owner, outVars>>
<1>2. ASSUME NEW r \in Report, NEW next \in Active \ {"enqueue", "dropIssue", "finally"},
             Moves(r, next)
      PROVE  Handed'
  BY <1>t, <1>1, <1>2 DEF Goto, StaysUnhanded, TypeOK
<1>3. ASSUME NEW r \in Report, NEW class \in {"validation", "error"},
             NEW next \in Active \ {"enqueue"}, Fails(r, class, next)
      PROVE  Handed'
  BY <1>t, <1>1, <1>3 DEF Goto, Raise, StaysUnhanded, TypeOK
<1> HIDE DEF Moves, Fails
<1>4. ASSUME UNCHANGED <<pc, result, owner, outVars>> PROVE Handed'
  BY <1>4, HandedFrame DEF StaysUnhanded
<1>5. ASSUME NEW r \in Report, Call(r) PROVE Handed'
  BY <1>t, <1>1, <1>5 DEF Call, Goto, StaysUnhanded, TypeOK, Active, Waiting, Working
<1>6. ASSUME NEW r \in Report, Acquire(r) PROVE Handed'
  BY <1>2, <1>6 DEF Moves, Acquire, Active, Waiting, Working
<1>7. ASSUME NEW r \in Report, ListLog(r) \/ CollectFiles(r) PROVE Handed'
  BY <1>2, <1>3, <1>7 DEF Moves, Fails, ListLog, CollectFiles, Active, Waiting, Working
<1>8. ASSUME NEW r \in Report, MakeIssueDir(r) \/ WriteIssue(r) \/ MakeStagingDir(r)
      PROVE  Handed'
  BY <1>2, <1>8 DEF Moves, MakeIssueDir, WriteIssue, MakeStagingDir, Active, Waiting, Working
<1>9. ASSUME NEW r \in Report, WriteIssueFails(r) \/ WriteIssueEscapes(r) PROVE Handed'
  BY <1>3, <1>9 DEF Fails, WriteIssueFails, WriteIssueEscapes, Active, Waiting, Working
<1>10. ASSUME NEW r \in Report, StageFile(r) \/ ZipFile(r) \/ DeleteDir(r) PROVE Handed'
  BY <1>4, <1>10 DEF StageFile, ZipFile, DeleteDir
<1>11. ASSUME NEW r \in Report, StagingDone(r) \/ MakeArchiveDir(r) \/ OpenZip(r) \/ ZipDone(r)
      PROVE  Handed'
  BY <1>2, <1>11 DEF Moves, StagingDone, MakeArchiveDir, OpenZip, ZipDone, Active, Waiting,
                     Working
<1>12. ASSUME NEW r \in Report, StagingFails(r) \/ MakeDirFails(r) \/ ZipFails(r)
      PROVE  Handed'
  BY <1>3, <1>12 DEF Fails, StagingFails, MakeDirFails, StagingCleanup, ZipFails, Active,
                     Waiting, Working
<1>13. ASSUME NEW r \in Report, DropIssueDir(r) PROVE Handed'
  <2>1. result[r] # "none" /\ pc[r] = "dropIssue"
    BY <1>13 DEF DropIssueDir, Handed
  <2> QED
    BY <1>t, <1>1, <1>13, <2>1 DEF DropIssueDir, Goto, StaysUnhanded, TypeOK, Active, Waiting,
                                   Working
<1>14. ASSUME NEW r \in Report, Pin(r) PROVE Handed'
  <2>1. /\ pc[r] = "pin" /\ pc' = [pc EXCEPT ![r] = "enqueue"] /\ pinned' = pinned \cup {r}
        /\ UNCHANGED <<result, owner, unsure, sent>>
    BY <1>14 DEF Pin, PinReturned, Goto
  <2>2. pc'[r] = "enqueue" /\ \A q \in Report \ {r} : pc'[q] = pc[q]
    BY <1>t, <2>1 DEF TypeOK
  <2> QED
    BY <2>1, <2>2 DEF Handed, HandedOnce, Active, Waiting, Working
<1>15. ASSUME NEW r \in Report, PinFails(r) PROVE Handed'
  <2>1. /\ pc[r] = "pin" /\ pc' = [pc EXCEPT ![r] = "finally"]
        /\ result' = [result EXCEPT ![r] = "error"] /\ UNCHANGED <<owner, sent>>
        /\ pinned \subseteq pinned' /\ pinned' \ pinned \subseteq {r}
        /\ unsure \subseteq unsure' /\ (r \in pinned' => r \in pinned \/ r \in unsure')
    BY <1>15 DEF PinFails, PinRaised, Raise, Goto
  <2>2. /\ pc'[r] = "finally" /\ result'[r] = "error"
        /\ \A q \in Report \ {r} : pc'[q] = pc[q] /\ result'[q] = result[q]
    BY <1>t, <2>1 DEF TypeOK
  <2>3. result[r] # "ok" /\ owner'[r] = owner[r]
    BY <2>1 DEF Handed, Active, Waiting, Working
  <2>4. r \in pinned' => r \in unsure'
    BY <2>1, <2>3 DEF Handed
  <2>5. ASSUME NEW q \in Report \ {r} PROVE HandedOnce(q) => HandedOnce(q)'
    BY <2>1 DEF HandedOnce
  <2> QED
    BY <2>1, <2>2, <2>3, <2>4, <2>5 DEF Handed, Active, Waiting, Working
<1>16. ASSUME NEW r \in Report, Enqueue(r) PROVE Handed'
  <2> DEFINE i == owner[r]
  <2>1. i \in Instance /\ sent[i] \in Seq(Report) /\ r \in pinned /\ result[r] # "ok"
    BY <1>t, <1>16, WorkerHolds DEF Enqueue, Working, Handed, TypeOK, Active
  <2>2. /\ pc' = [pc EXCEPT ![r] = "finally"] /\ result' = [result EXCEPT ![r] = "ok"]
        /\ sent' = [sent EXCEPT ![i] = Append(sent[i], r)] /\ UNCHANGED <<owner, pinned, unsure>>
    BY <1>16 DEF Enqueue, Raise, Goto
  <2>3. /\ pc'[r] = "finally" /\ result'[r] = "ok"
        /\ \A q \in Report \ {r} : pc'[q] = pc[q] /\ result'[q] = result[q]
    BY <1>t, <2>2 DEF TypeOK
  <2> DEFINE l == Len(sent[i])
  <2>4. /\ l \in Nat /\ Len(sent'[i]) = l + 1 /\ sent'[i][l + 1] = r
        /\ \A n \in 1 .. l : sent'[i][n] = sent[i][n]
        /\ \A j \in Instance \ {i} : sent'[j] = sent[j]
    BY <1>t, <2>1, <2>2, AppendProperties DEF TypeOK
  <2> HIDE DEF i, l
  <2>5. \A n \in 1 .. l : sent[i][n] # r
    BY <2>1 DEF Handed, l
  <2>6. HandedOnce(r)'
    <3>1. l + 1 \in 1 .. Len(sent'[i]) /\ owner'[r] = i
      BY <2>2, <2>4 DEF i
    <3>2. \A m \in 1 .. Len(sent'[i]) : sent'[i][m] = r => m = l + 1
      BY <2>4, <2>5
    <3> QED
      BY <2>4, <3>1, <3>2 DEF HandedOnce
  <2>7. ASSUME NEW q \in Report \ {r} PROVE HandedOnce(q) /\ owner[q] \in Instance => HandedOnce(q)'
    <3>1. CASE owner[q] = i
      <4> SUFFICES ASSUME HandedOnce(q) PROVE HandedOnce(q)'
        OBVIOUS
      <4>1. PICK n \in 1 .. l : /\ sent[i][n] = q
                                /\ \A m \in 1 .. l : sent[i][m] = q => m = n
        BY <3>1 DEF HandedOnce, l
      <4>2. n \in 1 .. Len(sent'[i]) /\ sent'[i][n] = q
        BY <2>4, <4>1
      <4>3. \A m \in 1 .. Len(sent'[i]) : sent'[i][m] = q => m = n
        BY <2>4, <2>7, <4>1
      <4>4. owner'[q] = i
        BY <2>2, <3>1
      <4> QED
        BY <4>2, <4>3, <4>4 DEF HandedOnce
    <3>2. CASE owner[q] # i
      BY <2>2, <2>4, <3>2 DEF HandedOnce
    <3> QED
      BY <3>1, <3>2
  <2>8. ASSUME NEW q \in Report \ {r}, result[q] # "ok",
               NEW j \in Instance, NEW n \in 1 .. Len(sent'[j])
        PROVE  sent'[j][n] # q
    <3>1. \A m \in 1 .. Len(sent[j]) : sent[j][m] # q
      BY <2>8 DEF Handed
    <3>2. CASE j = i
      BY <2>4, <2>8, <3>1, <3>2 DEF l
    <3>3. CASE j # i
      BY <2>4, <2>8, <3>1, <3>3
    <3> QED
      BY <3>2, <3>3
  <2> QED
    BY <2>1, <2>2, <2>3, <2>6, <2>7, <2>8 DEF Handed, i, Active
<1>17. ASSUME NEW r \in Report, Finish(r) PROVE Handed'
  <2>1. owner[r] \in Instance
    BY <1>17, WorkerHolds DEF Finish, Working
  <2> QED
    BY <1>t, <1>1, <1>17, <2>1 DEF Finish, Goto, StaysUnhanded, TypeOK
<1>18. CASE RotateLog \/ RemoveLogs \/ Unload \/ Setup \/ SetupStep \/ UNCHANGED vars
  BY <1>4, <1>18 DEF RotateLog, RemoveLogs, Unload, Setup, SetupStep, ListTempDirs, SweepOpens,
                     SweepUnlinks, SweepRemoves, NextInSweep, Loaded, vars
<1>19. CASE Crash
  <2>1. \A q \in Report : StaysUnhanded(q)
    BY <1>19 DEF Crash, StaysUnhanded, InProgress
  <2> QED
    BY <1>19, <2>1, HandedFrame DEF Crash
<1> QED
  BY <1>5, <1>6, <1>7, <1>8, <1>9, <1>10, <1>11, <1>12, <1>13, <1>14, <1>15, <1>16,
     <1>17, <1>18, <1>19
     DEF Next, ReportStep, Quiescent

LEMMA HandedAlways == Spec => [](Typed /\ Handed)
<1>1. Init => Typed /\ Handed
  BY TypedInit, HandedInit
<1>2. Typed /\ Handed /\ [Next]_vars => (Typed /\ Handed)'
  BY TypeStep, LockStep, LogsStep, SetupHeldStep, HandedStep DEF Typed
<1> QED
  BY <1>1, <1>2, PTL DEF Spec

\* However calls, reloads and crashes interleave and whatever fails, a report
\* ends without an error exactly when its hash was handed on once, pinned.
THEOREM OutcomesAreTruthful == Spec => []OutcomeIsTruthful
<1>1. Typed /\ Handed => OutcomeIsTruthful
  <2> SUFFICES ASSUME Typed, Handed, NEW r \in Report, pc[r] = "done"
               PROVE  /\ result[r] # "none"
                      /\ result[r] = "ok" <=>
                           /\ Cardinality({n \in 1 .. Len(sent[owner[r]]) :
                                             sent[owner[r]][n] = r}) = 1
                           /\ r \in pinned
    BY DEF OutcomeIsTruthful
  <2> DEFINE S == {n \in 1 .. Len(sent[owner[r]]) : sent[owner[r]][n] = r}
  <2>1. CASE result[r] = "ok"
    <3>1. PICK n \in 1 .. Len(sent[owner[r]]) : S = {n}
      BY <2>1 DEF Handed, HandedOnce
    <3>2. Cardinality(S) = 1
      BY <3>1, FS_Singleton
    <3> QED
      BY <2>1, <3>2 DEF Handed
  <2>2. CASE result[r] # "ok"
    <3>1. S = {} /\ result[r] # "none"
      BY <2>2 DEF Handed
    <3>2. Cardinality(S) = 0
      BY <3>1, FS_EmptySet
    <3> QED
      BY <2>2, <3>1, <3>2
  <2> QED
    BY <2>1, <2>2
<1> QED
  BY <1>1, HandedAlways, PTL

\* A report has been handed on exactly if its job found no error.
DeliveredIfOk == \A r \in Report : r \in Delivered <=> result[r] = "ok"

LEMMA OkIsDelivered == Typed /\ Handed => DeliveredIfOk
<1> SUFFICES ASSUME Typed, Handed, NEW r \in Report PROVE r \in Delivered <=> result[r] = "ok"
  BY DEF DeliveredIfOk
<1>1. ASSUME result[r] = "ok" PROVE r \in Delivered
  <2>1. PICK n \in 1 .. Len(sent[owner[r]]) : sent[owner[r]][n] = r
    BY <1>1 DEF Handed, HandedOnce
  <2>2. owner[r] \in Instance /\ sent[owner[r]] \in Seq(Report)
    BY <1>1 DEF Handed, Typed, TypeOK
  <2>3. r \in ToSet(sent[owner[r]])
    BY <2>1, <2>2 DEF ToSet
  <2> QED
    BY <2>2, <2>3 DEF Delivered
<1>2. ASSUME r \in Delivered PROVE result[r] = "ok"
  <2>1. PICK i \in Instance : r \in ToSet(sent[i])
    BY <1>2 DEF Delivered
  <2>2. sent[i] \in Seq(Report)
    BY DEF Typed, TypeOK
  <2>3. PICK n \in 1 .. Len(sent[i]) : sent[i][n] = r
    BY <2>1, <2>2 DEF ToSet
  <2> QED
    BY <2>3 DEF Handed
<1> QED
  BY <1>1, <1>2

\* A pin without a datalog is one whose upload or process ended unanswered.
THEOREM EveryPinAccounted == Spec => []PinsAccounted
<1>1. Typed /\ Handed => PinsAccounted
  <2> SUFFICES ASSUME Typed, Handed, NEW r \in pinned, r \notin Delivered, r \notin unsure
               PROVE  pc[r] \in {"enqueue", "dead"}
    BY DEF PinsAccounted
  <2>1. r \in Report
    BY DEF Typed, TypeOK
  <2>2. result[r] # "ok"
    BY <2>1, OkIsDelivered DEF DeliveredIfOk
  <2> QED
    BY <2>1, <2>2 DEF Handed
<1> QED
  BY <1>1, HandedAlways, PTL
-----------------------------------------------------------------------------
(* Which temporary directories may exist. *)

\* The directory is known to send_report, or to the job that fills it.
Tracked(r, k) ==
  \/ k \in known[r]
  \/ k = "issue" /\ pc[r] \in {"writeIssue", "dropIssue"}
  \/ k = "issue" /\ pc[r] \in {"mkStage", "staging"} /\ "issue" \in files[r]
  \/ k = "logs" /\ pc[r] = "staging"
  \/ k = "archive" /\ pc[r] \in {"openZip", "zipping"}

\* Its report died, and the next sweep has not been over it.
Awaited(r, k) ==
  /\ pc[r] = "dead" /\ entry # "loaded"
  /\ entry = "sweeping" =>
       <<r, k>> \in sweep \/ (rmdir = <<r, k>> /\ inside[<<r, k>>] \subseteq todo)

Cleanable(r, k) == <<r, k>> \in dirs /\ <<r, k>> \notin stuck \cup leaked

Bookkept(r) ==
  /\ known[r] # {} =>
       pc[r] \in {"mkArchive", "openZip", "zipping", "pin", "enqueue", "finally"}
  /\ <<r, "issue">> \in dirs \/ pc[r] \in {"mkIssue", "writeIssue"} => r \in WithIssue

Accounted ==
  \A r \in Report :
    /\ \A k \in Kind : Cleanable(r, k) => Tracked(r, k) \/ Awaited(r, k)
    /\ Bookkept(r)

\* What a job does to the disk concerns the directories of its own report.
OwnDisk(r) ==
  /\ stuck \subseteq stuck' /\ leaked \subseteq leaked'
  /\ \A q \in Report \ {r}, k \in Kind :
       /\ <<q, k>> \in dirs' => <<q, k>> \in dirs
       /\ inside'[<<q, k>>] = inside[<<q, k>>]

LEMMA OwnDiskSteps ==
  ASSUME TypeOK, NEW r \in Report, NEW k \in Kind
  PROVE  /\ MakeDir(<<r, k>>) => OwnDisk(r)
         /\ \A f : Put(<<r, k>>, f) => OwnDisk(r)
         /\ Rmtree(<<r, k>>) =>
              /\ OwnDisk(r) /\ dirs' \subseteq dirs /\ ~Cleanable(r, k)'
         /\ UNCHANGED diskVars => OwnDisk(r)
<1>1. \A q \in Report \ {r}, c \in Kind : <<q, c>> # <<r, k>> /\ <<q, c>> \in Dir
  BY DEF Dir
<1> QED
  BY <1>1 DEF MakeDir, Put, Rmtree, OwnDisk, Cleanable, diskVars, TypeOK

LEMMA AccountedFrame ==
  ASSUME Typed, Accounted, NEW r \in Report, pc[r] # "dead", OwnDisk(r),
         UNCHANGED entryVars,
         \A q \in Report \ {r} : UNCHANGED <<pc[q], known[q], files[q]>>,
         \A k \in Kind : Cleanable(r, k)' => Tracked(r, k)',
         Bookkept(r)'
  PROVE  Accounted'
<1> SUFFICES ASSUME NEW q \in Report, q # r
             PROVE  /\ \A k \in Kind : Cleanable(q, k)' => Tracked(q, k)' \/ Awaited(q, k)'
                    /\ Bookkept(q)'
  BY DEF Accounted
<1>1. Bookkept(q)'
  BY DEF Accounted, Bookkept, OwnDisk, Kind
<1>2. ASSUME NEW k \in Kind, Cleanable(q, k)' PROVE Tracked(q, k)' \/ Awaited(q, k)'
  <2>1. Cleanable(q, k)
    BY <1>2 DEF Cleanable, OwnDisk
  <2>2. Tracked(q, k) \/ Awaited(q, k)
    BY <2>1 DEF Accounted
  <2>3. inside'[<<q, k>>] = inside[<<q, k>>]
    BY DEF OwnDisk
  <2> QED
    BY <2>2, <2>3 DEF Tracked, Awaited, entryVars
<1> QED
  BY <1>1, <1>2

LEMMA AccountedInit == Init => Accounted
BY DEF Init, Accounted, Cleanable, Bookkept

\* The jobs, one by one
LEMMA AccountedJob ==
  ASSUME Typed, Accounted, NEW r \in Report, JobStep(r)
  PROVE  Accounted'
<1> USE DEF entryVars, diskVars, callVars, workVars, outVars, Goto, Raise
<1>t. TypeOK
  BY DEF Typed
<1>k. {"logs", "archive", "issue"} = Kind
  BY DEF Kind
<1>w. /\ pc[r] \in Working /\ pc'[r] \in Working /\ UNCHANGED entryVars
      /\ \A q \in Report \ {r} : pc'[q] = pc[q]
  BY JobShape
<1>d. pc[r] # "dead"
  BY <1>w DEF Working
<1>b. /\ \A k \in Kind : Cleanable(r, k) => Tracked(r, k)
      /\ Bookkept(r)
  BY <1>d DEF Accounted, Awaited
<1>1. ASSUME OwnDisk(r), \A q \in Report \ {r} : UNCHANGED <<known[q], files[q]>>,
             \A k \in Kind : Cleanable(r, k)' => Tracked(r, k)', Bookkept(r)'
      PROVE  Accounted'
  BY <1>1, <1>w, <1>d, AccountedFrame
<1>c. ASSUME UNCHANGED diskVars PROVE \A k \in Kind : Cleanable(r, k)' <=> Cleanable(r, k)
  BY <1>c DEF Cleanable
<1>2. CASE ListLog(r) \/ CollectFiles(r)
  <2>1. /\ pc[r] \in {"collect", "collectRest"}
        /\ pc'[r] \in {"collectRest", "mkIssue", "mkStage", "finally"}
        /\ (pc'[r] = "mkIssue" => r \in WithIssue) /\ UNCHANGED <<known, diskVars>>
        /\ \A q \in Report \ {r} : files'[q] = files[q]
    BY <1>t, <1>2 DEF ListLog, CollectFiles, TypeOK
  <2>2. \A k \in Kind : ~Cleanable(r, k)
    BY <1>b, <2>1 DEF Tracked, Bookkept
  <2>3. Bookkept(r)'
    BY <1>b, <2>1 DEF Bookkept
  <2> QED
    BY <1>t, <1>1, <1>c, <1>k, <2>1, <2>2, <2>3, OwnDiskSteps
<1>3. CASE MakeIssueDir(r)
  <2>1. pc[r] = "mkIssue" /\ pc'[r] = "writeIssue" /\ UNCHANGED <<known, files, stuck, leaked>>
        /\ MakeDir(<<r, "issue">>) /\ dirs' = dirs \cup {<<r, "issue">>}
    BY <1>t, <1>3 DEF MakeIssueDir, MakeDir, TypeOK
  <2>2. \A k \in Kind : Cleanable(r, k)' => k = "issue"
    BY <1>b, <2>1 DEF Tracked, Bookkept, Cleanable
  <2>3. Bookkept(r)'
    BY <1>b, <2>1 DEF Bookkept
  <2> QED
    BY <1>t, <1>1, <1>k, <2>1, <2>2, <2>3, OwnDiskSteps DEF Tracked
<1>4. CASE WriteIssue(r)
  <2>1. pc[r] = "writeIssue" /\ pc'[r] = "mkStage" /\ UNCHANGED <<known, dirs, stuck, leaked>>
        /\ Put(<<r, "issue">>, "issue") /\ "issue" \in files'[r]
        /\ \A q \in Report \ {r} : files'[q] = files[q]
    BY <1>t, <1>4 DEF WriteIssue, Put, TypeOK
  <2>2. \A k \in Kind : Cleanable(r, k)' => k = "issue"
    BY <1>b, <2>1 DEF Tracked, Bookkept, Cleanable
  <2>3. Bookkept(r)'
    BY <1>b, <2>1 DEF Bookkept
  <2> QED
    BY <1>t, <1>1, <1>k, <2>1, <2>2, <2>3, OwnDiskSteps DEF Tracked
<1>5. CASE WriteIssueFails(r)
  <2>1. pc[r] = "writeIssue" /\ pc'[r] = "finally" /\ UNCHANGED <<known, files>>
        /\ Rmtree(<<r, "issue">>)
    BY <1>t, <1>5 DEF WriteIssueFails, TypeOK
  <2>2. OwnDisk(r) /\ dirs' \subseteq dirs /\ ~Cleanable(r, "issue")'
    BY <1>t, <1>k, <2>1, OwnDiskSteps
  <2>3. \A k \in Kind : ~Cleanable(r, k)'
    BY <1>b, <2>1, <2>2 DEF Tracked, Bookkept, Cleanable, OwnDisk
  <2>4. Bookkept(r)'
    BY <1>b, <2>1, <2>2 DEF Bookkept
  <2> QED
    BY <1>1, <2>1, <2>2, <2>3, <2>4
<1>6. CASE WriteIssueEscapes(r)
  <2>1. pc[r] = "writeIssue" /\ pc'[r] = "finally" /\ UNCHANGED <<known, files, dirs, inside, stuck>>
        /\ leaked' = leaked \cup {<<r, "issue">>}
    BY <1>t, <1>6 DEF WriteIssueEscapes, TypeOK
  <2>2. \A k \in Kind : ~Cleanable(r, k)' /\ OwnDisk(r)
    BY <1>b, <2>1 DEF Tracked, Bookkept, Cleanable, OwnDisk
  <2>3. OwnDisk(r)
    BY <1>k, <2>2
  <2>4. Bookkept(r)'
    BY <1>b, <2>1 DEF Bookkept
  <2> QED
    BY <1>1, <2>1, <2>2, <2>3, <2>4
<1>7. CASE MakeStagingDir(r)
  <2>1. pc[r] = "mkStage" /\ pc'[r] = "staging" /\ UNCHANGED <<known, files, stuck, leaked>>
        /\ MakeDir(<<r, "logs">>) /\ dirs' = dirs \cup {<<r, "logs">>}
    BY <1>t, <1>7 DEF MakeStagingDir, MakeDir, TypeOK
  <2>2. \A k \in Kind : Cleanable(r, k)' => Tracked(r, k)'
    BY <1>b, <2>1 DEF Tracked, Bookkept, Cleanable
  <2>3. Bookkept(r)'
    BY <1>b, <2>1 DEF Bookkept
  <2> QED
    BY <1>t, <1>1, <1>k, <2>1, <2>2, <2>3, OwnDiskSteps
<1>8. CASE StageFile(r)
  <2>1. pc[r] = "staging" /\ UNCHANGED <<pc, known, files, dirs, stuck, leaked>>
        /\ \E f : Put(<<r, "logs">>, f)
    BY <1>8 DEF StageFile, Put
  <2>2. \A k \in Kind : Cleanable(r, k)' => Tracked(r, k)'
    BY <1>b, <2>1 DEF Tracked, Cleanable
  <2>3. Bookkept(r)'
    BY <1>b, <2>1 DEF Bookkept
  <2> QED
    BY <1>t, <1>1, <1>k, <2>1, <2>2, <2>3, OwnDiskSteps
<1>9. CASE StagingDone(r)
  <2>1. pc[r] = "staging" /\ pc'[r] = "mkArchive" /\ UNCHANGED <<files, diskVars>>
        /\ known'[r] = {"logs"} \cup (files[r] \cap {"issue"})
        /\ \A q \in Report \ {r} : known'[q] = known[q]
    BY <1>t, <1>9 DEF StagingDone, TypeOK
  <2>2. \A k \in Kind : Cleanable(r, k)' => Tracked(r, k)'
    BY <1>b, <1>c, <2>1 DEF Tracked, Bookkept
  <2>3. Bookkept(r)'
    BY <1>b, <2>1 DEF Bookkept
  <2> QED
    BY <1>t, <1>1, <1>k, <2>1, <2>2, <2>3, OwnDiskSteps
<1>10. CASE StagingFails(r)
  <2>1. pc[r] = "staging" /\ pc'[r] = StagingCleanup(r) /\ UNCHANGED <<known, files>>
        /\ Rmtree(<<r, "logs">>)
    BY <1>t, <1>10 DEF StagingFails, TypeOK
  <2>2. OwnDisk(r) /\ dirs' \subseteq dirs /\ ~Cleanable(r, "logs")'
    BY <1>t, <1>k, <2>1, OwnDiskSteps
  <2>3. \A k \in Kind : Cleanable(r, k)' => Tracked(r, k)'
    BY <1>b, <2>1, <2>2 DEF Tracked, Bookkept, Cleanable, OwnDisk, StagingCleanup
  <2>4. Bookkept(r)'
    BY <1>b, <2>1, <2>2 DEF Bookkept, StagingCleanup
  <2> QED
    BY <1>1, <2>1, <2>2, <2>3, <2>4
<1>11. CASE DropIssueDir(r)
  <2>1. pc[r] = "dropIssue" /\ pc'[r] = "finally" /\ UNCHANGED <<known, files>>
        /\ Rmtree(<<r, "issue">>)
    BY <1>t, <1>11 DEF DropIssueDir, TypeOK
  <2>2. OwnDisk(r) /\ dirs' \subseteq dirs /\ ~Cleanable(r, "issue")'
    BY <1>t, <1>k, <2>1, OwnDiskSteps
  <2>3. \A k \in Kind : ~Cleanable(r, k)'
    BY <1>b, <2>1, <2>2 DEF Tracked, Bookkept, Cleanable, OwnDisk
  <2>4. Bookkept(r)'
    BY <1>b, <2>1, <2>2 DEF Bookkept
  <2> QED
    BY <1>1, <2>1, <2>2, <2>3, <2>4
<1>12. CASE MakeDirFails(r)
  <2>1. /\ UNCHANGED <<known, files, diskVars>>
        /\ pc[r] = "mkStage" => pc'[r] = StagingCleanup(r)
        /\ pc[r] # "mkStage" => pc[r] \in {"mkIssue", "mkArchive"} /\ pc'[r] = "finally"
    BY <1>t, <1>12 DEF MakeDirFails, TypeOK
  <2>2. \A k \in Kind : Cleanable(r, k)' => Tracked(r, k)'
    BY <1>b, <1>c, <2>1 DEF Tracked, Bookkept, StagingCleanup, Cleanable
  <2>3. Bookkept(r)'
    BY <1>b, <2>1 DEF Bookkept, StagingCleanup
  <2> QED
    BY <1>t, <1>1, <1>k, <2>1, <2>2, <2>3, OwnDiskSteps
<1>13. CASE MakeArchiveDir(r)
  <2>1. pc[r] = "mkArchive" /\ pc'[r] = "openZip" /\ UNCHANGED <<known, files, stuck, leaked>>
        /\ MakeDir(<<r, "archive">>) /\ dirs' = dirs \cup {<<r, "archive">>}
    BY <1>t, <1>13 DEF MakeArchiveDir, MakeDir, TypeOK
  <2>2. \A k \in Kind : Cleanable(r, k)' => Tracked(r, k)'
    BY <1>b, <2>1 DEF Tracked, Bookkept, Cleanable
  <2>3. Bookkept(r)'
    BY <1>b, <2>1 DEF Bookkept
  <2> QED
    BY <1>t, <1>1, <1>k, <2>1, <2>2, <2>3, OwnDiskSteps
<1>14. CASE OpenZip(r)
  <2>1. pc[r] = "openZip" /\ pc'[r] = "zipping" /\ UNCHANGED <<known, files, dirs, stuck, leaked>>
        /\ Put(<<r, "archive">>, "zip")
    BY <1>t, <1>14 DEF OpenZip, Put, TypeOK
  <2>2. \A k \in Kind : Cleanable(r, k)' => Tracked(r, k)'
    BY <1>b, <2>1 DEF Tracked, Cleanable
  <2>3. Bookkept(r)'
    BY <1>b, <2>1 DEF Bookkept
  <2> QED
    BY <1>t, <1>1, <1>k, <2>1, <2>2, <2>3, OwnDiskSteps
<1>15. CASE ZipFile(r)
  <2>1. UNCHANGED <<pc, known, files, diskVars>>
    BY <1>15 DEF ZipFile
  <2>2. \A k \in Kind : Cleanable(r, k)' => Tracked(r, k)'
    BY <1>b, <1>c, <2>1 DEF Tracked
  <2>3. Bookkept(r)'
    BY <1>b, <2>1 DEF Bookkept
  <2> QED
    BY <1>t, <1>1, <1>k, <2>1, <2>2, <2>3, OwnDiskSteps
<1>16. CASE ZipDone(r)
  <2>1. pc[r] = "zipping" /\ pc'[r] = "pin" /\ UNCHANGED <<files, diskVars>>
        /\ known'[r] = known[r] \cup {"archive"}
        /\ \A q \in Report \ {r} : known'[q] = known[q]
    BY <1>t, <1>16 DEF ZipDone, TypeOK
  <2>2. \A k \in Kind : Cleanable(r, k)' => Tracked(r, k)'
    BY <1>b, <1>c, <2>1 DEF Tracked
  <2>3. Bookkept(r)'
    BY <1>b, <2>1 DEF Bookkept
  <2> QED
    BY <1>t, <1>1, <1>k, <2>1, <2>2, <2>3, OwnDiskSteps
<1>17. CASE ZipFails(r)
  <2>1. pc[r] \in {"openZip", "zipping"} /\ pc'[r] = "finally" /\ UNCHANGED <<known, files>>
        /\ Rmtree(<<r, "archive">>)
    BY <1>t, <1>17 DEF ZipFails, TypeOK
  <2>2. OwnDisk(r) /\ dirs' \subseteq dirs /\ ~Cleanable(r, "archive")'
    BY <1>t, <1>k, <2>1, OwnDiskSteps
  <2>3. \A k \in Kind : Cleanable(r, k)' => Tracked(r, k)'
    BY <1>b, <2>1, <2>2 DEF Tracked, Cleanable, OwnDisk
  <2>4. Bookkept(r)'
    BY <1>b, <2>1, <2>2 DEF Bookkept
  <2> QED
    BY <1>1, <2>1, <2>2, <2>3, <2>4
<1>18. CASE Pin(r) \/ PinFails(r) \/ Enqueue(r)
  <2>1. pc[r] \in {"pin", "enqueue"} /\ pc'[r] \in {"enqueue", "finally"}
        /\ UNCHANGED <<known, files, diskVars>>
    BY <1>t, <1>18 DEF Pin, PinReturned, PinFails, PinRaised, Enqueue, TypeOK
  <2>2. \A k \in Kind : Cleanable(r, k)' => Tracked(r, k)'
    BY <1>b, <1>c, <2>1 DEF Tracked
  <2>3. Bookkept(r)'
    BY <1>b, <2>1 DEF Bookkept
  <2> QED
    BY <1>t, <1>1, <1>k, <2>1, <2>2, <2>3, OwnDiskSteps
<1>19. CASE DeleteDir(r)
  <2>1. PICK kind \in Kind : /\ Rmtree(<<r, kind>>)
                             /\ known' = [known EXCEPT ![r] = @ \ {kind}]
    BY <1>t, <1>19 DEF DeleteDir, ToDelete, TypeOK
  <2>2. pc[r] = "finally" /\ UNCHANGED <<pc, files>> /\ known'[r] = known[r] \ {kind}
        /\ \A q \in Report \ {r} : known'[q] = known[q]
    BY <1>t, <1>19, <2>1 DEF DeleteDir, TypeOK
  <2>3. OwnDisk(r) /\ dirs' \subseteq dirs /\ ~Cleanable(r, kind)'
    BY <1>t, <2>1, OwnDiskSteps
  <2>4. \A k \in Kind : Cleanable(r, k)' => Tracked(r, k)'
    BY <1>b, <2>2, <2>3 DEF Tracked, Cleanable, OwnDisk
  <2>5. Bookkept(r)'
    BY <1>b, <2>2, <2>3 DEF Bookkept
  <2> QED
    BY <1>1, <2>2, <2>3, <2>4, <2>5
<1> QED
  BY <1>2, <1>3, <1>4, <1>5, <1>6, <1>7, <1>8, <1>9, <1>10, <1>11, <1>12, <1>13, <1>14,
     <1>15, <1>16, <1>17, <1>18, <1>19 DEF JobStep

LEMMA AccountedStep == Typed /\ Accounted /\ [Next]_vars => Accounted'
<1> SUFFICES ASSUME Typed, Accounted, [Next]_vars PROVE Accounted'
  OBVIOUS
<1> USE DEF entryVars, diskVars, callVars, workVars, outVars
<1>t. TypeOK
  BY DEF Typed
<1>1. ASSUME NEW r \in Report, JobStep(r) PROVE Accounted'
  BY <1>1, AccountedJob
<1>0. ASSUME UNCHANGED <<pc, known, files, dirs, inside, leaked>>, stuck \subseteq stuck',
             \A r \in Report, k \in Kind : Cleanable(r, k)' /\ Awaited(r, k) => Awaited(r, k)'
      PROVE  Accounted'
  <2>1. \A r \in Report, k \in Kind : Cleanable(r, k)' => Cleanable(r, k)
    BY <1>0 DEF Cleanable
  <2>2. \A r \in Report : Bookkept(r)'
    BY <1>0 DEF Accounted, Bookkept
  <2> QED
    BY <1>0, <2>1, <2>2 DEF Accounted, Tracked
<1>2. CASE RotateLog \/ RemoveLogs \/ UNCHANGED vars
  <2>1. UNCHANGED <<pc, known, files, dirs, inside, stuck, leaked>> /\ UNCHANGED entryVars
    BY <1>2 DEF RotateLog, RemoveLogs, vars
  <2> QED
    BY <1>0, <2>1 DEF Awaited
<1>3. ASSUME NEW r \in Report, Call(r) \/ Acquire(r) \/ Finish(r) PROVE Accounted'
  <2>1. /\ UNCHANGED <<known, files, entryVars, diskVars>>
        /\ \A q \in Report \ {r} : pc'[q] = pc[q]
        /\ \/ pc[r] \in {"idle", "lock"} /\ pc'[r] \in {"lock", "collect"}
           \/ pc[r] = "finally" /\ pc'[r] = "done" /\ known[r] = {}
    BY <1>t, <1>3 DEF Call, Acquire, Finish, ToDelete, Goto, TypeOK
  <2>2. \A k \in Kind : Cleanable(r, k)' <=> Cleanable(r, k)
    BY <2>1 DEF Cleanable
  <2>3. \A k \in Kind : ~Cleanable(r, k)
    BY <2>1 DEF Accounted, Tracked, Awaited, Bookkept
  <2>4. Bookkept(r)'
    BY <2>1 DEF Accounted, Bookkept
  <2>5. pc[r] # "dead" /\ OwnDisk(r)
    BY <2>1 DEF OwnDisk
  <2> QED
    BY <2>1, <2>2, <2>3, <2>4, <2>5, AccountedFrame
<1>5. CASE Unload \/ Setup
  BY <1>0, <1>5 DEF Unload, Setup, Awaited, Cleanable
<1>6. CASE ListTempDirs
  BY <1>0, <1>6 DEF ListTempDirs, Awaited, Cleanable
<1>7. CASE SweepOpens
  <2>1. PICK d \in sweep : /\ rmdir' = d /\ todo' = inside[d] /\ sweep' = sweep \ {d}
    BY <1>7 DEF SweepOpens
  <2>2. /\ UNCHANGED <<pc, known, files, dirs, inside, leaked, stuck, entry>>
        /\ rmdir = NoDir /\ \A r \in Report, k \in Kind : <<r, k>> # NoDir
    BY <1>7 DEF SweepOpens, NoDir
  <2>3. \A r \in Report, k \in Kind : Awaited(r, k) => Awaited(r, k)'
    BY <2>1, <2>2 DEF Awaited
  <2> QED
    BY <1>0, <2>2, <2>3
<1>8. CASE Loaded
  <2>1. sweep = {} /\ rmdir = NoDir /\ \A r \in Report, k \in Kind : <<r, k>> # NoDir
    BY <1>8 DEF Loaded, SweepOver, NoDir
  <2> QED
    BY <1>0, <1>8, <2>1 DEF Loaded, Awaited, Cleanable
<1>9. CASE SweepUnlinks
  <2>1. PICK f \in todo : /\ todo' = todo \ {f}
                          /\ inside' = [inside EXCEPT ![rmdir] = @ \ {f}]
    BY <1>9 DEF SweepUnlinks
  <2>2. UNCHANGED <<pc, known, files, dirs, stuck, leaked, entry, sweep, rmdir>>
    BY <1>9 DEF SweepUnlinks
  <2>3. \A r \in Report, k \in Kind :
          rmdir = <<r, k>> => inside'[<<r, k>>] = inside[<<r, k>>] \ {f}
    BY <1>t, <2>1 DEF TypeOK, Dir
  <2>4. \A r \in Report, k \in Kind : Awaited(r, k) => Awaited(r, k)'
    BY <2>1, <2>2, <2>3 DEF Awaited
  <2>5. \A r \in Report, k \in Kind : Cleanable(r, k)' => Cleanable(r, k)
    BY <2>2 DEF Cleanable
  <2> QED
    BY <2>2, <2>4, <2>5 DEF Accounted, Tracked, Bookkept
<1>10. CASE SweepRemoves
  <2>1. /\ UNCHANGED <<pc, known, files, inside, leaked, entry, sweep>>
        /\ stuck \subseteq stuck' /\ dirs' \subseteq dirs
        /\ rmdir \in stuck' \/ (todo = {} /\ (inside[rmdir] = {} => rmdir \notin dirs'))
    BY <1>10 DEF SweepRemoves, NextInSweep
  <2>2. ASSUME NEW r \in Report, NEW k \in Kind, Cleanable(r, k)'
        PROVE  Cleanable(r, k) /\ (Awaited(r, k) => Awaited(r, k)')
    BY <2>1, <2>2 DEF Cleanable, Awaited
  <2>3. \A r \in Report : Bookkept(r)'
    BY <2>1 DEF Accounted, Bookkept, Kind
  <2> QED
    BY <2>1, <2>2, <2>3 DEF Accounted, Tracked
<1>11. CASE Crash
  <2>1. /\ entry' = "unloaded" /\ UNCHANGED <<files, dirs, stuck, leaked>>
        /\ \A r \in Report : known'[r] = {}
        /\ \A r \in Report : IF InProgress(r) THEN pc'[r] = "dead" ELSE pc'[r] = pc[r]
    BY <1>11 DEF Crash
  <2>2. \A r \in Report, k \in Kind : Tracked(r, k) => InProgress(r)
    BY DEF Tracked, Accounted, Bookkept, InProgress, Active, Waiting, Working
  <2>3. ASSUME NEW r \in Report, NEW k \in Kind, Cleanable(r, k)' PROVE Awaited(r, k)'
    <3>1. Cleanable(r, k)
      BY <2>1, <2>3 DEF Cleanable
    <3>2. InProgress(r) \/ pc[r] = "dead"
      BY <2>2, <3>1 DEF Accounted, Awaited
    <3>3. pc'[r] = "dead"
      BY <2>1, <3>2
    <3> QED
      BY <2>1, <3>3 DEF Awaited
  <2>4. \A r \in Report : Bookkept(r)'
    BY <2>1 DEF Accounted, Bookkept, InProgress, Active, Waiting, Working
  <2> QED
    BY <2>3, <2>4 DEF Accounted
<1> QED
  BY <1>1, <1>2, <1>3, <1>5, <1>6, <1>7, <1>8, <1>9, <1>10, <1>11
     DEF Next, ReportStep, JobStep, SetupStep, Quiescent

\* Every directory left behind is one whose report is under way, or died with
\* the process before a sweep; whatever fails, in whatever order.
THEOREM NoDirIsForgotten == Spec => []NoOrphanDirs
<1>1. Init => Typed /\ Accounted
  BY TypedInit, AccountedInit
<1>2. Typed /\ Accounted /\ [Next]_vars => (Typed /\ Accounted)'
  BY TypeStep, LockStep, LogsStep, SetupHeldStep, AccountedStep DEF Typed
<1>3. Typed /\ Accounted => NoOrphanDirs
  <2> SUFFICES ASSUME Typed, Accounted, NEW d \in dirs \ (stuck \cup leaked)
               PROVE  InProgress(d[1]) \/ (pc[d[1]] = "dead" /\ entry # "loaded")
    BY DEF NoOrphanDirs
  <2>1. PICK r \in Report, k \in Kind : d = <<r, k>>
    BY DEF Typed, TypeOK, Dir
  <2>2. Tracked(r, k) \/ Awaited(r, k)
    BY <2>1 DEF Accounted, Cleanable
  <2>3. Tracked(r, k) => InProgress(r)
    BY DEF Tracked, Accounted, Bookkept, InProgress, Active, Waiting, Working
  <2> QED
    BY <2>1, <2>2, <2>3 DEF Awaited
<1> QED
  BY <1>1, <1>2, <1>3, PTL DEF Spec
-----------------------------------------------------------------------------
(* What a report that no sweep came across holds. *)

\* From step to step the files of the report are accounted for.
Held(r) ==
  /\ pc[r] \in {"idle", "lock", "collect", "collectRest", "mkIssue", "writeIssue", "mkStage"} =>
       inside[<<r, "logs">>] = {} /\ content[r] = {}
  /\ pc[r] = "staging" => inside[<<r, "logs">>] \cup work[r] = files[r] /\ content[r] = {}
  /\ pc[r] \in {"mkArchive", "openZip"} =>
       inside[<<r, "logs">>] = files[r] /\ content[r] = {}
  /\ pc[r] = "zipping" => content[r] \cup work[r] = files[r]
  /\ pc[r] \in {"pin", "enqueue"} \/ result[r] = "ok" => content[r] = files[r]

\* A sweep meets only directories of reports that have begun, and what it
\* opens while its report is in progress is disturbed.
Swept(r) ==
  \A k \in Kind :
    /\ <<r, k>> \in dirs \/ <<r, k>> \in sweep \/ rmdir = <<r, k>> => pc[r] # "idle"
    /\ rmdir = <<r, k>> /\ InProgress(r) => r \in disturbed

Whole == \A r \in Report : (r \in disturbed \/ Held(r)) /\ Swept(r)

LEMMA WholeInit == Init => Whole
<1> SUFFICES ASSUME Init, NEW r \in Report PROVE Held(r) /\ Swept(r)
  BY DEF Whole
<1>1. <<r, "logs">> \in Dir /\ \A k \in Kind : <<r, k>> # NoDir
  BY DEF Dir, Kind, NoDir
<1> QED
  BY <1>1 DEF Init, Held, Swept

LEMMA WholeFrame ==
  ASSUME Typed, Whole, NEW r \in Report, OwnDisk(r), UNCHANGED <<entryVars, disturbed>>,
         \A q \in Report \ {r} :
           UNCHANGED <<pc[q], result[q], files[q], work[q], content[q]>>,
         r \in disturbed \/ Held(r)', Swept(r)'
  PROVE  Whole'
<1> SUFFICES ASSUME NEW q \in Report, q # r
             PROVE  (q \in disturbed \/ Held(q)') /\ Swept(q)'
  BY DEF Whole
<1>1. inside'[<<q, "logs">>] = inside[<<q, "logs">>]
  BY DEF OwnDisk, Kind
<1>2. q \in disturbed \/ Held(q)'
  BY <1>1 DEF Whole, Held
<1>3. Swept(q)'
  BY DEF Whole, Swept, OwnDisk, InProgress, entryVars
<1> QED
  BY <1>2, <1>3

LEMMA WholeJob ==
  ASSUME Typed, Handed, Whole, NEW r \in Report, JobStep(r)
  PROVE  Whole'
<1> USE DEF entryVars, diskVars, callVars, workVars, outVars, Goto, Raise
<1>t. TypeOK
  BY DEF Typed
<1>k. "logs" \in Kind /\ "archive" \in Kind /\ "issue" \in Kind
  BY DEF Kind
<1>d. /\ <<r, "logs">> \in Dir /\ <<r, "archive">> \in Dir /\ <<r, "issue">> \in Dir
      /\ <<r, "archive">> # <<r, "logs">> /\ <<r, "issue">> # <<r, "logs">>
  BY <1>k DEF Dir
<1>w. /\ pc[r] \in Working /\ pc'[r] \in Working /\ UNCHANGED entryVars
      /\ \A q \in Report \ {r} : pc'[q] = pc[q]
  BY JobShape
<1>p. pc[r] # "idle" /\ pc'[r] # "idle" /\ InProgress(r)
  BY <1>w DEF Working, InProgress, Active
<1>n. pc[r] # "finally" => result[r] # "ok"
  BY <1>w DEF Handed, Active
<1>s. ASSUME UNCHANGED disturbed PROVE Swept(r)'
  BY <1>s, <1>p, <1>w DEF Whole, Swept
<1>1. ASSUME OwnDisk(r), UNCHANGED disturbed, Held(r) => Held(r)',
             \A q \in Report \ {r} : UNCHANGED <<result[q], files[q], work[q], content[q]>>
      PROVE  Whole'
  BY <1>1, <1>s, <1>w, WholeFrame DEF Whole
<1>2. CASE ListLog(r) \/ CollectFiles(r)
  <2>1. /\ pc[r] \in {"collect", "collectRest"}
        /\ pc'[r] \in {"collectRest", "mkIssue", "mkStage", "finally"}
        /\ result'[r] # "ok" /\ UNCHANGED <<work, content, diskVars>>
        /\ \A q \in Report \ {r} : files'[q] = files[q] /\ result'[q] = result[q]
    BY <1>t, <1>n, <1>2 DEF ListLog, CollectFiles, TypeOK
  <2>2. Held(r) => Held(r)'
    BY <2>1 DEF Held
  <2> QED
    BY <1>t, <1>k, <1>1, <2>1, <2>2, OwnDiskSteps
<1>3. CASE MakeIssueDir(r) \/ MakeArchiveDir(r)
  <2>1. /\ (pc[r] = "mkIssue" /\ pc'[r] = "writeIssue") \/ (pc[r] = "mkArchive" /\ pc'[r] = "openZip")
        /\ UNCHANGED <<work, content, files, result, inside, disturbed>> /\ OwnDisk(r)
    BY <1>t, <1>k, <1>3, OwnDiskSteps DEF MakeIssueDir, MakeArchiveDir, MakeDir, TypeOK
  <2>2. Held(r) => Held(r)'
    BY <1>n, <2>1 DEF Held
  <2> QED
    BY <1>1, <2>1, <2>2
<1>4. CASE WriteIssue(r)
  <2>1. /\ pc[r] = "writeIssue" /\ pc'[r] = "mkStage"
        /\ UNCHANGED <<work, content, result, disturbed>> /\ OwnDisk(r)
        /\ inside'[<<r, "logs">>] = inside[<<r, "logs">>]
        /\ \A q \in Report \ {r} : files'[q] = files[q]
    BY <1>t, <1>k, <1>d, <1>4, OwnDiskSteps DEF WriteIssue, Put, TypeOK
  <2>2. Held(r) => Held(r)'
    BY <1>n, <2>1 DEF Held
  <2> QED
    BY <1>1, <2>1, <2>2
<1>5. ASSUME pc'[r] \in {"dropIssue", "finally"}, result'[r] # "ok",
             UNCHANGED disturbed, OwnDisk(r),
             \A q \in Report \ {r} : UNCHANGED <<result[q], files[q], work[q], content[q]>>
      PROVE  Whole'
  <2>1. Held(r)'
    BY <1>5 DEF Held
  <2> QED
    BY <1>1, <1>5, <2>1
<1>6. CASE WriteIssueFails(r) \/ WriteIssueEscapes(r)
  <2>1. OwnDisk(r)
    BY <1>t, <1>k, <1>6, OwnDiskSteps DEF WriteIssueFails, WriteIssueEscapes, OwnDisk
  <2> QED
    BY <1>t, <1>5, <1>6, <2>1 DEF WriteIssueFails, WriteIssueEscapes, Rmtree, TypeOK
<1>7. CASE StagingFails(r)
  <2>1. OwnDisk(r)
    BY <1>t, <1>k, <1>7, OwnDiskSteps DEF StagingFails
  <2> QED
    BY <1>t, <1>5, <1>7, <2>1 DEF StagingFails, StagingCleanup, Rmtree, TypeOK
<1>8. CASE DropIssueDir(r)
  <2>1. OwnDisk(r)
    BY <1>t, <1>k, <1>8, OwnDiskSteps DEF DropIssueDir
  <2> QED
    BY <1>t, <1>n, <1>5, <1>8, <2>1 DEF DropIssueDir, Rmtree, TypeOK
<1>9. CASE MakeDirFails(r)
  <2>1. OwnDisk(r)
    BY <1>t, <1>k, <1>9, OwnDiskSteps DEF MakeDirFails
  <2> QED
    BY <1>t, <1>5, <1>9, <2>1 DEF MakeDirFails, StagingCleanup, TypeOK
<1>10. CASE ZipFails(r)
  <2>1. OwnDisk(r)
    BY <1>t, <1>k, <1>10, OwnDiskSteps DEF ZipFails
  <2> QED
    BY <1>t, <1>5, <1>10, <2>1 DEF ZipFails, Rmtree, TypeOK
<1>11. CASE PinFails(r)
  <2>1. OwnDisk(r)
    BY <1>t, <1>k, <1>11, OwnDiskSteps DEF PinFails
  <2> QED
    BY <1>t, <1>5, <1>11, <2>1 DEF PinFails, PinRaised, TypeOK
<1>12. CASE MakeStagingDir(r)
  <2>1. /\ pc[r] = "mkStage" /\ pc'[r] = "staging" /\ work'[r] = files[r]
        /\ UNCHANGED <<content, files, result, inside, disturbed>> /\ OwnDisk(r)
        /\ \A q \in Report \ {r} : work'[q] = work[q]
    BY <1>t, <1>k, <1>12, OwnDiskSteps DEF MakeStagingDir, MakeDir, TypeOK
  <2>2. Held(r) => Held(r)'
    BY <1>n, <2>1 DEF Held
  <2> QED
    BY <1>1, <2>1, <2>2
<1>13. CASE StageFile(r)
  <2>1. PICK f \in work[r] : /\ Put(<<r, "logs">>, f)
                             /\ work' = [work EXCEPT ![r] = @ \ {f}]
    BY <1>13 DEF StageFile
  <2>2. /\ pc[r] = "staging" /\ UNCHANGED <<pc, content, files, result, disturbed>>
        /\ inside'[<<r, "logs">>] = inside[<<r, "logs">>] \cup {f}
        /\ work'[r] = work[r] \ {f} /\ \A q \in Report \ {r} : work'[q] = work[q]
    BY <1>t, <1>d, <1>13, <2>1 DEF StageFile, Put, TypeOK
  <2>3. Held(r) => Held(r)'
    BY <1>n, <2>2 DEF Held
  <2> QED
    BY <1>t, <1>k, <1>1, <2>1, <2>2, <2>3, OwnDiskSteps
<1>14. CASE StagingDone(r)
  <2>1. /\ pc[r] = "staging" /\ pc'[r] = "mkArchive" /\ work[r] = {}
        /\ UNCHANGED <<work, content, files, result, diskVars>>
    BY <1>t, <1>14 DEF StagingDone, TypeOK
  <2>2. Held(r) => Held(r)'
    BY <1>n, <2>1 DEF Held
  <2> QED
    BY <1>t, <1>k, <1>1, <2>1, <2>2, OwnDiskSteps
<1>15. CASE OpenZip(r)
  <2>1. /\ pc[r] = "openZip" /\ pc'[r] = "zipping" /\ work'[r] = inside[<<r, "logs">>]
        /\ UNCHANGED <<content, files, result, disturbed>> /\ OwnDisk(r)
        /\ \A q \in Report \ {r} : work'[q] = work[q]
    BY <1>t, <1>k, <1>15, OwnDiskSteps DEF OpenZip, Put, TypeOK
  <2>2. Held(r) => Held(r)'
    BY <1>n, <2>1 DEF Held
  <2> QED
    BY <1>1, <2>1, <2>2
<1>16. CASE ZipFile(r)
  <2>1. PICK f \in work[r] : /\ content' = [content EXCEPT ![r] = @ \cup {f}]
                             /\ work' = [work EXCEPT ![r] = @ \ {f}]
    BY <1>16 DEF ZipFile
  <2>2. /\ pc[r] = "zipping" /\ UNCHANGED <<pc, files, result, diskVars>>
        /\ content'[r] = content[r] \cup {f} /\ work'[r] = work[r] \ {f}
        /\ \A q \in Report \ {r} : work'[q] = work[q] /\ content'[q] = content[q]
    BY <1>t, <1>16, <2>1 DEF ZipFile, TypeOK
  <2>3. Held(r) => Held(r)'
    BY <1>n, <2>2 DEF Held
  <2> QED
    BY <1>t, <1>k, <1>1, <2>2, <2>3, OwnDiskSteps
<1>17. CASE ZipDone(r) \/ Pin(r) \/ Enqueue(r)
  <2>1. /\ \/ pc[r] = "zipping" /\ work[r] = {} /\ pc'[r] = "pin" /\ UNCHANGED result
           \/ pc[r] = "pin" /\ pc'[r] = "enqueue" /\ UNCHANGED result
           \/ pc[r] = "enqueue" /\ pc'[r] = "finally"
              /\ \A q \in Report \ {r} : result'[q] = result[q]
        /\ UNCHANGED <<work, content, files, diskVars>>
    BY <1>t, <1>17 DEF ZipDone, Pin, PinReturned, Enqueue, TypeOK
  <2>2. Held(r) => Held(r)'
    BY <1>n, <2>1 DEF Held
  <2> QED
    BY <1>t, <1>k, <1>1, <2>1, <2>2, OwnDiskSteps
<1>18. CASE DeleteDir(r)
  <2>1. PICK kind \in Kind : Rmtree(<<r, kind>>)
    BY <1>t, <1>18 DEF DeleteDir, ToDelete, TypeOK
  <2>2. pc[r] = "finally" /\ UNCHANGED <<pc, work, content, files, result, disturbed>>
    BY <1>18, <2>1 DEF DeleteDir, Rmtree
  <2>3. Held(r) => Held(r)'
    BY <2>2 DEF Held
  <2> QED
    BY <1>t, <1>1, <2>1, <2>2, <2>3, OwnDiskSteps
<1> QED
  BY <1>2, <1>3, <1>4, <1>6, <1>7, <1>8, <1>9, <1>10, <1>11, <1>12, <1>13, <1>14,
     <1>15, <1>16, <1>17, <1>18 DEF JobStep

LEMMA WholeStep == Typed /\ Handed /\ Whole /\ [Next]_vars => Whole'
<1> SUFFICES ASSUME Typed, Handed, Whole, [Next]_vars PROVE Whole'
  OBVIOUS
<1> USE DEF entryVars, diskVars, callVars, workVars, outVars
<1>t. TypeOK
  BY DEF Typed
<1>l. \A r \in Report : <<r, "logs">> \in Dir
  BY DEF Dir, Kind
<1>1. ASSUME NEW r \in Report, JobStep(r) PROVE Whole'
  BY <1>1, WholeJob
<1>2. CASE RotateLog \/ RemoveLogs \/ Unload \/ Setup \/ Loaded \/ UNCHANGED vars
  <2>1. UNCHANGED <<pc, result, files, work, content, dirs, inside, disturbed, sweep, rmdir>>
    BY <1>2 DEF RotateLog, RemoveLogs, Unload, Setup, Loaded, vars
  <2> QED
    BY <2>1 DEF Whole, Held, Swept, InProgress
<1>3. ASSUME NEW r \in Report, Call(r) \/ Acquire(r) \/ Finish(r) PROVE Whole'
  <2>1. /\ UNCHANGED <<result, files, work, content, diskVars, entryVars>>
        /\ \A q \in Report \ {r} : pc'[q] = pc[q]
        /\ \/ pc[r] \in {"idle", "lock"} /\ pc'[r] \in {"lock", "collect"}
           \/ pc[r] = "finally" /\ pc'[r] = "done"
    BY <1>t, <1>3 DEF Call, Acquire, Finish, Goto, TypeOK
  <2>2. Held(r) => Held(r)'
    BY <2>1 DEF Held
  <2>3. pc'[r] # "idle" /\ (InProgress(r)' => InProgress(r) \/ pc[r] = "idle")
    BY <2>1 DEF InProgress, Active, Waiting, Working
  <2>4. Swept(r)'
    BY <2>1, <2>3 DEF Whole, Swept
  <2>5. OwnDisk(r)
    BY <2>1 DEF OwnDisk
  <2> QED
    BY <2>1, <2>2, <2>4, <2>5, WholeFrame DEF Whole
<1>4. CASE ListTempDirs
  <2>1. /\ UNCHANGED <<pc, result, files, work, content, dirs, inside, disturbed, rmdir>>
        /\ sweep' \subseteq dirs
    BY <1>4 DEF ListTempDirs
  <2> QED
    BY <2>1 DEF Whole, Held, Swept, InProgress
<1>5. CASE SweepOpens
  <2>1. PICK d \in sweep : /\ rmdir' = d /\ sweep' = sweep \ {d}
                           /\ InProgress(d[1]) => d[1] \in disturbed'
    BY <1>5 DEF SweepOpens
  <2>2. /\ UNCHANGED <<pc, result, files, work, content, dirs, inside>>
        /\ disturbed \subseteq disturbed'
    BY <1>5 DEF SweepOpens
  <2>3. \A r \in Report, k \in Kind : d = <<r, k>> => d[1] = r
    OBVIOUS
  <2>4. \A r \in Report : Swept(r)'
    BY <2>1, <2>2, <2>3 DEF Whole, Swept, InProgress
  <2> QED
    BY <2>2, <2>4 DEF Whole, Held
<1>6. CASE SweepUnlinks
  <2>1. /\ UNCHANGED <<pc, result, files, work, content, dirs, disturbed, sweep, rmdir>>
        /\ \A d \in Dir \ {rmdir} : inside'[d] = inside[d]
    BY <1>t, <1>6 DEF SweepUnlinks, TypeOK
  <2>2. ASSUME NEW r \in Report, r \notin disturbed PROVE Held(r)'
    <3>1. CASE rmdir = <<r, "logs">>
      <4>1. pc[r] \notin Active /\ pc[r] # "idle"
        BY <2>2, <3>1 DEF Whole, Swept, InProgress, Kind
      <4> QED
        BY <2>1, <2>2, <4>1 DEF Whole, Held, Active, Waiting, Working
    <3>2. CASE rmdir # <<r, "logs">>
      <4>1. inside'[<<r, "logs">>] = inside[<<r, "logs">>]
        BY <1>l, <2>1, <3>2
      <4> QED
        BY <2>1, <2>2, <4>1 DEF Whole, Held
    <3> QED
      BY <3>1, <3>2
  <2>3. \A r \in Report : Swept(r)'
    BY <2>1 DEF Whole, Swept, InProgress
  <2> QED
    BY <2>1, <2>2, <2>3 DEF Whole
<1>7. CASE SweepRemoves
  <2>1. /\ UNCHANGED <<pc, result, files, work, content, inside, disturbed, sweep>>
        /\ dirs' \subseteq dirs /\ rmdir' = NoDir
    BY <1>7 DEF SweepRemoves, NextInSweep
  <2>2. \A r \in Report, k \in Kind : <<r, k>> # NoDir
    BY DEF NoDir
  <2> QED
    BY <2>1, <2>2 DEF Whole, Held, Swept, InProgress
<1>8. CASE Crash
  <2>1. /\ UNCHANGED <<result, files, content, dirs, inside, disturbed>>
        /\ sweep' = {} /\ rmdir' = NoDir
        /\ \A r \in Report : IF InProgress(r) THEN pc'[r] = "dead" ELSE pc'[r] = pc[r]
    BY <1>8 DEF Crash
  <2>2. \A r \in Report, k \in Kind : <<r, k>> # NoDir
    BY DEF NoDir
  <2>3. ASSUME NEW r \in Report, Held(r) PROVE Held(r)'
    BY <2>1, <2>3 DEF Held, InProgress, Active, Waiting, Working
  <2>4. \A r \in Report : Swept(r)'
    BY <2>1, <2>2 DEF Whole, Swept, InProgress, Active, Waiting
  <2> QED
    BY <2>1, <2>3, <2>4 DEF Whole
<1> QED
  BY <1>1, <1>2, <1>3, <1>4, <1>5, <1>6, <1>7, <1>8
     DEF Next, ReportStep, JobStep, SetupStep, Quiescent

\* A report belongs to the present instance or to an earlier one, during a
\* set-up to an earlier one, and so does one that a sweep came across.
Elders ==
  /\ \A r \in Report : pc[r] # "idle" =>
       /\ owner[r] <= instance
       /\ entry \in {"listing", "sweeping"} => owner[r] < instance
  /\ \A r \in disturbed : pc[r] # "idle" /\ owner[r] < instance

LEMMA EldersStep == Typed /\ Elders /\ [Next]_vars => Elders'
<1> SUFFICES ASSUME Typed, Elders, [Next]_vars PROVE Elders'
  OBVIOUS
<1> USE DEF entryVars, diskVars, callVars, workVars, outVars
<1>t. TypeOK /\ SetupHeld /\ instance \in Nat /\ \A r \in Report : owner[r] \in Nat
  BY NumInstancesAssumption DEF Typed, TypeOK
<1>1. ASSUME UNCHANGED <<instance, owner, disturbed>>,
             entry' = entry \/ entry' \in {"loaded", "unloaded"},
             \A q \in Report : pc'[q] # "idle" <=> pc[q] # "idle"
      PROVE  Elders'
  BY <1>t, <1>1 DEF Elders, TypeOK
<1>2. ASSUME NEW r \in Report, ReportStep(r) PROVE Elders'
  <2>1. UNCHANGED <<entryVars, owner>>
    BY <1>2, JobShape DEF ReportStep, JobStep, Acquire, Finish
  <2>2. UNCHANGED disturbed
    BY <1>2 DEF ReportStep, Acquire, Finish, ListLog, CollectFiles, MakeIssueDir, WriteIssue,
          WriteIssueFails, WriteIssueEscapes, MakeStagingDir, StageFile, StagingDone,
          StagingFails, StagingCleanup, DropIssueDir, MakeDirFails, MakeArchiveDir, OpenZip,
          ZipFile, ZipDone, ZipFails, Pin, PinFails, Enqueue, DeleteDir, MakeDir, Put, Rmtree
  <2>3. pc[r] # "idle" /\ pc'[r] # "idle" /\ \A q \in Report \ {r} : pc'[q] = pc[q]
    <3>1. CASE Acquire(r) \/ Finish(r)
      BY <1>t, <3>1 DEF Acquire, Finish, Goto, TypeOK
    <3>2. CASE JobStep(r)
      BY <3>2, JobShape DEF Working
    <3> QED
      BY <1>2, <3>1, <3>2 DEF ReportStep, JobStep
  <2> QED
    BY <1>1, <2>1, <2>2, <2>3
<1>3. ASSUME NEW r \in Report, Call(r) PROVE Elders'
  <2>1. /\ entry = "loaded" /\ pc[r] = "idle" /\ pc' = [pc EXCEPT ![r] = "lock"]
        /\ owner' = [owner EXCEPT ![r] = instance]
        /\ UNCHANGED <<entry, instance, disturbed>>
    BY <1>3 DEF Call, Goto
  <2> QED
    BY <1>t, <2>1 DEF Elders, TypeOK
<1>4. CASE RotateLog \/ RemoveLogs \/ Unload \/ Loaded \/ SweepUnlinks \/ SweepRemoves \/ UNCHANGED vars
  <2>1. /\ UNCHANGED <<instance, owner, disturbed, pc>>
        /\ entry' = entry \/ entry' \in {"loaded", "unloaded"}
    BY <1>4 DEF RotateLog, RemoveLogs, Unload, Loaded, SweepUnlinks, SweepRemoves, vars
  <2> QED
    BY <1>1, <2>1
<1>5. CASE Setup
  <2>1. instance' = instance + 1 /\ UNCHANGED <<owner, disturbed, pc>>
    BY <1>5 DEF Setup
  <2> QED
    BY <1>t, <2>1 DEF Elders, TypeOK
<1>6. CASE ListTempDirs
  <2>1. /\ entry = "listing" /\ entry' = "sweeping"
        /\ UNCHANGED <<instance, owner, disturbed, pc>>
    BY <1>6 DEF ListTempDirs
  <2> QED
    BY <2>1 DEF Elders
<1>7. CASE SweepOpens
  <2>1. PICK d \in sweep :
          disturbed' = IF InProgress(d[1]) THEN disturbed \cup {d[1]} ELSE disturbed
    BY <1>7 DEF SweepOpens
  <2>2. entry = "sweeping" /\ UNCHANGED <<entry, instance, owner, pc>>
    BY <1>t, <1>7, <2>1 DEF SweepOpens, SetupHeld
  <2>3. d[1] \in Report /\ (InProgress(d[1]) => pc[d[1]] # "idle")
    BY <1>t, <2>1, DirsOf DEF TypeOK, Dir, InProgress, Active, Waiting, Working
  <2> QED
    BY <2>1, <2>2, <2>3 DEF Elders
<1>8. CASE Crash
  <2>1. /\ entry' = "unloaded" /\ UNCHANGED <<instance, owner, disturbed>>
        /\ \A q \in Report : pc'[q] # "idle" <=> pc[q] # "idle"
    BY <1>8 DEF Crash, InProgress, Active, Waiting, Working
  <2> QED
    BY <1>1, <2>1
<1> QED
  BY <1>2, <1>3, <1>4, <1>5, <1>6, <1>7, <1>8 DEF Next, SetupStep, Quiescent

-----------------------------------------------------------------------------
(* Which log files a report reads while they are rotated. *)

\* The log is younger than the backup, and paths only get younger files.
InOrder ==
  /\ version["backup"] <= version["log"]
  /\ "log" \in present => version["backup"] < version["log"]
  /\ \A r \in Report, f \in LogPath : listed[r][f] <= version[f]

\* r has read all that it will read at the path f.
Past(r, f) ==
  \/ result[r] = "ok" \/ pc[r] \in {"mkArchive", "openZip", "zipping", "pin", "enqueue"}
  \/ pc[r] = "staging" /\ f \notin work[r]

\* The log that was listed has been read, or is the log no more when the path is
\* read, and then it is not missed if there is a backup to read: it is that
\* backup, or a later one is.
Followed(r) ==
  /\ "log" \in files[r] /\ Past(r, "log") =>
       copy[r]["log"] = listed[r]["log"] \/ listed[r]["log"] < version["log"]
  /\ "backup" \in files[r] /\ Past(r, "backup") =>
       /\ copy[r]["backup"] = listed[r]["backup"] \/ listed[r]["backup"] < version["backup"]
       /\ "log" \in files[r] =>
            \/ listed[r]["log"] \in {copy[r]["log"], copy[r]["backup"]}
            \/ listed[r]["log"] < version["log"] /\ listed[r]["log"] # version["backup"]
  /\ pc[r] = "staging" /\ "backup" \in files[r] /\ "log" \in work[r] => "backup" \in work[r]

Versions == InOrder /\ \A r \in Report : Followed(r)

LEMMA VersionsInit == Init => Versions
<1> SUFFICES ASSUME Init PROVE Versions
  OBVIOUS
<1>1. InOrder
  <2>1. "log" \notin present /\ version["log"] = 0 /\ version["backup"] = 0
    BY SavedAssumption DEF Init, LogPath
  <2>2. \A r \in Report, f \in LogPath : listed[r][f] = 0 /\ version[f] = 0
    BY DEF Init
  <2> QED
    BY <2>1, <2>2 DEF InOrder
<1>2. ASSUME NEW r \in Report PROVE Followed(r)
  <2>1. pc[r] = "idle" /\ result[r] = "none" /\ files[r] = {}
    BY DEF Init
  <2> QED
    BY <2>1 DEF Followed
<1> QED
  BY <1>1, <1>2 DEF Versions

LEMMA VersionsTyped ==
  ASSUME TypeOK, NEW r \in Report
  PROVE  /\ "log" \in LogPath /\ "backup" \in LogPath
         /\ \A f \in LogPath :
              version[f] \in Nat /\ listed[r][f] \in Nat /\ copy[r][f] \in Nat
BY BoundsAssumption DEF TypeOK, LogsTypeOK, LogPath

\* A report that has not finished reading has nothing to show.
LEMMA NothingRead ==
  ASSUME NEW r \in Report, result'[r] # "ok",
         pc'[r] \notin {"staging", "mkArchive", "openZip", "zipping", "pin", "enqueue"}
  PROVE  Followed(r)'
BY DEF Followed, Past

\* Neither rotation nor a step that reads nothing changes what was read.
LEMMA FollowedStays ==
  ASSUME TypeOK, Versions, NEW r \in Report, UNCHANGED <<files[r], listed[r], copy[r]>>,
         version'["log"] \in Nat, version["log"] <= version'["log"],
         version'["backup"] \in {version["backup"], version["log"]},
         \A f \in LogPath : Past(r, f)' => Past(r, f),
         pc'[r] = "staging" => pc[r] = "staging" /\ work'[r] = work[r]
  PROVE  Followed(r)'
<1> DEFINE l == listed[r]["log"]
           b == listed[r]["backup"]
<1>1. /\ "log" \in LogPath /\ "backup" \in LogPath /\ l \in Nat /\ b \in Nat
      /\ version["log"] \in Nat /\ version["backup"] \in Nat
  BY VersionsTyped
<1>2. Followed(r) /\ version["backup"] <= version["log"]
  BY DEF Versions, InOrder
<1>3. /\ l < version["log"] => l < version'["log"]
      /\ b < version["backup"] => b < version'["backup"]
      /\ l < version["log"] /\ l # version["backup"] => l # version'["backup"]
  BY <1>1, <1>2
<1> QED
  BY <1>1, <1>2, <1>3 DEF Followed

LEMMA VersionsFrame ==
  ASSUME Versions, NEW r \in Report, UNCHANGED logVars, Followed(r)',
         \A q \in Report \ {r} : UNCHANGED <<pc[q], result[q], files[q], work[q]>>
  PROVE  Versions'
<1>1. ASSUME NEW q \in Report \ {r} PROVE Followed(q)'
  <2>1. Followed(q) /\ UNCHANGED <<pc[q], result[q], files[q], work[q]>>
    BY DEF Versions
  <2> QED
    BY <2>1 DEF Followed, Past, logVars
<1>2. InOrder'
  BY DEF Versions, InOrder, logVars
<1> QED
  BY <1>1, <1>2 DEF Versions

LEMMA VersionsRotate ==
  ASSUME Typed, Versions, RotateLog \/ RemoveLogs
  PROVE  Versions'
<1>t. TypeOK
  BY DEF Typed
<1>1. /\ "log" \in LogPath /\ "backup" \in LogPath
      /\ version \in [LogPath -> Nat] /\ version["log"] \in Nat /\ version["backup"] \in Nat
  BY <1>t, BoundsAssumption DEF TypeOK, LogsTypeOK, LogPath
<1>2. UNCHANGED <<pc, result, files, work, listed, copy>>
  BY DEF RotateLog, RemoveLogs, workVars
<1>3. /\ version'["log"] \in {version["log"], version["log"] + 1}
      /\ version'["backup"] \in {version["backup"], version["log"]}
      /\ version'["log"] = version["log"] =>
           ("log" \in present' => "log" \in present /\ version'["backup"] = version["backup"])
      /\ version'["log"] # version["log"] => version'["backup"] = version["backup"]
  BY <1>1 DEF RotateLog, RemoveLogs, LogPath
<1>4. /\ version["backup"] <= version["log"]
      /\ ("log" \in present => version["backup"] < version["log"])
      /\ \A r \in Report, f \in LogPath : listed[r][f] <= version[f]
  BY DEF Versions, InOrder
<1>5. InOrder'
  <2>1. /\ version'["log"] \in Nat /\ version'["backup"] \in Nat
        /\ version["log"] <= version'["log"] /\ version["backup"] <= version'["backup"]
    BY <1>1, <1>3, <1>4
  <2>2. /\ version'["backup"] <= version'["log"]
        /\ "log" \in present' => version'["backup"] < version'["log"]
    BY <1>1, <1>3, <1>4
  <2>3. ASSUME NEW r \in Report, NEW f \in LogPath PROVE listed'[r][f] <= version'[f]
    <3>1. listed[r][f] \in Nat /\ version[f] <= version'[f] /\ version[f] \in Nat
      BY <1>t, <1>1, <2>1, VersionsTyped DEF LogPath
    <3>2. version'[f] \in Nat
      BY <2>1 DEF LogPath
    <3> QED
      BY <1>2, <1>4, <3>1, <3>2
  <2> QED
    BY <2>2, <2>3 DEF InOrder
<1>6. ASSUME NEW r \in Report PROVE Followed(r)'
  <2>1. \A f \in LogPath : Past(r, f)' => Past(r, f)
    BY <1>2 DEF Past
  <2>2. version'["log"] \in Nat /\ version["log"] <= version'["log"]
    BY <1>1, <1>3
  <2> QED
    BY <1>t, <1>2, <1>3, <2>1, <2>2, FollowedStays
<1> QED
  BY <1>5, <1>6 DEF Versions

LEMMA VersionsJob ==
  ASSUME Typed, Handed, Versions, NEW r \in Report,
         JobStep(r) \/ Call(r) \/ Acquire(r) \/ Finish(r)
  PROVE  Versions'
<1> USE DEF workVars, outVars, Goto, Raise
<1>t. TypeOK
  BY DEF Typed
<1>v. /\ "log" \in LogPath /\ "backup" \in LogPath
      /\ \A f \in LogPath :
           version[f] \in Nat /\ listed[r][f] \in Nat /\ copy[r][f] \in Nat
  BY <1>t, VersionsTyped
<1>f. Followed(r)
  BY DEF Versions
<1>n. pc[r] \in (Active \ {"finally"}) \cup {"idle"} => result[r] # "ok"
  BY DEF Handed
<1>1. ASSUME UNCHANGED <<logVars, files>>,
             \A q \in Report \ {r} : UNCHANGED <<pc[q], result[q], work[q]>>,
             \A f \in LogPath : Past(r, f)' => Past(r, f), pc'[r] # "staging"
      PROVE  Versions'
  <2>1. Followed(r)'
    BY <1>t, <1>v, <1>1, FollowedStays DEF logVars
  <2> QED
    BY <1>1, <2>1, VersionsFrame
<1>2. ASSUME UNCHANGED logVars, result'[r] # "ok",
             pc'[r] \notin {"staging", "mkArchive", "openZip", "zipping", "pin", "enqueue"},
             \A q \in Report \ {r} : UNCHANGED <<pc[q], result[q], files[q], work[q]>>
      PROVE  Versions'
  BY <1>2, NothingRead, VersionsFrame
<1>3. CASE Call(r) \/ Acquire(r) \/ MakeIssueDir(r) \/ DropIssueDir(r)
  <2>1. /\ pc[r] \in {"idle", "lock", "mkIssue", "dropIssue"} /\ UNCHANGED <<result, files, work>>
        /\ pc'[r] \in {"lock", "collect", "writeIssue", "finally"}
        /\ UNCHANGED logVars /\ \A q \in Report \ {r} : pc'[q] = pc[q]
    BY <1>t, <1>3 DEF Call, Acquire, MakeIssueDir, DropIssueDir, TypeOK
  <2>2. result'[r] # "ok"
    BY <1>n, <2>1 DEF Active, Waiting, Working
  <2> QED
    BY <1>2, <2>1, <2>2
<1>4. CASE WriteIssue(r)
  <2>1. /\ pc[r] = "writeIssue" /\ pc'[r] = "mkStage" /\ UNCHANGED <<logVars, result, work>>
        /\ \A q \in Report \ {r} : pc'[q] = pc[q] /\ files'[q] = files[q]
    BY <1>t, <1>4 DEF WriteIssue, TypeOK
  <2>2. result'[r] # "ok"
    BY <1>n, <2>1 DEF Active, Waiting, Working
  <2> QED
    BY <1>2, <2>1, <2>2
<1>5. CASE \/ WriteIssueFails(r) \/ WriteIssueEscapes(r) \/ StagingFails(r)
           \/ MakeDirFails(r) \/ ZipFails(r) \/ PinFails(r)
  <2>1. /\ pc'[r] \in {"dropIssue", "finally"} /\ result'[r] # "ok" /\ UNCHANGED logVars
        /\ \A q \in Report \ {r} : UNCHANGED <<pc[q], result[q], files[q], work[q]>>
    BY <1>t, <1>5 DEF WriteIssueFails, WriteIssueEscapes, StagingFails, MakeDirFails, ZipFails,
                      PinFails, PinRaised, StagingCleanup, TypeOK
  <2> QED
    BY <1>2, <2>1
<1>6. CASE StagingDone(r) \/ MakeArchiveDir(r) \/ OpenZip(r) \/ ZipFile(r) \/ ZipDone(r)
           \/ Pin(r) \/ Enqueue(r)
  <2>1. /\ \/ pc[r] \in {"mkArchive", "openZip", "zipping", "pin", "enqueue"}
           \/ pc[r] = "staging" /\ work[r] = {}
        /\ pc'[r] # "staging" /\ UNCHANGED <<logVars, files>>
        /\ \A q \in Report \ {r} : UNCHANGED <<pc[q], result[q], work[q]>>
    BY <1>t, <1>6 DEF StagingDone, MakeArchiveDir, OpenZip, ZipFile, ZipDone, Pin, PinReturned,
                      Enqueue, TypeOK
  <2> QED
    BY <1>1, <2>1 DEF Past
<1>7. CASE DeleteDir(r) \/ Finish(r)
  <2>1. /\ pc[r] = "finally" /\ pc'[r] \in {"finally", "done"}
        /\ UNCHANGED <<logVars, result, files, work>>
        /\ \A q \in Report \ {r} : pc'[q] = pc[q]
    BY <1>t, <1>7 DEF DeleteDir, Finish, TypeOK
  <2> QED
    BY <1>1, <2>1 DEF Past
<1>8. CASE MakeStagingDir(r)
  <2>1. /\ pc[r] = "mkStage" /\ pc'[r] = "staging" /\ work'[r] = files[r]
        /\ UNCHANGED <<logVars, result, files>>
        /\ \A q \in Report \ {r} : pc'[q] = pc[q] /\ work'[q] = work[q]
    BY <1>t, <1>8 DEF MakeStagingDir, TypeOK
  <2>2. result'[r] # "ok"
    BY <1>n, <2>1 DEF Active, Waiting, Working
  <2>3. Followed(r)'
    BY <2>1, <2>2 DEF Followed, Past
  <2> QED
    BY <2>1, <2>3, VersionsFrame
<1>9. CASE StageFile(r)
  <2>1. PICK f \in work[r] :
          /\ IsNext(r, f)
          /\ work' = [work EXCEPT ![r] = @ \ {f}]
          /\ copy' = IF f \in LogPath THEN [copy EXCEPT ![r][f] = version[f]] ELSE copy
    BY <1>9 DEF StageFile
  <2>2. /\ pc[r] = "staging" /\ UNCHANGED <<pc, result, files, listed, version, present>>
        /\ work'[r] = work[r] \ {f} /\ f \in File
        /\ \A q \in Report \ {r} : work'[q] = work[q] /\ copy'[q] = copy[q]
        /\ \A g \in LogPath : copy'[r][g] = IF f = g THEN version[g] ELSE copy[r][g]
    BY <1>t, <1>9, <2>1 DEF StageFile, TypeOK, LogsTypeOK
  <2>3. result[r] # "ok"
    BY <1>n, <2>2 DEF Active, Waiting, Working
  <2>4. /\ f = "backup" => "log" \notin work[r]
        /\ f = "log" /\ "backup" \in files[r] => "backup" \in work'[r]
    BY <1>f, <2>1, <2>2 DEF IsNext, Before, Followed
  <2>5. listed[r]["log"] <= version["log"] /\ listed[r]["backup"] <= version["backup"]
    BY <1>v DEF Versions, InOrder
  <2>6. Followed(r)'
    <3>1. "log" \in files[r] /\ Past(r, "log")' =>
            copy'[r]["log"] = listed[r]["log"] \/ listed[r]["log"] < version["log"]
      BY <1>f, <1>v, <2>2, <2>3, <2>5 DEF Followed, Past
    <3>2. ASSUME "backup" \in files[r], Past(r, "backup")'
          PROVE  /\ \/ copy'[r]["backup"] = listed[r]["backup"]
                    \/ listed[r]["backup"] < version["backup"]
                 /\ "log" \in files[r] =>
                      \/ listed[r]["log"] \in {copy'[r]["log"], copy'[r]["backup"]}
                      \/ listed[r]["log"] < version["log"] /\ listed[r]["log"] # version["backup"]
      <4>1. "backup" \notin work'[r] /\ f # "log"
        BY <2>2, <2>3, <2>4, <3>2 DEF Past
      <4>2. CASE f = "backup"
        <5>1. "log" \in files[r] =>
                copy[r]["log"] = listed[r]["log"] \/ listed[r]["log"] < version["log"]
          BY <1>f, <2>2, <2>4, <4>2 DEF Followed, Past
        <5>2. copy'[r]["backup"] = version["backup"] /\ copy'[r]["log"] = copy[r]["log"]
          BY <1>v, <2>2, <4>2
        <5> QED
          BY <1>v, <2>5, <5>1, <5>2
      <4>3. CASE f # "backup"
        <5>1. Past(r, "backup")
          BY <2>2, <4>1, <4>3 DEF Past
        <5>2. copy'[r]["backup"] = copy[r]["backup"] /\ copy'[r]["log"] = copy[r]["log"]
          BY <1>v, <2>2, <4>1, <4>3
        <5> QED
          BY <1>f, <3>2, <5>1, <5>2 DEF Followed
      <4> QED
        BY <4>2, <4>3
    <3>3. "backup" \in files[r] /\ "log" \in work'[r] => "backup" \in work'[r]
      BY <1>f, <2>2, <2>4 DEF Followed
    <3> QED
      BY <2>2, <3>1, <3>2, <3>3 DEF Followed
  <2>7. ASSUME NEW q \in Report \ {r} PROVE Followed(q)'
    <3>1. Followed(q)
      BY DEF Versions
    <3> QED
      BY <2>2, <3>1 DEF Followed, Past
  <2>8. InOrder'
    BY <2>2 DEF Versions, InOrder
  <2> QED
    BY <2>6, <2>7, <2>8 DEF Versions
<1>10. CASE ListLog(r) \/ CollectFiles(r)
  <2>1. PICK f \in LogPath : listed' = [listed EXCEPT ![r][f] = version[f]]
    BY <1>v, <1>10 DEF ListLog, CollectFiles
  <2>2. /\ pc[r] \in {"collect", "collectRest"} /\ UNCHANGED <<version, present, copy, work>>
        /\ pc'[r] \in {"collectRest", "mkIssue", "mkStage", "finally"}
        /\ result'[r] \in {result[r], "validation"}
        /\ \A q \in Report \ {r} :
             UNCHANGED <<pc[q], result[q], files[q], listed[q]>>
        /\ \A g \in LogPath : listed'[r][g] = IF f = g THEN version[g] ELSE listed[r][g]
    BY <1>t, <1>10, <2>1 DEF ListLog, CollectFiles, TypeOK, LogsTypeOK
  <2>3. result'[r] # "ok"
    BY <1>n, <2>2 DEF Active, Waiting, Working
  <2>4. Followed(r)'
    BY <2>2, <2>3, NothingRead
  <2>5. ASSUME NEW q \in Report \ {r} PROVE Followed(q)'
    <3>1. Followed(q)
      BY DEF Versions
    <3> QED
      BY <2>2, <3>1 DEF Followed, Past
  <2>6. InOrder'
    <3>1. ASSUME NEW q \in Report, NEW g \in LogPath PROVE listed'[q][g] <= version'[g]
      BY <1>v, <2>2 DEF Versions, InOrder
    <3> QED
      BY <2>2, <3>1 DEF Versions, InOrder
  <2> QED
    BY <2>4, <2>5, <2>6 DEF Versions
<1> QED
  BY <1>3, <1>4, <1>5, <1>6, <1>7, <1>8, <1>9, <1>10 DEF JobStep

LEMMA VersionsStep == Typed /\ Handed /\ Versions /\ [Next]_vars => Versions'
<1> SUFFICES ASSUME Typed, Handed, Versions, [Next]_vars PROVE Versions'
  OBVIOUS
<1>t. TypeOK
  BY DEF Typed
<1>1. ASSUME UNCHANGED result, UNCHANGED files, UNCHANGED logVars,
             \A r \in Report : pc'[r] = pc[r] \/ pc'[r] = "dead",
             \A r \in Report : pc'[r] = "staging" => work'[r] = work[r]
      PROVE  Versions'
  <2>1. ASSUME NEW r \in Report PROVE Followed(r)'
    <3>1. /\ \A f \in LogPath : Past(r, f)' => Past(r, f)
          /\ pc'[r] = "staging" => pc[r] = "staging" /\ work'[r] = work[r]
      BY <1>1 DEF Past
    <3>2. UNCHANGED <<files[r], listed[r], copy[r], version>> /\ version["log"] \in Nat
      BY <1>t, <1>1, VersionsTyped DEF logVars
    <3> QED
      BY <1>t, <3>1, <3>2, FollowedStays
  <2>2. InOrder'
    BY <1>1 DEF Versions, InOrder, logVars
  <2> QED
    BY <2>1, <2>2 DEF Versions
<1>2. CASE RotateLog \/ RemoveLogs
  BY <1>2, VersionsRotate
<1>3. ASSUME NEW r \in Report, Call(r) \/ ReportStep(r) PROVE Versions'
  BY <1>3, VersionsJob DEF ReportStep, JobStep
<1>4. CASE Unload \/ Setup \/ SetupStep \/ UNCHANGED vars
  <2>1. UNCHANGED result /\ UNCHANGED files /\ UNCHANGED logVars /\ UNCHANGED <<pc, work>>
    BY <1>4 DEF Unload, Setup, SetupStep, ListTempDirs, SweepOpens, SweepUnlinks,
         SweepRemoves, Loaded, vars, workVars
  <2> QED
    BY <1>1, <2>1
<1>5. CASE Crash
  <2>1. /\ UNCHANGED result /\ UNCHANGED files /\ UNCHANGED logVars
        /\ \A r \in Report : pc'[r] = IF InProgress(r) THEN "dead" ELSE pc[r]
    BY <1>5 DEF Crash
  <2>2. \A r \in Report : pc'[r] # "staging"
    BY <2>1 DEF InProgress, Active, Waiting, Working
  <2> QED
    BY <1>1, <2>1, <2>2
<1> QED
  BY <1>2, <1>3, <1>4, <1>5 DEF Next, Quiescent

\* What a report that has read everything misses of the log files it found.
LEMMA ReadAccountsFor ==
  ASSUME Typed, Versions, NEW r \in Report, result[r] = "ok", content[r] = files[r],
         NEW f \in LogPath \cap files[r]
  PROVE  AccountedFor(r, f)
<1> DEFINE v == listed[r][f]
<1> SUFFICES ASSUME \A g \in LogPath \cap content[r] : copy[r][g] # v, OnDisk(v)
             PROVE  f = "log" /\ "backup" \notin files[r] /\ version["backup"] = v
  BY DEF AccountedFor
<1>1. /\ "log" \in LogPath /\ "backup" \in LogPath /\ f \in {"log", "backup"}
      /\ version["log"] \in Nat /\ version["backup"] \in Nat /\ v \in Nat
      /\ listed[r]["log"] \in Nat
  BY VersionsTyped DEF Typed, LogPath
<1>2. Past(r, "log") /\ Past(r, "backup") /\ Followed(r)
  BY DEF Past, Versions
<1>3. /\ version["backup"] <= version["log"]
      /\ "log" \in present => version["backup"] < version["log"]
  BY DEF Versions, InOrder
<1>4. ("log" \in present /\ version["log"] = v) \/ version["backup"] = v
  BY DEF OnDisk, LogPath
<1>5. CASE f = "backup"
  <2>1. v < version["backup"]
    BY <1>1, <1>2, <1>5 DEF Followed
  <2> QED
    BY <1>1, <1>3, <1>4, <2>1
<1>6. CASE f = "log"
  <2>1. v < version["log"]
    BY <1>1, <1>2, <1>6 DEF Followed
  <2>2. version["backup"] = v
    BY <1>1, <1>4, <2>1
  <2>3. "backup" \notin files[r]
    BY <1>1, <1>2, <1>6, <2>2 DEF Followed
  <2> QED
    BY <1>6, <2>2, <2>3
<1> QED
  BY <1>1, <1>5, <1>6

\* A report that goes out holds a file for every name it was begun with; of the
\* log files it found it misses only what rotation deleted before it was read,
\* or moved to a path where there had been nothing to list.  The exception is a
\* report that the sweep of a later set-up came across.
THEOREM ReportsAreWhole == Spec => []WholeReport
<1>1. Init => Typed /\ Handed /\ Whole /\ Elders /\ Versions
  BY TypedInit, HandedInit, WholeInit, VersionsInit DEF Init, Elders
<1>2. Typed /\ Handed /\ Whole /\ Elders /\ Versions /\ [Next]_vars
        => (Typed /\ Handed /\ Whole /\ Elders /\ Versions)'
  BY TypeStep, LockStep, LogsStep, SetupHeldStep, HandedStep, WholeStep, EldersStep,
     VersionsStep DEF Typed
<1>3. Typed /\ Handed /\ Whole /\ Elders /\ Versions => WholeReport
  <2> SUFFICES ASSUME Typed, Handed, Whole, Elders, Versions, NEW r \in Delivered
               PROVE  \/ r \in disturbed /\ owner[r] < instance
                      \/ /\ content[r] = files[r]
                         /\ \A f \in LogPath \cap files[r] : AccountedFor(r, f)
    BY DEF WholeReport
  <2>1. r \in Report
    BY DEF Delivered, ToSet, Typed, TypeOK
  <2>2. result[r] = "ok"
    BY <2>1, OkIsDelivered DEF DeliveredIfOk
  <2>3. content[r] = files[r] \/ (r \in disturbed /\ owner[r] < instance)
    BY <2>1, <2>2 DEF Whole, Held, Elders
  <2> QED
    BY <2>1, <2>2, <2>3, ReadAccountsFor
<1> QED
  BY <1>1, <1>2, <1>3, PTL DEF Spec
-----------------------------------------------------------------------------
(* Refinement: every step of the jobs and of the config entry is a step of  *)
(* the intake or leaves it as it was.                                       *)

LEMMA OpenWhileActive ==
  ASSUME NEW r \in Report
  PROVE  /\ InProgress(r) => OutcomeOf(r) = "open"
         /\ InProgress(r)' => OutcomeOf(r)' = "open"
BY DEF OutcomeOf, InProgress, Active, Waiting, Working

\* The outcome of a report depends on where it is and on its result.
LEMMA SameOutcome ==
  ASSUME NEW r \in Report, pc'[r] = pc[r], result'[r] = result[r]
  PROVE  OutcomeOf(r)' = OutcomeOf(r)
BY DEF OutcomeOf

LEMMA IntakeStutters ==
  ASSUME UNCHANGED <<lock, sent, pinned>>, \A r \in Report : OutcomeOf(r)' = OutcomeOf(r)
  PROVE  UNCHANGED Intake!vars
<1>1. [r \in Report |-> OutcomeOf(r)]' = [r \in Report |-> OutcomeOf(r)]
  OBVIOUS
<1> QED
  BY <1>1 DEF Intake!vars

\* A job's step shows only where it pins and where it hands over.
LEMMA JobOutcomes ==
  ASSUME Typed, NEW r \in Report, JobStep(r)
  PROVE  \A q \in Report : OutcomeOf(q)' = OutcomeOf(q)
<1>1. /\ pc[r] \in Working /\ pc'[r] \in Working
      /\ \A q \in Report \ {r} : pc'[q] = pc[q]
  BY JobShape
<1>2. \A q \in Report \ {r} : result'[q] = result[q]
  BY DEF JobStep, ListLog, CollectFiles, MakeIssueDir, WriteIssue, WriteIssueFails, WriteIssueEscapes,
         MakeStagingDir, StageFile, StagingDone, StagingFails, DropIssueDir, MakeDirFails,
         MakeArchiveDir, OpenZip, ZipFile, ZipDone, ZipFails, Pin, PinFails, Enqueue,
         DeleteDir, Raise, Typed, TypeOK
<1>3. OutcomeOf(r)' = OutcomeOf(r)
  BY <1>1, OpenWhileActive DEF InProgress, Active
<1> QED
  BY <1>1, <1>2, <1>3, SameOutcome

\* A report that works is in service.
LEMMA WorkerInService ==
  ASSUME Typed, NEW r \in Report, pc[r] \in Working
  PROVE  owner[r] \in Instance /\ Intake!InService(owner[r], r)
BY WorkerHolds DEF Intake!InService

LEMMA IntakeInit == Init => Intake!Init
<1> SUFFICES ASSUME Init PROVE Intake!Init
  OBVIOUS
<1>1. \A r \in Report : OutcomeOf(r) = "uncalled"
  BY DEF Init, OutcomeOf
<1> QED
  BY <1>1 DEF Init, Intake!Init

LEMMA IntakeStep == Typed /\ Handed /\ [Next]_vars => [Intake!Next]_(Intake!vars)
<1> SUFFICES ASSUME Typed, Handed, [Next]_vars PROVE [Intake!Next]_(Intake!vars)
  OBVIOUS
<1> USE DEF entryVars, diskVars, callVars, workVars, outVars
<1> DEFINE outcomes == [r \in Report |-> OutcomeOf(r)]
<1>t. TypeOK
  BY DEF Typed
<1>1. ASSUME NEW r \in Report, Call(r) PROVE \E i \in Instance : Intake!Call(i, r)
  <2>1. /\ pc[r] = "idle" /\ pc' = [pc EXCEPT ![r] = "lock"] /\ UNCHANGED <<result, sent, pinned>>
        /\ lock' = [lock EXCEPT ![instance] = Append(lock[instance], r)]
    BY <1>1 DEF Call, Goto
  <2>2. instance \in Instance
    BY <1>1 DEF Call, Typed, SetupHeld
  <2>3. OutcomeOf(r) = "uncalled"
    BY <2>1 DEF OutcomeOf
  <2>4. OutcomeOf(r)' = "open"
    BY <1>t, <2>1 DEF OutcomeOf, TypeOK
  <2>5. ASSUME NEW q \in Report \ {r} PROVE OutcomeOf(q)' = OutcomeOf(q)
    BY <1>t, <2>1, SameOutcome DEF TypeOK
  <2>6. outcomes' = [outcomes EXCEPT ![r] = "open"]
    BY <2>4, <2>5
  <2>7. Intake!Call(instance, r)
    BY <2>1, <2>3, <2>6 DEF Intake!Call
  <2> QED
    BY <2>2, <2>7
<1>2. ASSUME NEW r \in Report, Acquire(r) PROVE UNCHANGED Intake!vars
  <2>1. /\ pc[r] = "lock" /\ pc' = [pc EXCEPT ![r] = "collect"]
        /\ UNCHANGED <<lock, result, sent, pinned>>
    BY <1>2 DEF Acquire, Goto
  <2>2. OutcomeOf(r)' = OutcomeOf(r)
    BY <1>t, <2>1 DEF OutcomeOf, TypeOK
  <2>3. ASSUME NEW q \in Report \ {r} PROVE OutcomeOf(q)' = OutcomeOf(q)
    BY <1>t, <2>1, SameOutcome DEF TypeOK
  <2> QED
    BY <2>1, <2>2, <2>3, IntakeStutters
<1>3. ASSUME NEW r \in Report,
             Pin(r) \/ (PinFails(r) /\ ~UNCHANGED pinned)
      PROVE  \E i \in Instance : Intake!Upload(i, r)
  <2>1. pc[r] = "pin" /\ pinned' = pinned \cup {r} /\ UNCHANGED <<lock, sent>> /\ JobStep(r)
    BY <1>3 DEF Pin, PinFails, JobStep
  <2>2. outcomes' = outcomes
    BY <2>1, JobOutcomes
  <2>3. owner[r] \in Instance /\ Intake!InService(owner[r], r)
    BY <2>1, WorkerInService DEF Working
  <2>4. Intake!Upload(owner[r], r)
    BY <2>1, <2>2, <2>3 DEF Intake!Upload
  <2> QED
    BY <2>3, <2>4
<1>4. ASSUME NEW r \in Report, Enqueue(r) PROVE \E i \in Instance : Intake!HandOver(i, r)
  <2>1. /\ pc[r] = "enqueue" /\ UNCHANGED <<lock, pinned>> /\ JobStep(r)
        /\ sent' = [sent EXCEPT ![owner[r]] = Append(sent[owner[r]], r)]
    BY <1>4 DEF Enqueue, JobStep
  <2>2. outcomes' = outcomes
    BY <2>1, JobOutcomes
  <2>3. owner[r] \in Instance /\ Intake!InService(owner[r], r)
    BY <2>1, WorkerInService DEF Working
  <2>4. r \in pinned /\ result[r] # "ok"
    BY <2>1 DEF Handed, Active, Working
  <2>5. ~Intake!HandedOver(owner[r], r)
    <3>1. \A n \in 1 .. Len(sent[owner[r]]) : sent[owner[r]][n] # r
      BY <2>3, <2>4 DEF Handed
    <3>2. sent[owner[r]] \in Seq(Report)
      BY <1>t, <2>3 DEF TypeOK
    <3> QED
      BY <3>1, <3>2 DEF Intake!HandedOver, Intake!ToSet, ToSet
  <2>6. Intake!HandOver(owner[r], r)
    BY <2>1, <2>2, <2>3, <2>4, <2>5 DEF Intake!HandOver
  <2> QED
    BY <2>3, <2>6
<1>5. ASSUME NEW r \in Report,
             \/ ListLog(r) \/ CollectFiles(r)
             \/ MakeIssueDir(r) \/ WriteIssue(r) \/ WriteIssueFails(r) \/ WriteIssueEscapes(r)
             \/ MakeStagingDir(r) \/ StageFile(r) \/ StagingDone(r) \/ StagingFails(r)
             \/ DropIssueDir(r) \/ MakeDirFails(r)
             \/ MakeArchiveDir(r) \/ OpenZip(r) \/ ZipFile(r) \/ ZipDone(r) \/ ZipFails(r)
             \/ (PinFails(r) /\ UNCHANGED pinned) \/ DeleteDir(r)
      PROVE  UNCHANGED Intake!vars
  <2>1. JobStep(r)
    BY <1>5 DEF JobStep
  <2>2. UNCHANGED lock
    BY <2>1, JobShape
  <2>3. UNCHANGED <<sent, pinned>>
    BY <1>5 DEF ListLog, CollectFiles, MakeIssueDir, WriteIssue, WriteIssueFails, WriteIssueEscapes,
                MakeStagingDir, StageFile, StagingDone, StagingFails, DropIssueDir,
                MakeDirFails, MakeArchiveDir, OpenZip, ZipFile, ZipDone, ZipFails, PinFails,
                DeleteDir
  <2> QED
    BY <2>1, <2>2, <2>3, JobOutcomes, IntakeStutters
<1>6. ASSUME NEW r \in Report, Finish(r) PROVE \E i \in Instance : Intake!End(i, r)
  <2>1. /\ pc[r] = "finally" /\ pc' = [pc EXCEPT ![r] = "done"]
        /\ lock' = [lock EXCEPT ![owner[r]] = Tail(lock[owner[r]])]
        /\ UNCHANGED <<result, sent, pinned>>
    BY <1>6 DEF Finish, Goto, Release
  <2>2. owner[r] \in Instance /\ Intake!InService(owner[r], r)
    BY <2>1, WorkerInService DEF Working
  <2>3. Intake!HandedOver(owner[r], r) <=> result[r] = "ok"
    <3>1. sent[owner[r]] \in Seq(Report)
      BY <1>t, <2>2 DEF TypeOK
    <3>2. (\E n \in 1 .. Len(sent[owner[r]]) : sent[owner[r]][n] = r) <=> result[r] = "ok"
      BY <2>2 DEF Handed, HandedOnce
    <3> QED
      BY <3>1, <3>2 DEF Intake!HandedOver, Intake!ToSet, ToSet
  <2>4. OutcomeOf(r)' = IF Intake!HandedOver(owner[r], r) THEN "ok" ELSE "failed"
    BY <1>t, <2>1, <2>3 DEF OutcomeOf, TypeOK
  <2>5. ASSUME NEW q \in Report \ {r} PROVE OutcomeOf(q)' = OutcomeOf(q)
    BY <1>t, <2>1, SameOutcome DEF TypeOK
  <2>6. outcomes' = [outcomes EXCEPT ![r] = IF Intake!HandedOver(owner[r], r)
                                            THEN "ok" ELSE "failed"]
    BY <2>4, <2>5
  <2>7. Intake!End(owner[r], r)
    BY <2>1, <2>2, <2>6 DEF Intake!End
  <2> QED
    BY <2>2, <2>7
<1>7. CASE RotateLog \/ RemoveLogs \/ Unload \/ Setup \/ SetupStep \/ UNCHANGED vars
  <2>1. UNCHANGED <<lock, sent, pinned, pc, result>>
    BY <1>7 DEF RotateLog, RemoveLogs, Unload, Setup, SetupStep, ListTempDirs, SweepOpens,
                SweepUnlinks, SweepRemoves, NextInSweep, Loaded, vars
  <2> QED
    BY <2>1, SameOutcome, IntakeStutters
<1>8. CASE Crash
  <2>1. /\ lock' = [i \in Instance |-> <<>>] /\ UNCHANGED <<result, sent, pinned>>
        /\ pc' = [r \in Report |-> IF InProgress(r) THEN "dead" ELSE pc[r]]
    BY <1>8 DEF Crash
  <2>2. ASSUME NEW r \in Report
        PROVE  OutcomeOf(r)' = IF OutcomeOf(r) = "open" THEN "lost" ELSE OutcomeOf(r)
    <3>1. CASE InProgress(r)
      <4>1. pc'[r] = "dead" /\ OutcomeOf(r) = "open"
        BY <2>1, <3>1, OpenWhileActive
      <4> QED
        BY <4>1 DEF OutcomeOf
    <3>2. CASE ~InProgress(r)
      <4>1. pc'[r] = pc[r] /\ pc[r] \in {"idle", "done", "dead"}
        BY <1>t, <2>1, <3>2 DEF InProgress, TypeOK
      <4>2. OutcomeOf(r) # "open"
        BY <4>1 DEF OutcomeOf
      <4> QED
        BY <2>1, <4>1, <4>2, SameOutcome
    <3> QED
      BY <3>1, <3>2
  <2>3. outcomes' = [r \in Report |-> IF outcomes[r] = "open" THEN "lost" ELSE outcomes[r]]
    BY <2>2
  <2> QED
    BY <2>1, <2>3 DEF Intake!Crash, Intake!Next
<1> QED
  BY <1>1, <1>2, <1>3, <1>4, <1>5, <1>6, <1>7, <1>8
     DEF Next, ReportStep, Quiescent, Intake!Next

\* The jobs, directories, sweeps and error paths of send_report make up one
\* service per instance: calls are served one at a time in their order, handed
\* over at most once and only when pinned, and answered truthfully.  (That
\* none is kept for ever rests on fairness: ImplementsIntake, model-checked.)
THEOREM ServesCallsInTurn == Spec => Intake!Spec
<1>1. Init => Intake!Init
  BY IntakeInit
<1>2. Typed /\ Handed /\ [Next]_vars => [Intake!Next]_(Intake!vars)
  BY IntakeStep
<1> QED
  BY <1>1, <1>2, HandedAlways, PTL DEF Spec, Intake!Spec
-----------------------------------------------------------------------------
(* An answer is the last word about a report.                               *)

\* A report is handed on by the instance it was called on, and by no other.
InOwnLine ==
  \A i \in Instance : \A n \in 1 .. Len(sent[i]) :
    owner[sent[i][n]] = i /\ pc[sent[i][n]] # "idle"

\* All instances together hand a report on at most once.
HandedOnOnce ==
  \A i, j \in Instance : \A n \in 1 .. Len(sent[i]), m \in 1 .. Len(sent[j]) :
    sent[i][n] = sent[j][m] => i = j /\ n = m

Answered(r) == pc[r] \in {"done", "dead"}

\* Once the caller was answered, or its process ended, the outcome stays what
\* it is: nothing is pinned or handed on for the report any more.
AnswersAreFinal ==
  [][\A r \in Report : Answered(r) =>
       /\ OutcomeOf(r)' = OutcomeOf(r)
       /\ r \in Delivered' <=> r \in Delivered
       /\ r \in pinned' <=> r \in pinned]_vars

\* One report is handed on at a time, to the line of its owner.
LEMMA SentShape ==
  ASSUME Typed, [Next]_vars
  PROVE  \/ UNCHANGED sent
         \/ \E r \in Report : /\ pc[r] = "enqueue" /\ owner[r] \in Instance /\ owner' = owner
                              /\ sent' = [sent EXCEPT ![owner[r]] = Append(@, r)]
<1> USE DEF entryVars, diskVars, callVars, workVars, outVars
<1>1. ASSUME NEW r \in Report, Enqueue(r)
      PROVE  /\ pc[r] = "enqueue" /\ owner[r] \in Instance /\ owner' = owner
             /\ sent' = [sent EXCEPT ![owner[r]] = Append(@, r)]
  BY <1>1, WorkerHolds DEF Enqueue, Working
<1>2. ASSUME NEW r \in Report, ReportStep(r), ~Enqueue(r) PROVE UNCHANGED sent
  BY <1>2 DEF ReportStep, Acquire, Finish, ListLog, CollectFiles, MakeIssueDir, WriteIssue,
       WriteIssueFails, WriteIssueEscapes, MakeStagingDir, StageFile, StagingDone,
       StagingFails, DropIssueDir, MakeDirFails, MakeArchiveDir, OpenZip, ZipFile, ZipDone,
       ZipFails, Pin, PinFails, DeleteDir
<1>3. ASSUME NEW r \in Report, Call(r) PROVE UNCHANGED sent
  BY <1>3 DEF Call
<1>4. CASE RotateLog \/ RemoveLogs \/ Unload \/ Setup \/ SetupStep \/ Crash \/ UNCHANGED vars
  BY <1>4 DEF RotateLog, RemoveLogs, Unload, Setup, SetupStep, ListTempDirs, SweepOpens, SweepUnlinks,
       SweepRemoves, NextInSweep, Loaded, Crash, vars
<1> QED
  BY <1>1, <1>2, <1>3, <1>4 DEF Next, Quiescent

\* Who has begun keeps its owner, and has begun for good.
LEMMA OwnerStays ==
  ASSUME Typed, [Next]_vars, NEW r \in Report, pc[r] # "idle"
  PROVE  owner'[r] = owner[r] /\ pc'[r] # "idle"
<1> USE DEF entryVars, diskVars, callVars, workVars, outVars
<1>t. TypeOK
  BY DEF Typed
<1>1. ASSUME NEW q \in Report, JobStep(q) PROVE owner'[r] = owner[r] /\ pc'[r] # "idle"
  BY <1>1, JobShape DEF Working
<1>2. ASSUME NEW q \in Report, Call(q) \/ Acquire(q) \/ Finish(q)
      PROVE  owner'[r] = owner[r] /\ pc'[r] # "idle"
  BY <1>t, <1>2 DEF Call, Acquire, Finish, Goto, TypeOK
<1>3. CASE RotateLog \/ RemoveLogs \/ Unload \/ Setup \/ SetupStep \/ UNCHANGED vars
  BY <1>3 DEF RotateLog, RemoveLogs, Unload, Setup, SetupStep, ListTempDirs, SweepOpens, SweepUnlinks,
       SweepRemoves, NextInSweep, Loaded, vars
<1>4. CASE Crash
  BY <1>4 DEF Crash
<1> QED
  BY <1>1, <1>2, <1>3, <1>4 DEF Next, ReportStep, JobStep, Quiescent

LEMMA InOwnLineStep == Typed /\ InOwnLine /\ [Next]_vars => InOwnLine'
<1> SUFFICES ASSUME Typed, InOwnLine, [Next]_vars,
                    NEW i \in Instance, NEW n \in 1 .. Len(sent'[i])
             PROVE  owner'[sent'[i][n]] = i /\ pc'[sent'[i][n]] # "idle"
  BY DEF InOwnLine
<1>t. sent \in [Instance -> Seq(Report)]
  BY DEF Typed, TypeOK
<1>1. ASSUME n \in 1 .. Len(sent[i]), sent'[i][n] = sent[i][n]
      PROVE  owner'[sent'[i][n]] = i /\ pc'[sent'[i][n]] # "idle"
  <2>1. sent[i][n] \in Report
    BY <1>t, <1>1
  <2>2. owner[sent[i][n]] = i /\ pc[sent[i][n]] # "idle"
    BY <1>1 DEF InOwnLine
  <2> QED
    BY <1>1, <2>1, <2>2, OwnerStays
<1>2. CASE UNCHANGED sent
  BY <1>1, <1>2
<1>3. ASSUME NEW r \in Report, pc[r] = "enqueue", owner[r] \in Instance, owner' = owner,
             sent' = [sent EXCEPT ![owner[r]] = Append(@, r)]
      PROVE  owner'[sent'[i][n]] = i /\ pc'[sent'[i][n]] # "idle"
  <2>1. CASE i # owner[r]
    BY <1>1, <1>3, <1>t, <2>1
  <2>2. CASE i = owner[r]
    <3>1. sent[i] \in Seq(Report) /\ sent'[i] = Append(sent[i], r)
      BY <1>3, <1>t, <2>2
    <3>2. CASE n = Len(sent[i]) + 1
      <4>1. sent'[i][n] = r
        BY <3>1, <3>2, AppendProperties
      <4> QED
        BY <1>3, <2>2, <4>1, OwnerStays
    <3>3. CASE n # Len(sent[i]) + 1
      <4>1. n \in 1 .. Len(sent[i]) /\ sent'[i][n] = sent[i][n]
        BY <3>1, <3>3, AppendProperties
      <4> QED
        BY <1>1, <4>1
    <3> QED
      BY <3>2, <3>3
  <2> QED
    BY <2>1, <2>2
<1> QED
  BY <1>2, <1>3, SentShape

\* However often the entry is set up anew and wherever the process ends, a
\* report reaches the datalog queues of all instances together at most once.
THEOREM HandedOnAtMostOnce == Spec => []HandedOnOnce
<1>1. Init => InOwnLine
  BY DEF Init, InOwnLine
<1>2. Typed /\ Handed /\ InOwnLine => HandedOnOnce
  <2> SUFFICES ASSUME Typed, Handed, InOwnLine, NEW i \in Instance, NEW j \in Instance,
                      NEW n \in 1 .. Len(sent[i]), NEW m \in 1 .. Len(sent[j]),
                      sent[i][n] = sent[j][m]
               PROVE  i = j /\ n = m
    BY DEF HandedOnOnce
  <2> DEFINE r == sent[i][n]
  <2>1. r \in Report /\ owner[r] = i /\ owner[r] = j
    BY DEF Typed, TypeOK, InOwnLine
  <2>2. result[r] = "ok"
    BY <2>1 DEF Handed
  <2>3. HandedOnce(r)
    BY <2>1, <2>2 DEF Handed
  <2> QED
    BY <2>1, <2>3 DEF HandedOnce
<1> QED
  BY <1>1, <1>2, InOwnLineStep, HandedAlways, PTL DEF Spec

\* Whoever was told how a report ended, or outlived its process, is not
\* contradicted later on.
THEOREM AnswersStand == Spec => AnswersAreFinal
<1> USE DEF entryVars, diskVars, callVars, workVars, outVars
<1>1. ASSUME Typed, DeliveredIfOk, DeliveredIfOk', [Next]_vars,
             NEW r \in Report, Answered(r)
      PROVE  /\ OutcomeOf(r)' = OutcomeOf(r)
             /\ r \in Delivered' <=> r \in Delivered
             /\ r \in pinned' <=> r \in pinned
  <2>t. TypeOK
    BY <1>1 DEF Typed
  <2>1. SUFFICES pc'[r] = pc[r] /\ result'[r] = result[r] /\ (r \in pinned' <=> r \in pinned)
    <3>1. OutcomeOf(r)' = OutcomeOf(r)
      BY <2>1, SameOutcome
    <3>2. (r \in Delivered)' <=> r \in Delivered
      BY <1>1, <2>1 DEF DeliveredIfOk
    <3> QED
      BY <2>1, <3>1, <3>2
  <2>2. ASSUME NEW q \in Report, JobStep(q)
        PROVE  pc'[r] = pc[r] /\ result'[r] = result[r] /\ (r \in pinned' <=> r \in pinned)
    <3>1. pc[q] \in Working /\ q # r /\ pc'[r] = pc[r]
      BY <1>1, <2>2, JobShape DEF Answered, Working
    <3>2. result'[r] = result[r]
      BY <2>t, <2>2, <3>1 DEF JobStep, ListLog, CollectFiles, MakeIssueDir, WriteIssue,
         WriteIssueFails, WriteIssueEscapes, MakeStagingDir, StageFile, StagingDone,
         StagingFails, DropIssueDir, MakeDirFails, MakeArchiveDir, OpenZip, ZipFile, ZipDone,
         ZipFails, Pin, PinFails, Enqueue, DeleteDir, Raise, TypeOK
    <3>3. pinned' = pinned \/ pinned' = pinned \cup {q}
      BY <2>2 DEF JobStep, ListLog, CollectFiles, MakeIssueDir, WriteIssue,
         WriteIssueFails, WriteIssueEscapes, MakeStagingDir, StageFile, StagingDone,
         StagingFails, DropIssueDir, MakeDirFails, MakeArchiveDir, OpenZip, ZipFile, ZipDone,
         ZipFails, Pin, PinFails, Enqueue, DeleteDir
    <3> QED
      BY <3>1, <3>2, <3>3
  <2>3. ASSUME NEW q \in Report, Call(q) \/ Acquire(q) \/ Finish(q)
        PROVE  pc'[r] = pc[r] /\ result'[r] = result[r] /\ (r \in pinned' <=> r \in pinned)
    BY <1>1, <2>t, <2>3 DEF Call, Acquire, Finish, Goto, TypeOK, Answered
  <2>4. CASE RotateLog \/ RemoveLogs \/ Unload \/ Setup \/ SetupStep \/ UNCHANGED vars
    BY <2>4 DEF RotateLog, RemoveLogs, Unload, Setup, SetupStep, ListTempDirs, SweepOpens, SweepUnlinks,
         SweepRemoves, NextInSweep, Loaded, vars
  <2>5. CASE Crash
    BY <1>1, <2>5 DEF Crash, Answered, InProgress, Active, Waiting, Working
  <2> QED
    BY <1>1, <2>2, <2>3, <2>4, <2>5 DEF Next, ReportStep, JobStep, Quiescent
<1>2. Typed /\ DeliveredIfOk /\ DeliveredIfOk' /\ [Next]_vars
        => [\A r \in Report : Answered(r) =>
              /\ OutcomeOf(r)' = OutcomeOf(r)
              /\ r \in Delivered' <=> r \in Delivered
              /\ r \in pinned' <=> r \in pinned]_vars
  BY <1>1
<1> QED
  BY <1>2, OkIsDelivered, HandedAlways, PTL DEF AnswersAreFinal, Spec
=============================================================================
