----------------------------- MODULE LogRotation -----------------------------
(***************************************************************************)
(* The raw log of LoggerHandler: _write_raw_log_line and                   *)
(* _append_log_with_rotation (logger_handler.py), over reloads and the     *)
(* removal of the config entry (__init__.py).                              *)
(*                                                                         *)
(* Every setup makes a handler with a _log_lock of its own, so the lines   *)
(* of one handler are written one at a time and in order, while a line of  *)
(* an unloaded handler may still be under way when the next handler        *)
(* writes.  A step is one operation on the file system; the check and the  *)
(* operation it guards (isfile, remove) are one step, and what may go      *)
(* wrong between them is AppendFails.  Open, write and close are one step. *)
(* Each step of the removal and the making of the directory may fail.      *)
(***************************************************************************)
EXTENDS Naturals, Sequences, FiniteSets

CONSTANTS
  Line,          \* lines of system_log events
  MaxBytes,      \* REPORT_FILE_MAX_BYTES
  MaxLine,       \* bound on the length of a line, before it is cut
  NumHandlers,   \* bound on the LoggerHandlers made
  None

ASSUME SizesAssumption == MaxBytes \in Nat \ {0} /\ MaxLine \in Nat \ {0}
ASSUME HandlersAssumption == NumHandlers \in Nat
ASSUME NoneAssumption == None \notin Line

Handler == 1 .. NumHandlers
Path == {"log", "backup"}

VARIABLES
  entry,       \* "loaded", "unloaded", "removed", or how far its removal is:
               \*   "removing" (the log is gone), "leaving" (the backup too)
  handler,     \* the LoggerHandler made last
  preparing,   \* handlers whose _async_prepare_log_dir has not run yet
  exists,      \* which of the two files, and "dir", there are
  text,        \* their lines
  size,        \* and bytes
  waiting,     \* lines that wait for each _log_lock, oldest first
  pc,          \* where the append of each handler is
  line,        \* the line it writes
  bytes,       \* len(encoded_line)
  caught,      \* history: lines that some handler has caught
  written,     \* history: lines in the order they were written
  dropped,     \* history: lines that went with an old backup
  turner,      \* history: the handler whose rotation is under way, or 0
  due,         \* history: the length of the line the last rotation was made
               \*   for, until that line is written
  overlap,     \* history: two handlers were inside an append at once
  failed,      \* history: what the removal could not remove, or "none"
  hurried      \* history: the entry was removed while a job was under way,
               \*   or the process ended in the middle of its removal

fileVars == <<exists, text, size, dropped>>
appendVars == <<waiting, pc, line, bytes, caught, written, turner, due, overlap>>
vars == <<entry, handler, preparing, failed, hurried, fileVars, appendVars>>

Writing == {"measure", "unlink", "move", "append"}

Busy(h) == pc[h] # "idle"
Intact == entry \in {"loaded", "unloaded"}
UnderWay == \E h \in Handler : Busy(h) \/ waiting[h] # <<>> \/ h \in preparing
-----------------------------------------------------------------------------
Init ==
  /\ entry = "unloaded" /\ handler = 0
  /\ exists = {}
  /\ text = [f \in Path |-> <<>>]
  /\ size = [f \in Path |-> 0]
  /\ waiting = [h \in Handler |-> <<>>]
  /\ pc = [h \in Handler |-> "idle"]
  /\ line = [h \in Handler |-> None]
  /\ bytes = [h \in Handler |-> 0]
  /\ caught = {} /\ written = <<>> /\ dropped = <<>>
  /\ preparing = {} /\ failed = "none" /\ hurried = FALSE
  /\ turner = 0 /\ due = 0 /\ overlap = FALSE

-----------------------------------------------------------------------------
(* The line of an event. *)

\* _catch_new_log, up to `async with self._log_lock'
Catch(l) ==
  /\ entry = "loaded"
  /\ l \notin caught
  /\ caught' = caught \cup {l}
  /\ waiting' = [waiting EXCEPT ![handler] = Append(@, l)]
  /\ UNCHANGED <<entry, handler, preparing, failed, hurried, fileVars,
                 pc, line, bytes, written, turner, due, overlap>>

Cut(n) == IF n > MaxBytes THEN MaxBytes ELSE n

\* The lock is acquired, the executor job starts.
Begin(h) ==
  /\ ~Busy(h)
  /\ waiting[h] # <<>>
  /\ line' = [line EXCEPT ![h] = Head(waiting[h])]
  /\ waiting' = [waiting EXCEPT ![h] = Tail(@)]
  /\ \E n \in 1 .. MaxLine : bytes' = [bytes EXCEPT ![h] = Cut(n)]
  /\ pc' = [pc EXCEPT ![h] = "measure"]
  /\ overlap' = (overlap \/ \E g \in Handler \ {h} : Busy(g))
  /\ UNCHANGED <<entry, handler, preparing, failed, hurried, fileVars,
                 caught, written, turner, due>>

FitsOnlyOne(h) == size["log"] = 0              \* faulty: rotates at every line
FitsBefore(h) == size["log"] <= MaxBytes        \* faulty: without the new line

Fits(h) == size["log"] + bytes[h] <= MaxBytes

\* _ensure_log_dir, then current_logfile_size and the test
Measure(h) ==
  /\ pc[h] = "measure"
  /\ exists' = exists \cup {"dir"}
  /\ pc' = [pc EXCEPT ![h] = IF Fits(h) THEN "append" ELSE "unlink"]
  /\ UNCHANGED <<entry, handler, preparing, failed, hurried, text, size, dropped,
                 waiting, line, bytes, caught, written, turner, due, overlap>>

\* os.remove(self._backup_log_path)
Unlink(h) ==
  /\ pc[h] = "unlink"
  /\ exists' = exists \ {"backup"}
  /\ dropped' = dropped \o text["backup"]
  /\ text' = [text EXCEPT !["backup"] = <<>>]
  /\ size' = [size EXCEPT !["backup"] = 0]
  /\ turner' = h /\ due' = bytes[h]
  /\ pc' = [pc EXCEPT ![h] = "move"]
  /\ UNCHANGED <<entry, handler, preparing, failed, hurried, waiting, line, bytes,
                 caught, written, overlap>>

\* os.replace(self._log_path, self._backup_log_path), which would overwrite a
\* backup that somebody else has made meanwhile
Move(h) ==
  /\ pc[h] = "move"
  /\ IF "log" \in exists
     THEN /\ exists' = (exists \ {"log"}) \cup {"backup"}
          /\ dropped' = dropped \o text["backup"]
          /\ text' = [f \in Path |-> IF f = "log" THEN <<>> ELSE text["log"]]
          /\ size' = [f \in Path |-> IF f = "log" THEN 0 ELSE size["log"]]
     ELSE UNCHANGED fileVars
  /\ pc' = [pc EXCEPT ![h] = "append"]
  /\ UNCHANGED <<entry, handler, preparing, failed, hurried, waiting, line, bytes,
                 caught, written, turner, due, overlap>>

\* The job of handler h is over.
JobEnds(h) ==
  /\ turner' = IF turner = h THEN 0 ELSE turner
  /\ pc' = [pc EXCEPT ![h] = "idle"]
  /\ line' = [line EXCEPT ![h] = None]
  /\ bytes' = [bytes EXCEPT ![h] = 0]

\* faulty: mode "wb"
Overwrite(h) == [text EXCEPT !["log"] = <<line[h]>>]

Extended(h) == [text EXCEPT !["log"] = Append(@, line[h])]

AppendLine(h) ==
  /\ pc[h] = "append"
  /\ "dir" \in exists
  /\ exists' = exists \cup {"log"}
  /\ text' = Extended(h)
  /\ size' = [size EXCEPT !["log"] = @ + bytes[h]]
  /\ written' = Append(written, line[h])
  /\ due' = IF turner = h THEN 0 ELSE due
  /\ JobEnds(h)
  /\ UNCHANGED <<entry, handler, preparing, failed, hurried, dropped, waiting,
                 caught, overlap>>

\* An exception in the job (a full disk, a file or the directory that another
\* actor has taken away) is logged by _catch_new_log; the line is lost.
AppendFails(h) ==
  /\ Busy(h)
  /\ JobEnds(h)
  /\ UNCHANGED <<entry, handler, preparing, failed, hurried, fileVars, waiting,
                 caught, written, due, overlap>>

-----------------------------------------------------------------------------
(* The config entry. *)

\* setup_watchers: a new LoggerHandler listens; a task of its own is to prepare
\* the directory,
Load ==
  /\ entry = "unloaded"
  /\ handler < NumHandlers
  /\ handler' = handler + 1
  /\ preparing' = preparing \cup {handler + 1}
  /\ entry' = "loaded"
  /\ UNCHANGED <<failed, hurried, fileVars, appendVars>>

\* whose executor job (_ensure_log_dir) runs at any time later, and may fail,
\* which is logged.
PrepareDir(h) ==
  /\ h \in preparing
  /\ preparing' = preparing \ {h}
  /\ exists' \in {exists, exists \cup {"dir"}}
  /\ UNCHANGED <<entry, handler, failed, hurried, text, size, dropped, appendVars>>

\* LoggerHandler.remove: the listener goes, running tasks do not.
Unload ==
  /\ entry = "loaded"
  /\ entry' = "unloaded"
  /\ UNCHANGED <<handler, preparing, failed, hurried, fileVars, appendVars>>

\* The process ends at any point of a rotation or of a removal; the files stay.
Crash ==
  /\ entry # "removed"
  /\ entry' = IF Intact THEN "unloaded" ELSE "removed"
  /\ hurried' = (hurried \/ ~Intact)
  /\ preparing' = {}
  /\ waiting' = [h \in Handler |-> <<>>]
  /\ pc' = [h \in Handler |-> "idle"]
  /\ line' = [h \in Handler |-> None]
  /\ bytes' = [h \in Handler |-> 0]
  /\ turner' = 0
  /\ UNCHANGED <<handler, failed, fileVars, caught, written, due, overlap>>

\* async_remove_entry, the store being gone: remove_logs_files, one path after
\* the other, where a file that is not there is passed over, then
\* remove_logs_dir_if_empty
Removed(f) ==
  /\ exists' = exists \ {f}
  /\ text' = [text EXCEPT ![f] = <<>>]
  /\ size' = [size EXCEPT ![f] = 0]

RemoveLog ==
  /\ entry = "unloaded" /\ handler > 0
  /\ entry' = "removing"
  /\ Removed("log")
  /\ hurried' = UnderWay
  /\ UNCHANGED <<handler, preparing, failed, dropped, appendVars>>

BackupForgotten == UNCHANGED <<exists, text, size>>      \* faulty: the log only

BackupRemoved == Removed("backup")

RemoveBackup ==
  /\ entry = "removing"
  /\ entry' = "leaving"
  /\ BackupRemoved
  /\ UNCHANGED <<handler, preparing, failed, hurried, dropped, appendVars>>

\* os.remove raises anything but FileNotFoundError: the rest is passed over and
\* async_remove_entry logs it.
RemoveFails ==
  /\ \/ /\ entry = "unloaded" /\ handler > 0
        /\ hurried' = UnderWay
        /\ failed' = "log"
     \/ /\ entry = "removing"
        /\ failed' = "backup"
        /\ UNCHANGED hurried
  /\ entry' = "removed"
  /\ UNCHANGED <<handler, preparing, fileVars, appendVars>>

\* An OSError of rmdir is ignored.
RemoveDir ==
  /\ entry = "leaving"
  /\ entry' = "removed"
  /\ \/ exists = {"dir"} /\ exists' = {} /\ UNCHANGED failed
     \/ failed' = "dir" /\ UNCHANGED exists
  /\ UNCHANGED <<handler, preparing, hurried, text, size, dropped, appendVars>>

Quiescent ==
  /\ ~UnderWay
  /\ entry = "removed" \/ caught = Line \/ (entry = "unloaded" /\ handler = NumHandlers)
  /\ UNCHANGED vars

-----------------------------------------------------------------------------
AppendStep(h) ==
  Measure(h) \/ Unlink(h) \/ Move(h) \/ AppendLine(h) \/ AppendFails(h)

Next ==
  \/ \E l \in Line : Catch(l)
  \/ \E h \in Handler : Begin(h) \/ AppendStep(h) \/ PrepareDir(h)
  \/ Load \/ Unload \/ Crash
  \/ RemoveLog \/ RemoveBackup \/ RemoveFails \/ RemoveDir
  \/ Quiescent

Spec == Init /\ [][Next]_vars

-----------------------------------------------------------------------------
(* Properties. *)

TypeOK ==
  /\ entry \in {"loaded", "unloaded", "removing", "leaving", "removed"}
  /\ handler \in 0 .. NumHandlers
  /\ preparing \subseteq Handler
  /\ failed \in {"none", "log", "backup", "dir"}
  /\ exists \subseteq Path \cup {"dir"}
  /\ text \in [Path -> Seq(Line)]
  /\ size \in [Path -> Nat]
  /\ waiting \in [Handler -> Seq(Line)]
  /\ pc \in [Handler -> Writing \cup {"idle"}]
  /\ line \in [Handler -> Line \cup {None}]
  /\ \A h \in Handler : Busy(h) => line[h] \in Line
  /\ bytes \in [Handler -> 0 .. MaxBytes]
  /\ caught \subseteq Line
  /\ written \in Seq(Line) /\ dropped \in Seq(Line)
  /\ turner \in {0} \cup Handler /\ due \in 0 .. MaxBytes
  /\ overlap \in BOOLEAN /\ hurried \in BOOLEAN

\* What the two files hold, older first, is the end of what was written: a
\* rotation loses the oldest lines only and repeats none, whoever else rotates
\* and wherever the process ends.
KeptIsSuffix == Intact => dropped \o text["backup"] \o text["log"] = written

\* Neither file outgrows the 3 MiB of its tail that a report takes, so no line
\* is cut from a report; unless two handlers appended at once.  Even then each
\* handler can add no more than that, as it measures before it appends.
SizeBound ==
  \A f \in Path : size[f] <= MaxBytes * (IF overlap THEN handler ELSE 1)

\* Once old lines are dropped, the files hold the last MaxBytes of the log and
\* more, except for the length of one line: the one the last rotation was made
\* for, as long as it is not written, or if it never was (the job failed or the
\* process ended in between); unless two handlers rotated at once, which drops a
\* fresh backup.
Retention ==
  Intact /\ ~overlap /\ dropped # <<>> =>
    size["backup"] + size["log"] + due > MaxBytes

\* What a removal leaves behind is what it failed to remove and what it would
\* have removed after that, nothing else: no line or directory under way comes
\* after it, and no file is forgotten; unless a job was under way when it began,
\* or the process ended in between.
LeftBy(f) ==
  CASE f = "none"   -> {}
    [] f = "log"    -> {"log", "backup", "dir"}
    [] f = "backup" -> {"backup", "dir"}
    [] f = "dir"    -> {"dir"}

NothingLeftBehind == entry = "removed" /\ ~hurried => exists \subseteq LeftBy(failed)
=============================================================================
