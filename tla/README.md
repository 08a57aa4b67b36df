# A specification of the Robonomics report service

TLA+ models of the Home Assistant integration under
`src/custom_components/robonomics_report_service/`, the TLC runs that check them
and the TLAPS proofs about them. Paths below are relative to that directory.

The integration collects problems of a smart home and sends them to an
integrator: a report is encrypted, archived, pinned on Pinata (IPFS), and the
IPFS hash is recorded on the Robonomics parachain as a datalog.

## 1. The system

| Part | State | Operations | Talks to |
|---|---|---|---|
| `robonomics.py`, class `Robonomics` | the datalog deque, the worker task, the queue lock, the current endpoint and the account bound to it | `send_datalog`, the worker, `_send_datalog` under `_retry_decorator`, `change_current_wss` | the parachain (in a thread), `IPFS` (unpin) |
| `report_service.py`, class `ReportService` | the send lock; temporary directories while a report is made | `async_init` (sweep), `send_report` | `utils/file_handler.py`, `IPFS`, `Robonomics` |
| `utils/file_handler.py` | the file system | staging, issue file, archive, deletion, sweep by prefix, removal of logs | executor threads |
| `ipfs.py`, class `IPFS` | none (credentials are loaded for each call) | pin a file or a directory, unpin what a payload names | Pinata, storage |
| `error_watchers/watchers/logger_handler.py` | two log files; the buffer of records, its window, two locks | catch an event, append to the log, count, flush | system log, executor, `ErrorWatcher` |
| `error_watchers/watchers/entities_checker.py` | the check lock, the first-run flag, the window | periodic check, scan, grouping, preview | registries, `ErrorWatcher` |
| `error_watchers/watchers/error_watcher.py` | none | `_get_email`, `_send_report` | storage, the service call |
| `error_watchers/error_watchers_manager.py` | started or not | set up and remove all watchers | the watchers |
| `__init__.py` | the entry's data | setup, unload, removal | all of the above |
| `utils/encrypt_tools.py` | none | envelope encryption for several recipients, decryption, parsing | |
| `utils/ha_storage.py`, `config_flow.py` | the store of credentials; the data of a dialog | save, load, remove; the two steps of the flow | Home Assistant |

How they interact. Everything except executor jobs and the datalog's thread
runs as coroutines of one event loop. A watcher's issue becomes a call of the
service `send_problem_report`, which runs `ReportService.send_report`; this
hands the hash of the pinned archive to `Robonomics.send_datalog`, which returns
at once. A worker task sends queued hashes one by one, and unpins one whose send
failed. A reload of the config entry makes new objects (with new locks, queues
and workers) while coroutines of the old ones run on; the store, the file
system, Pinata and the chain are shared by all.

What is hard here: two suspension points between an append and the check for a
worker; a worker that ends while a request comes in; outcomes that are unknown
after a timeout; executor threads that read files which another thread rotates
or deletes; locks held over an await; three temporary directories, each
half-known while it is made; dialogs, set-ups and removals that share one store;
and the end of the process anywhere. `PROJECT.json` lists each hazard at its
line with the properties that look after it.

What makes each part correct:

- *Datalog queue*: one worker, nobody's request stranded, first come first
  served, each payload sent once, one send at a time over all endpoints, and an
  archive unpinned only when its send was given up.
- *Report service*: no temporary directory without an owner, an honest outcome,
  archives that miss no listed file but for a rotation that deletes it, reports
  handed over in the order of the calls, no pin that nothing refers to, and calls that always end.
- *Way of an issue*: over reloads and crashes each issue gets an end and each pin
  a use, or a fault accounts for it; records keep the order of the calls.
- *Raw log*: the two files hold the end of what was logged, in order, within
  the size that a report takes, and vanish with the entry.
- *Accumulated reports*: every event counted once, in the window it belongs to,
  with figures that fit.
- *Entities checker*: windows without gap or overlap, that report what was a
  problem in them; counts, groups and preview that agree.
- *Life cycle*: one instance, with the credentials its user gave, running only
  while its entry is loaded, and leaving nothing behind.
- *IPFS client*: figures that add up and failures that are told.
- *Envelope*: whoever is addressed reads the data, and nobody else does.

## 2. Modules

| Module | Models | Proofs |
|---|---|---|
| `DatalogDelivery` | abstract: what `send_datalog` promises | |
| `Robonomics` | the datalog queue, its worker tasks, threads and endpoints; implements `DatalogDelivery` | `RobonomicsProofs` |
| `ReportIntake` | abstract: what `send_report` promises | |
| `ReportService` | `send_report`, the temporary directories, the pin, and the sweep at setup; implements `ReportIntake` | `ReportServiceProofs` |
| `ReportPipeline` | watcher, service, report and datalog queue composed, over reloads and crashes; its queues implement `DatalogDelivery`, its instances `ReportIntake` | `ReportPipelineProofs` |
| `LogRotation` | the raw log with its rotation and removal | `LogRotationProofs` |
| `ReportWindows` | abstract: what the accumulated reports promise | |
| `LoggerHandler` | counting and flushing of log events; implements `ReportWindows` | `LoggerHandlerProofs` |
| `EntitiesChecker` | the checks of the entities and the issues made of them | `EntitiesCheckerProofs` |
| `Lifecycle` | configuration dialogs, storage, set-up, unload and removal of the entry, the watchers manager | `LifecycleProofs` |
| `Ipfs` | unpinning and pinning of several hashes | `UploadProofs` |
| `Envelope` | encryption for several recipients | `UploadProofs` |
| `MC...` | constants and bounds for TLC | |

Definitions marked `faulty:` are mistakes one could make in the definition that
follows them; no action uses one. They show that a property can fail: with any of
them in place of the real definition its property is violated.

### Robonomics

| Model | Code (`robonomics.py`) |
|---|---|
| `queue`, `workerTask`, `wss` | `_datalog_queue`, `_worker_task`, `current_wss` with `sender_account` |
| `SendDatalog`, `EnsureWorker` | `_handle_datalog_request`: the append; then, after the await of `_queue_lock`, the test and `async_create_task` |
| `WorkerPops` ... `WorkerUnpins` | the loop of `_datalog_worker`, cut at its awaits |
| `WorkerDrained`, `WorkerFinishes` | the last look at the queue; `finally` with its second look |
| `Interrupt` | an exception other than `RobonomicsError` leaves an await of the loop body |
| `AttemptBegins`, `AttemptEnds` | one turn of `Retrying` in the thread |
| `chain`, `pinned` | outside: the parachain's records, Pinata's pins |
| `accepted`, `started`, `abandoned` | history |

An `async with` is a suspension point, so the append of a request and its
critical section are two steps. Both critical sections are free of awaits, which
makes each one step and the lock invisible. Whether `async_create_task` runs the
first segment of the worker at once is left open. A failed attempt may leave a record on
the chain: the extrinsic is submitted before the call waits for it.
`change_current_wss` is one step; what may be seen half-way, with two threads in
it, needs an interrupted worker: `EndpointCoverage` promises then the number of
attempts but not where they went, `OneSendAtATime` speaks of the other threads. All exceptions but `ExtrinsicFailedException` are one action,
since the code treats them alike. (Code 1014 is meant to wait longer, but
`_substrate_code` returns a string and is compared with a number, so that branch
is never taken; it would differ only in time.)

### ReportService

| Model | Code |
|---|---|
| `lock` | `_send_lock` of each instance, holder first: `asyncio.Lock` is first come first served |
| `known` | the locals `temp_logs_dir`, `temp_archive_dir`, `temp_issue_dir` that are not `None` |
| `dirs`, `inside` | directories under the common prefix, and the files in them |
| `MakeIssueDir` ... `ZipFails` | the jobs of `file_handler.py`, one file operation a step |
| `Pin`, `PinFails` | `IPFS.pin_file_to_pinata` |
| `DeleteDir`, `Finish` | the `finally` of `send_report` |
| `ListTempDirs`, `Sweep...` | `_clear_temp_dirs`, in `async_init` |
| `Setup`, `Loaded`, `Unload` | `__init__.py` |
| `ListLog`, `CollectFiles` | `_get_logs_files`: one `isfile` after the other |
| `RotateLog`, `RemoveLogs` | what `LoggerHandler` and `async_remove_entry` do to the log files meanwhile |
| `version`, `listed`, `copy` | the log file at each path; history: those a report has found there, and has read |

A log file is made once and has a number; `version` says which is at the path
of the log and which at that of the backup, so a rotation takes the number along,
as `os.replace` takes the content. A report lists paths first and opens them
later, one after the other in the order of the list (`Before`): what it reads at a
path need not be what it found there. `WholeReport` follows each log file that
was found to where it ended: in the archive under either name, or deleted, or at
the backup's path when no backup was listed. Every other file is its name:
staging puts an encrypted file under its source's name.
A directory is removed in one step by its owner and file by file by the sweep,
since it is the sweep that meets an owner at work. The check and the use of a
path inside one job (`isfile`, then the upload) are one step. All reports end in
one of three classes: `ok`, `validation` (`ServiceValidationError`) and
`error` (`HomeAssistantError`).

`ReportIntake` is the contract the rest of the system relies on: callers of an
instance are served one at a time in the order of their calls, an upload comes
before the hand-over, a call ends well exactly when its hash was handed over,
and a crash loses those still in line. The mapping reads the line off `lock`.

### ReportPipeline

`SendReport` is `ErrorWatcher._send_report`, which makes a task that makes a
task: `MakeCall` ends the first, `Dispatch` or `NotFound` is the second, in
`async_call`. `owner` is the instance whose handler was registered at that
moment, `line` its send lock, `queue` and `working` its `Robonomics`. The
service and the queue are taken at the level of their contracts. `Unload` and
`Setup` leave what is under way alone, as `__init__.py` does: the old objects
work on beside the new ones. `LateRecord` is a submitted extrinsic that gets into
a block after its send was given up or cut short.

The composition takes its parts at their contracts, and `KeepsContracts` checks
that it does not ask for more or give less: `FirstDelivery` reads a
`DatalogDelivery` off the first queue, `Intake` a `ReportIntake` off all
instances. For the latter, `Uploaded` is whatever was pinned once (the intake
knows no unpinning), and `Known` what the caller of `send_report` knows: nothing
before a handler took the call, and nothing more once the process has ended.

### LogRotation

`waiting` and `pc` of a handler are its `_log_lock` and the executor job under
it; `Measure`, `Unlink`, `Move`, `AppendLine` are the steps of
`_append_log_with_rotation`. `MaxLine` exceeds `MaxBytes`, so that lines are cut;
`turner` is the handler whose rotation is under way, and `due` the length of the
line that rotation makes room for, until that line is written: the one line by
which `Retention` may fall short of `MaxBytes`, a line that is lost to a crash or
an exception included. A handler measures the file
before it appends, so what it adds leads to `MaxBytes` at most beyond what the others add
meanwhile: `SizeBound` allows `MaxBytes` for each handler made.
`AppendFails` is any exception of the job, which `_catch_new_log` logs. Every
`Load` makes a handler with a lock of its own, so handlers may overlap after a
reload: `overlap` remembers that it has happened. `Load` also starts the task
that prepares the directory; `PrepareDir` is its job, which runs at any time later
and may fail. `RemoveLog`, `RemoveBackup` and `RemoveDir` are
`async_remove_entry` after the store is gone, one operation on the file system a
step; `RemoveFails` is an `os.remove` that raises, after which the rest is passed
over (`failed` remembers where), while an `OSError` of `rmdir` is ignored.

### LoggerHandler

An event passes `_log_lock` (the raw line), then `_acc_lock` (counting). A flush
holds `_acc_lock` while it loads the e-mail, so it is two steps: `TakeFigures`
and `FinishFlush` (or `FlushFails`, when the storage raises). `draft` holds the
figures taken before the await. An event counts with the timestamp of its log
record, which was made in any thread before the event is fired (`Fire` takes any
time up to now), or with `utcnow` after the raw line is done (`RawLineDone`). Times
are therefore not in the order of events; `order` is the order of firing, and
`FiguresFit` says that `first_seen` and `last_seen` of an entry are the times of its
events fired first and last. `top_events` in the code are the entries
themselves, not copies; the model copies them, which is the same since nobody
changes an entry while the lock is held and the buffer is then replaced. The
signature is the pair of level and message (logger name included): equal for
equal events, as a digest is for our purpose. Which of equally frequent
entries are listed is left open.

### EntitiesChecker

`lock` is `_lock`, holder first. A check waits for it, sleeps if it is the first
(`Delay`), scans in one step (the scan has no await), and either moves the window
(`ScanNothing`) or loads the e-mail with window and ids fixed (`ScanFinds`, then
`Report` or `EmailFails`). `Change` and `Tick` go on meanwhile: `seen` remembers
when each entity was a problem. Grouping, counts and previews are operators; a
preview takes any `limit` members of a set, since the order of a set's list is
open. Names of devices and areas are left out.

### Lifecycle

An entry is named by the dialog that creates it. `OpenDialog` to `CreateEntry`
are the steps of `config_flow.py` with `async_save_to_store` cut at its awaits
(load and compare, then write); `LoadCreds` to `FinishSetup` are
`async_setup_entry`; `Unload`, `RemoveEntry` and the `Remove...` steps are unload
and removal. Home Assistant is external: it aborts a second dialog with the same
unique id (and that check runs at each form, as the code calls it), runs set-up,
unload and removal of one entry in turn, takes an entry off its list before
`async_remove_entry`, and writes the list to disk some time later (`Persist`),
which is what makes a crash between two writes matter. `watchers` counts
`setup_watchers` calls that were not undone; `logs` is whether log files exist.

### Ipfs

One call at a time; each hash or file is a step in the thread. Payloads are a
dictionary, its JSON text, broken text, blank text, or a hash; values of a
dictionary are hashes, blanks, or no strings. Pinata may remove or pin, refuse
with a dictionary, or raise with or without effect. Nothing in `src/` calls the
pinning of a directory; it is modelled all the same.

### Envelope

Cryptography is symbolic: a key wrapped for two people opens for them, a box
opens with its key or reports damage. An address belongs to a person and may
have several spellings, `AddressOf` is the one an account gives for itself.
`Damaged` garbles, loses or swaps parts before anybody reads.

## 3. Runs

| Run | Instance | Shows |
|---|---|---|
| `robonomics` | 3 payloads, 2 tasks, 2 endpoints, 1 interrupt; fair | all safety properties of the queue; it implements `DatalogDelivery!FairSpec`, so that every accepted payload is taken up and settled |
| `robonomics_chain` | 2 payloads, 1 endpoint | finding: `OnChainStaysPinned` fails |
| `report_safety` | 2 reports (one with an issue), 3 setups, 1 crash, 1 directory that stays, 3 log files made one after the other | directories, outcomes, contents and pins |
| `report_live` | 2 reports, 2 setups, 1 crash, 1 directory that stays, 1 log file; fair | every setup ends; implements `ReportIntake!FairSpec`, so that every call ends, in the order of the calls |
| `report_archive` | 1 report, 2 setups, saved traces | finding: `ArchiveComplete` fails |
| `log_rotation` | 4 lines of 1 to 5 bytes, files of 4, 2 handlers; symmetric | order, bounds and retention over rotations and crashes; removal, when each of its steps may fail |
| `log_windows` | 4 events (two alike, one of the integration itself), 2 flushes, 3 instants; fair | figures, windows, every task ends; implements `ReportWindows` |
| `pipeline` | 3 issues, 2 setups, 1 crash, 1 interrupt; fair | every pin is explained, records keep the order, every issue is settled; queue and intake keep their contracts, after an unload too |
| `lifecycle` | 2 dialogs, 2 forms, 1 crash; fair | one instance, its own credentials, nothing runs or stays without an entry; every set-up and removal ends |
| `entities` | 5 entities (2 devices, 2 without one, 1 of them unregistered), 3 checks, 3 instants, 3 changes; fair | windows, truth of reports, counts and previews; every check ends |
| `ipfs` | 2 files, 3 hashes, 2 calls | figures add up, failures are told |
| `envelope` | 3 people, 5 addresses (one no address, one person with two) | who reads and who does not |

Some runs bound the product of things that do not depend on each other with a
CONSTRAINT of their MC module:

- `MCRobonomics!Scope`: payloads are called in one order (`CallsInOrder`; they are
  interchangeable), and an interrupted worker meets at most two.
- `MCReportService!SafetyScope`: rotations that replace the backup meet one report,
  in one instance and a reload of it; two reports meet one reload; a third set-up, and
  a crash or a stuck directory, meet one report. `LiveScope`: two reports compete
  for one lock; one report meets a reload, and a crash or a directory that stays.
- `MCLoggerHandler!Scope`: equal tasks begin in one order; the integration's own
  event, which is never counted, fires at the first instant.
- `MCReportPipeline!Scope`: issues begin in one order; a third one meets reloads,
  and no fault.
- `MCEntitiesChecker!Scope`: checks begin in one order (`ChecksInOrder`); a single check
  meets a home in every state (`AnyHome`), several meet two changes of an entity
  of each sort (`TwoChange`).

Why the bounds are enough. *Tasks*: two workers are the most that can be alive,
one in `finally` and its successor, and `SoleWorkerAlways` is proved for any
number. *Payloads*: the third can arrive while the first is sent and the second
queued, which covers a queue of every length up to two behind each state of the
worker. *Endpoints*: two is the least that rotates; `EveryEndpointTried` is
proved for any number. *Reports*: the lock and the sweep each relate two.
*Setups*: two overlap; a third cleans up after a crash of the second. *Log files of a report*: three are a log, a backup and the log that replaces both,
so that either path can have changed between listing and reading. *Sizes*: files
of four bytes with lines of up to five give full, exact and overfull files, cut
lines, and two rotations in a row. *Flushes*: two windows in a row, with events before,
between and during them. *Dialogs*: one that made an entry and one that competes
with it, or follows its removal. *Checks*: one that sleeps, one that waits behind
it, and one after both. *Addresses*: two spellings of one person are the least
that a mistaken spelling needs. All invariants of the passing runs are also proved,
for any bounds and without the constraints.

Deadlock is checked in all runs. A `Quiescent` step is the way to stand still,
and says when the system has nothing left to do; where standing still would hide
a lost task (`LoggerHandler`, `EntitiesChecker`), a liveness property says that
there is none.

## 4. Fairness

Weak fairness only, and only for what the event loop and the executor drive: a
coroutine that can run is run in the end, a job or a call to the chain ends (by
its timeout, if not otherwise), and a free lock is handed on. Calls, events,
timers, dialogs, reloads, crashes and interrupts are never forced. Nothing
demands that an upload, a save or a send *succeed*: fairness is stated for the
disjunction of an operation's steps, its failures included.

## 5. Findings

- **An archive is unpinned although its datalog is on chain**
  (`robonomics_chain`). `record` submits the extrinsic and then waits. If the
  wait fails, the attempt counts as failed; `const.py` lists one endpoint per
  network, so this is the last attempt; the worker unpins the archive. The
  integrator sees a report that cannot be downloaded.
- **A report can go out without some of its files** (`report_archive`). A
  reload while a report is being made starts `async_init` of the new
  `ReportService`, which deletes the staging directory file by file under the
  archiver. `create_temp_archive` zips what is left and reports success. The same sweep makes
  an upload or a staging job fail, which is harmless: the caller is told.
  `WholeReport` shows that this sweep, and only that of an instance later than the
  report's own, is the one way to leave out a file that was listed: the instance's own
  set-up is not. Log rotation cannot leave a listed name out either, but it can change
  what is read under it, which is the next point.

Met while modelling, in the models as the code has them, and stated by no run of
their own:

- A report lists the log files at `report_service.py:157-162` and opens them later
  (`utils/file_handler.py:53`, `:197`). A rotation in between
  deletes the backup that was listed, and its lines are not in the report; the former
  log is then read as the backup (a second time, when it was read before it moved), or,
  when no backup was listed, not at all. `WholeReport` says that this is all that can
  be missed.
- `last_seen` of an accumulated entry may be before its `first_seen`: they are the
  timestamps of the records of the events fired last and first
  (`logger_handler.py:123-127`), and records of different threads need not be fired
  in the order they were made (`FiguresFit`).
- When `os.remove` fails on the log file while an entry is removed, the backup
  and the directory stay too (`utils/file_handler.py:207-211`); the error is logged
  and the removal reported as done (`__init__.py:144-147`, `failed` in
  `NothingLeftBehind`).
- `error_watcher.py:41` says "error-aware", but the call is made in a task
  that is not awaited: neither handler at lines 53 and 56 can see an error of it.
  An issue that is refused is gone (`notFound` and `failed` in `IssuesSettle`).
- `error_watchers_manager.py:29` says "Stop all watchers"; a check that is
  running goes on, and its report goes to whichever instance is loaded then.
- `README.md:9` of the repository says all logs are collected; what is in the buffer when the
  entry is unloaded (`logger_handler.py:68`) is not reported in accumulated form.
- An issue that cannot be encoded leaves its directory until the next setup
  (`leaked` in `NoOrphanDirs`).
- `config_flow.py:100-142`: when the generation of the seed fails at the first
  pass and works at the second, the entry runs with a seed the form has not shown
  (the repository's `README.md:48` promises it).
- `ipfs.py:223` counts a refusal that comes back as a dictionary as a success,
  which `ipfs.py:124-134` treats as an error when pinning; the warning at
  `robonomics.py:158` is then not given (`refused` in `FailuresTold`).
- `encrypt_tools.py:67` takes any spelling of an address, and `:114` looks for
  one: a recipient given in another SS58 format is not "authorized"
  (`AddressedRead` is stated for an account's own address).
- `encrypt_tools.py:194-199` returns metadata "if metadata was added"; an object
  that has a `payload` of its own is taken for it (likewise excepted).
- A dialog that overlaps the removal of an entry may end with an entry that has no
  credentials: the removal deletes the one store there is (`raced` in
  `EntryHasItsCreds`).

## 6. Proofs

TLAPS proves, for all values of the constants under their named assumptions
(each in the module that declares the constants; mostly that `None` is none of
the values and that bounds are natural numbers):

| Module | Invariants of the runs | Refinements | Beyond the runs |
|---|---|---|---|
| `RobonomicsProofs` | `SoleWorkerAlways`, `NothingStranded`, `FifoOrder`, `PinsAreKept`, `SendsDoNotOverlap`, `EveryEndpointTried` | `DeliversInOrder` | `NothingLost`, `FatesTellTheTruth`, `FatesStay` |
| `ReportServiceProofs` | `OutcomesAreTruthful`, `EveryPinAccounted`, `NoDirIsForgotten`, `ReportsAreWhole` | `ServesCallsInTurn` | `HandedOnAtMostOnce`, `AnswersStand` |
| `ReportPipelineProofs` | `EveryPinExplained`, `RecordsInCallOrder` | `EachQueueDelivers`, `EachInstanceServesInTurn` | `AnswersMatchTheChain`, `EndsStay` |
| `LogRotationProofs` | `LinesKeptInOrder`, `FilesStayBounded`, `EnoughIsKept`, `NothingStays` | | |
| `LoggerHandlerProofs` | `WindowsHold`, `FiguresAreRight` | `PublishesEachOnce` | |
| `EntitiesCheckerProofs` | `NoGapNoOverlap`, `ReportsAreTrue`, `IssuesAreRight` | | |
| `LifecycleProofs` | `NeverTwo`, `CredsAreTheEntrys`, `RunningForTheEntry`, `RemovalIsComplete` | | `OneServiceAtATime` |
| `UploadProofs` | `NoRecipientMissing`, `OnlyTheAddressedRead`, `TheAddressedCanRead`; `UnpinFiguresAddUp`, `NoFailureUntold` | | |

and type correctness of each modelled component. `UploadProofs` holds both ends of
an upload, the envelope and the client. The invariants of the runs are stated in the
models, those that only carry a proof in the proof modules. Two
assumptions are there for counting: `RegistryAssumption` and `FileAssumption` say that a home has finitely
many entities, and a directory finitely many files.

The last column holds what no run asks for, and what the invariants of the runs leave
open. `NothingLost`: a payload of the datalog queue without a fate is queued once
or with one worker. `FatesTellTheTruth`, `AnswersMatchTheChain`: what the code goes by
agrees with the chain, in the queue by itself and on the way from the watcher to it.
`HandedOnAtMostOnce`: the queues of all instances together get a report once.
`FatesStay`, `AnswersStand`, `EndsStay` are action properties: a fate, an answer
and the end of a call or a send are never taken back by a retry, a reload, a restart or
a late step of an old object. `OneServiceAtATime`, likewise, is what
`ReportPipeline` takes for granted of `Lifecycle`: the service goes from entry to
entry by way of none, with its credentials unchanged while it is registered. That a
hash is on chain at most once is *not* claimed: a timed out attempt may have
submitted its extrinsic before the next one submits another, and the models keep
only whether (or in which order) there is a record.

None of the invariants is inductive as it stands; the strengthenings, and why
they are needed:

- *Robonomics*, three layers, each inductive relative to the one before.
  `Typed`: the types with `WorkerInv`; one has to know that `_worker_task`, when set,
  is alive, and that a queue without a worker has a request before its critical
  section. `QueueSafe`: `QueueInv` (queued payloads are distinct and untried, what is
  unpinned has been given up) with `FifoOnce` and `UnpinOnlyAfterGivingUp`.
  `ThreadInv`, `HeldInv`, `CountInv` and `RotationInv`: a running thread has a worker that waits
  for it, unless that one was interrupted and its payload abandoned, which no
  worker holds any more; so the threads of all others exclude each
  other, and while nothing was interrupted the endpoints of a send are consecutive from
  its first; the attempts are counted whoever else sends, and
  after `NumEndpoints` of them they are all the endpoints, once each.
  For the fates, `IdleInv` and `ChainInv`: what was asked for and has no thread is
  queued, a send that returned has its record, and nothing has one without an attempt.
- *ReportService*. `Typed` adds to the types that whoever is at work is first in
  the line of its lock (`LockHeld`), that what the logs directory holds are files
  (`LogsHoldFiles`), and that nothing is swept but in a set-up (`SetupHeld`). `Handed` relates
  a report's place to pin, hand-over and result, for outcomes and pins. `Accounted` says of each
  directory who knows of it at each place of its report (`Tracked`), which sweep still has it on its list
  (`Awaited`), and that the histories are true (`Bookkept`). `Whole` says which files a directory, a job
  and an archive hold between them at each step (`Held`), unless a sweep began with
  that directory (`Swept`), which is then one of a later instance (`Elders`: an
  instance that is still being set up has no reports). `Versions` follows the log files:
  the log is younger than the backup, paths only get younger files (`InOrder`), and as the
  log is read before the backup and moves towards it, a report that lists both cannot
  miss the log it found (`Followed`). `InOwnLine`: what an instance
  has handed on are its own reports, each once, so that no two instances share one.
- *ReportPipeline*. `Placed`: an issue is in one line, then in one queue or with
  one worker, of the instance that took the call, as its stage and fate say.
  `Ordered` carries the order of the calls from the line through queue and
  worker to the chain: the order within each, and of whatever was handed on before those still
  in line. `Explained` carries a pin's reason from step to step. `Handed` (an instance
  has been handed exactly those of its issues that have a fate) and `Taken` (who is about
  to be handed over is pinned) are for the contracts. `CourseOf` sums up what one step may
  do to one issue, from which `Honest` and the ends follow.
- *LogRotation*. `KeptIsSuffix` needs that an absent file has no lines, and
  survives any overlap of handlers and any crash. While no two
  handlers have overlapped, the sizes need the state of the append under way: the log is
  full while it rotates (`RotatedWhenFull`), and the line fits when it is appended
  (`AppendFits`), and the one handler whose rotation is under way is about to write the
  line that is due (`TurnIsDue`, `MovesInTurn`). Once they have, `TogetherFits` counts the appends under way:
  of `k` handlers about to append, the last one that measured leaves room for the
  other `k - 1` lines within the bound; an append uses one of these up, whichever
  comes first. `Cleared` follows a removal that no line races: from its start no
  handler has a line or is to prepare the directory, so that nobody makes a file again,
  and at each place what is still there is what was not yet removed, or what a failure
  keeps (`StillThere`).
- *LoggerHandler*. `Kept`: tasks that wait are in line, and a flush that loads the e-mail
  stays first; so nobody counts meanwhile. `Windowed`
  adds that no event was counted before the window of the buffer began, and that a
  draft's end is not before any event it covers. `InOrder` says that both lines are in the order in
  which the events were fired (not of their times), the raw log's behind the other, so that an
  event is counted after all that were fired before it. `Tallied` ties the buffer to the
  events that are counted and not yet reported: one entry for each signature, one count for
  each event, and the times of those of its events that were fired first and last. `Drawn` says that a draft still agrees
  with the buffer. A sum over entries is the number of pairs of an entry and a position
  in its count (`Occurrences`), so that sums need no induction: that one more event
  adds one is a fact about the size of a set.
- *EntitiesChecker*. The holder of the lock is the only check past it, and its
  draft starts where the last window ended; what it found was a problem at the moment it
  was fixed, which is within the window. `IssueInv` keeps the way from issues to windows
  (`CarriedBy`) beside the figures of each issue: a new window that found something
  gets a new issue at the end of it, one that found nothing leaves it alone.
- *Lifecycle*. `LifecycleInv` with `Places` (which states of dialog, entry and
  removal go together, one at a time), `Running` (service and watchers by the
  state), `Trust` (whose credentials the store holds, and until when) and
  `Remains` (what excuses that something is left).
- *Envelope*. A wrapped key is of the sender and the owner of an address asked
  for, damage or not.
- *Ipfs*. From the loop to the result each hash asked for is still to be done, or went
  well, or failed, one of the three (`Sorted`); the figures are the sizes of the last two when
  nothing is left to do (`Taken`). For a directory, `Pinning` does the same with the
  files.

The refinement theorems are about the safety part of the contracts, step by step:

- `DeliversInOrder`: a worker's pop takes up, the step that ends a send for good
  settles, an interrupt abandons; a thread's attempts, the
  locks and a successor of a worker are stutters. Fates are read off
  thread and worker (`FateOf`), so one has to know that an interrupted payload is not
  held again (`HeldInv`).
- `ServesCallsInTurn`: of the steps of `send_report` the append to the lock's
  line, the upload, the hand-over, and the release are seen from outside; all files and sweeps are
  stutters. That a release answers "ok" exactly after a hand-over is `Handed`.
- `EachQueueDelivers` and `EachInstanceServesInTurn`: the same two contracts, for every
  instance of the composed system, where issues, reloads and crashes of
  others are stutters. A reload changes neither line nor queue; that is what makes the
  overlap of old and new objects harmless.
- `PublishesEachOnce`: counting is a step of `ReportWindows` when the entry changes, a
  flush when it replaces the buffer after the await; its figures are those of that moment
  although they were taken before it (`Drawn`).

Only model-checked, since fairness and `ENABLED` are beyond the prover:
`SetupEnds`, `TasksEnd`, `IssuesSettle`, `JobsEnd`, `ChecksEnd`, and the fairness of
the contracts in `ImplementsDelivery`, `ImplementsIntake` and `KeepsContracts`.

## 7. Not modelled, and what could follow

- Cancellation of `send_report` (`CancelledError` is no `Exception`, so a
  half-staged job's directories stay until the next setup): it needs the identity of
  executor jobs apart from their coroutines.
- That a report which reads the same log under two names holds its lines twice: the
  model shows it (`copy`), and no property forbids it. A file that grows between two reads
  is one file there; a read takes the end of whatever the file holds by then.
- Schemas of the forms, the wording of messages, names of devices and areas,
  `generate_seed` beyond its failure, constants, exceptions, translations and the
  manifest: no behaviour of their own.
- The nonces of two instances that share an account: the chain decides.

What could follow: what the contracts imply by themselves (that a `DatalogDelivery`
records in the order of its requests, say), proved of the abstract modules and
carried over by the refinements; how much of the log is kept when handlers
overlap (`Retention` is silent there, `SizeBound` is not).
