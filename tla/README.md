# Duplicate Download Guard PRO: a TLA+ model

Duplicate Download Guard PRO (DDG) is a Windows desktop program in Go with a local web interface.
It scans remote sources (MEGA, GoFile, BUNKR, direct links, whatever gallery-dl and yt-dlp read),
compares what it finds with an index of local folders, and downloads what is missing after an
"ExactGuard" check that nothing already owned is downloaded twice.

This directory holds TLA+ modules that model the parts of the program where interleavings, crashes
and failing calls decide whether it is correct, the TLC configurations that check them, and proofs
that TLAPS checks. `PROJECT.json` lists components, runs, mutants, the map from definitions to
source lines, findings, hazards and theorems.

## 1. Inventory of the system

| Component | State it keeps | Operations | Interacts with | Hard behaviour | What makes it correct |
|---|---|---|---|---|---|
| Download queue (`v8_extra.go`, `download_core_v855.go`) | `q.Jobs`, `q.Cancels`, both under `q.mu`; one goroutine per launched job | scheduler tick, `runJob`, `handleQueueAdd`, `handleQueueAction`, `queueFor`, queue part of `shutdownApp` | ExactGuard, the engines, `megaQueueMu`, the queue file | user actions against workers that still run; late writes; restarts; retries; two locks | a running job has a worker; one worker per job; cancel reaches it; nothing unchecked is transferred; one MEGA job; concurrency; queued jobs are served |
| ExactGuard (`download_guard.go`, `smart_media_guard.go`) | live index, fresh-index snapshot, `guardMu` | `runDownloadGuard`, `refreshLiveIndexForGuard`, `evaluateDownloadGuard`, `applyGuardDecisions` | queue, results table, index, caches, MEGA | a verdict is used long after it was given; unreadable files; cancellation in mid-evaluation | never DOWNLOAD for a file that is there; nothing but proof becomes VERIFIED |
| Local index (`main.go`, `download_guard_fresh_cache.go`) | `App.index`, its lookup maps, the last refresh | three walks, `ensureHash`, `addDownloadedToIndex`, pruning | ExactGuard, comparisons, checks | hashes are computed without a lock while files and index change | an entry as new as its file has that file's hash |
| Media caches (`media_meta_cache.go`, `image_signature_cache.go`, `audio_segment_cache.go`, `video_fingerprint_cache.go`) | `Entries`, `Dirty`, `Generation`; one file each | add, prune, load, save | ExactGuard, cache warmer | changes during a save; failing renames; crash in mid-replacement | file never torn; clean means stored |
| Queue file (`download_queue.json`) | the file, its `.tmp` and `.old` | `q.save`, load | every goroutine that changes the queue; the history watcher reads it | savers are not serialised | the last change is the one on disk |
| Persisted state (`main.go` save/load, `persistence_recovery.go`) | `config.json`, `index.gob.gz`, `last_results.json.gz`, `manual_decisions.json`, each with `.tmp` and `.good.bak` | save under `persistMu`, recovery at start, backup every 3 s | everything | crash between two file operations; a backup racing a save | the newest complete state is what a restart sees |
| Operation slot and results table (`main.go`, `v7_extra.go`) | `opRunning`, `a.cancel`, `a.results`, `a.decisions`, undo stack | index, scans, compare, deep verify, mark, undo, cancel | ExactGuard, history | check-then-set of the slot; writes by `ResultID` after a new scan | a taken slot is given back; a write hits the row it was meant for |
| aria2 (`aria2_rpc.go`) | daemon process, secret, `j.GID` | add, unpause, tell, pause, remove, shutdown | queue workers and handlers | late pause against unpause; stale GID | a running job's transfer runs; a removed one is gone |
| MEGA session and previews (`mega_session.go`, `mega_preview_controller_v8526.go`, ...) | session gate, preview state, generation counter, routes | begin, prepare, commit, serve, cancel, restart, settle; `startMegaPreview` beside the controller | ExactGuard, queue (`megaQueueMu`), shutdown | supersede, lock order, 5 s gate timeout | last selection wins; gate released on every path; no session changed under its user; the account restored |
| UI watchdog (`lifecycle.go`, `lifecycle_false_hint_guard_v85117.go`) | heartbeat, exit hint, window state, tick counters | tick, heartbeat, beacon, clear false hint | shutdown | racing clocks | stops when the window is gone, never for a quiet renderer |
| Updater and recovery helper (`updater_native.go`, `update_recovery_*`) | executable, backup, pending file, health marker | apply, wait for health, roll back, clean up | the running program and its successor | crash in mid-replacement, two actors | an executable that starts is always in place |
| Download history (`download_history_registry.go`) | history entries and file | sync after a save, decision for a result | queue file, results | reads at three different times | a file that was downloaded and is as it was is known |
| Providers, media comparison, local preview, JDownloader, web UI, Windows glue | mostly none | parsing, signal code, streaming, display | all of the above | external answers | not a matter of control; see section 15 |

The interactions that matter: HTTP handlers, the scheduler and the workers share `q.mu`; each worker
calls ExactGuard under `guardMu`, which may in turn try `megaQueueMu`; a MEGA worker holds
`megaQueueMu` while it transfers; every change of the queue is followed by `q.save`; shutdown edits
the queue, cancels what `q.Cancels` holds, and only then stops the HTTP server; the next process
loads what the last save left.

## 2. Plan

The modules, in the order of importance in which they were written:

| # | Modules | What they are about |
|---|---|---|
| 1 | `DownloadQueue`, `DownloadQueueProofs` | the queue, its scheduler, workers, handlers, shutdown and restart (the core) |
| 2 | `FileContents`, `ReplaceFile`; `CacheFile`, `QueueFile`; `DurableValue`; `FileProofs` | the file replacement used everywhere, its two kinds of user, and the abstract promise that `CacheFile` implements |
| 3 | `PersistedState`, `PersistedStateProofs` | the four files saved under `persistMu`: crashes, recovery, backup, a second start |
| 4 | `MegaSession`, `ExclusiveSession`, `MegaSessionProofs` | the one MEGAcmd session, the preview selections, scan, download, stop and shutdown that share it |
| 5 | `AriaTransfer`, `AriaTransferProofs` | downloads handed to aria2: workers, handlers, the daemon and its end |
| 6 | `FileVerdict`, `ComparisonProofs` | what is concluded about one file: comparison, remembered decision, checks, ExactGuard |
| 7 | `LocalIndex`, `ComparisonProofs` | the index under concurrent walks and hashes, and the exact comparison that trusts it |
| 8 | `ResultsTable`, `ComparisonProofs` | rows, decisions and undo under overlapping comparisons, checks and downloads |
| 9 | `HistoryRegistry`, `FileProofs` | which downloads are remembered, and under which file |
| 10 | `OperationSlot`, `WatcherProofs` | `opRunning`, `guardMu` and the worker that applies changed folders |
| 11 | `UIWatchdog`, `WatcherProofs` | when the backend stops because its window is gone |
| 12 | `NativeUpdater`, `NativeUpdaterProofs` | one executable replacing another, with health check, roll back and the recovery helper |

`MCDownloadQueue`, `MCPersistedState`, `MCMegaSession`, `MCAriaTransfer` and `MCNativeUpdater`
instantiate one specification each for TLC. `MCComponents` puts six specifications that share no
state beside each other (`CacheFile`, `QueueFile`, `LocalIndex`, `ResultsTable`, `HistoryRegistry`,
`FileVerdict`), and `MCWatchers` two (`UIWatchdog`, `OperationSlot`): the variable `of` is chosen
initially and names the one a behaviour follows, the variables of the others do not move. A proof
module likewise serves all the modules it is named beside. The modules that are extended together
name their `Init`, `Next`, `Spec` and `vars` after themselves (`QueueInit`, `HistoryNext`,
`tableVars`, `SlotSpec`), so that what is checked there and what the proofs are about is the same
definition. This is a way to run small specifications together, not a composition: where components
interact, the interaction is inside one module (the queue with its locks, the session with its users,
the walks with ExactGuard, the updater with the helper).

Still worth doing:

- `PreviewMedia`: the requests that are served through a selection's route, their retries and
  evictions, composed with the jobs of `MegaSession`; the undo of a scan or a download that is
  cancelled (the two hazards without a property).
- An abstract specification of the queue, as seen by its user, and of the recovery of a persisted file,
  with their refinements; so far `DurableValue` and `ExclusiveSession` are stated and proved.

## 3. DownloadQueue

State. `status`, `guarded` (GuardVersion is current), `override`, `remote`, `priority` are the fields
of a `DownloadJob` that anything depends on; a job is its number in order of creation, "absent" when
it was not created or was removed. `cancelFn` is `q.Cancels`. A worker is a goroutine: `pc` is its
place in `runJob`, `owner` its job, `cancelled` its context, `verdict` and `tries` its local
variables. `megaLock` is `megaQueueMu`. `closing` says the queue part of `shutdownApp` has run.
`vetted` and `tangled` are history variables used only in properties: the jobs ExactGuard cleared
since their add or last resume, and the jobs resumed while a worker of theirs was still alive.

Actions. Each is one critical section of `q.mu`, or what a worker does between two of them.

| Code | Actions |
|---|---|
| `scheduler` (925) | `SchedulerTick`, with `Limit`, `Candidates`, `Chosen` |
| `runJob` (1014) | `WorkerStart`, `GuardFails`, `GuardEvaluates`, `GuardReturns`, `CommitVerdict`, `Judge`, `CheckEngine`, `BeginAttempt`, `AcquireMega`, `TransferEnds`, `Verify`, `ReportError`, `Backoff`, `WorkerExit` |
| `handleQueueAdd` (1310) | `AddFindsDuplicate`, `AddNeedsReview`, `AddAccepted` |
| `handleQueueAction` (1510) | `Pause`, `Resume` (resume and retry), `Cancel` (cancel and stop-all), `Remove`, `ClearCompleted`, `ChangePriority` |
| settings | `ChangeConcurrency` |
| `shutdownApp` | `Shutdown` |
| crash, exit and `queueFor` (848) | `Restart` |

Abstractions. A file is an identity (`stableRemoteKeyV855`); several files added in one request are
added one at a time, which the lock makes equivalent for what is checked here, since nothing of one
file's entry depends on another's. `Known(f)` is any subset of the older jobs of the remote, because
the handler finds only those whose `ResultID` still names the selected row. An engine returns a file
or an error; the error is one that pauses, one that fails, or one that is retried. Saves are atomic
with the change they follow, so the table is the file: `QueueFile` says when that is so, and when
not. The scheduler reads the concurrency under `a.mu` just before it takes `q.mu` (`v8_extra.go:929`), in
the model in one step: in the code a tick that overlaps a change of the setting may still go by the old
one. `shutdownApp` calls the cancel functions right after it has released `q.mu` (`lifecycle.go:242`), in
the model in the same step; a worker launched just then for a job resumed just then is reached by neither.
ExactGuard called by the HTTP handlers may hold `guardMu` and `megaQueueMu` for a while; the
model leaves these holds out (they end, and the properties do not tell them apart from a slow worker).
After `Shutdown` the scheduler and the HTTP servers go on until the process ends, as in the code,
where `shutdownApp` runs before `srv.Shutdown`.

### Runs

| Run | Checks | Bounds, and why they are enough |
|---|---|---|
| `queue_one_job` | `RunningHasWorker`, `OneWorkerPerJob`, `ActiveIsReachable`, `TransferIsVetted`, `CompletedIsFinal` | 1 job, 3 workers, 5 operations: enough for pause, resume, pause, resume with three generations of workers of the same job alive together, and for a restart in between |
| `queue_liveness` | `OneMegaJob`, `RespectsConcurrency`, `QueuedIsServed`, `RunningEnds`, `CancelledWorkerLeaves` | 3 jobs, one of them a legacy job without identity; two MEGA files that compete for the single MEGA place and for `megaQueueMu`, and another file; 2 workers, concurrency changing between 1 and 2, priorities, 2 operations; fairness |
| `queue_recheck` | `ResumedJobIsRechecked`, violated | see Findings |

`Retries` is 1, so the retry loop is entered, left by exhaustion and left by cancellation. Deadlock
is not checked in these runs: with every job finished and no operation left the queue really rests.
Workers are symmetric in the runs without liveness. The jobs' types are proved for every value of
the constants (`TypeCorrectness`) and need no run.

`OneWorkerPerJob`, `ActiveIsReachable`, `TransferIsVetted` and `CompletedIsFinal` except the jobs in
`tangled`. This is not a convenience of the model: without the exception TLC refutes each of them, and
`queue_recheck` shows one way it happens.

`OneWorkerPerJob` is about jobs, not about destinations. A job that is cancelled or removed under its
worker does not keep its file from being added again, and until the old worker has wound down two
workers, of two jobs, may write the same destination: nothing in the code excludes it, and no property
does.

Fairness. `SchedulerTick` is weakly fair because the ticker fires every 500 ms for the life of the
process. Each worker is weakly fair: a goroutine that can run does, given that ExactGuard and every
transfer attempt end (they run under timeouts or external programs that end). Nothing is assumed of
users, of crashes or of the settings.

## 4. Files: ReplaceFile, CacheFile, QueueFile, DurableValue

`FileContents` says what a file can hold and what two savers that write the same open file leave in it:
one of the contents or a mixture. `ReplaceFile` has one action per file system call of `os.WriteFile`
and `replaceCacheFileV85`, for any number of savers that share `<path>`, `<path>.tmp` and `<path>.old`.
A call may fail. A rename of the temporary file fails while another saver has it open (Go opens files on
Windows without `FILE_SHARE_DELETE`). A crash is a step that makes the savers vanish and leaves the
files.

`CacheFile` adds `Entries`, `Dirty`, `Generation` and `SaveMu`, the same in the four media caches
(the map points to the code of each). `Change` may happen at any step of a save. `QueueFile` is the
queue, saved under no lock, by `update`, by the handlers and by a worker's clean-up; its replacement is
an instance of `ReplaceFile` (`Disk`) over variables of its own.

`DurableValue` is the promise of a cache: the stored copy catches up with a value the memory has had,
never with an older one than it holds; clean means stored; the copy may be lost while the value is
dirty, never damaged. `CacheFile` implements it under the mapping `Stored`: the file, or the copy set
aside in the middle of a replacement.

Run `components` checks `FileIsIntact`, `CleanIsStored` and `ImplementsDurableValue` of `CacheFile`
and `QuietMeansSaved` of `QueueFile` with 2 savers and 3 versions: a save, changes during it, a failed
replacement, a crash, and a second save over what they left. Every call may fail, any number of times.

## 5. PersistedState

One of the four files `persistenceSpecsV85` lists, with its companions: the primary, `.tmp`,
`.good.bak`, and the `.recovering` and `.old` files that `copyValidatedPersistenceV85` and
`replaceCacheFileV85` put beside the primary and beside the backup. A file holds a version of the
state, is `Missing`, or is `Torn` (does not validate). `inPlace` says whether it is `config.json`.
`time` holds modification times, which `persistenceFileNewerV85` and the backup's stamps compare.

| Code | Actions |
|---|---|
| `saveDecisions`, `saveIndex`, `saveResults`, `saveConfig` | `BeginSave`, `OpenTarget`, `WriteTarget`, `RenameTmp` |
| `copyValidatedPersistenceV85`, `replaceCacheFileV85` | `Copy`, `Recheck`, `RenameCopy`, `MoveAside`, `SwapIn`, `RollBack`, `RenameLast` |
| the 3 s loop | `BackupTick` |
| a start: `recoverPersistenceDirV85`, first snapshot, `init`, `newApp` | `Launch`, `Recover`, `ClearPending`, `Restore`, `Snapshot`, `Claim` |
| the end of a process, at any point | `LiveEnds`, `LaunchEnds` |

There are two copiers: the backup of the live program, and a program that is starting, which may
start beside a live one, since recovery precedes the claim of the single instance. The four files do
not depend on each other, so one is enough. `saveResults` takes its snapshot of the table just after it
has created the file, the others before; the model takes it at `BeginSave`, which is the weaker choice.
The backup reads the stamp and validates in one step.

Four history variables serve the properties. `saved` and `backed` are the versions last saved and
last put into the known-good copy. `intruded` says a program was started beside a live one.
`defeated` says something happened that this recovery scheme has no answer to: a recovery whose own
copy failed while the primary was no good, a replacement that could not be rolled back, or a process
that died while the known-good copy was moved aside.

| Run | Checks | Bounds, and why they are enough |
|---|---|---|
| `persisted_state` | `SavedSurvives`, `BackupSurvives` | either kind of file, 2 versions, 3 starts, saves beginning before time 4: a crash in a save, a crash in the recovery from it, and a third start over what both left |
| `persisted_second` | `SecondLaunchIsHarmless`, violated | see Findings |

The passing run does not explore beyond a state in which `intruded` or `defeated` has become true
(`Undisturbed`): both stay true for good, and the properties claim nothing from there on. Deadlock is
not checked: after the last start has ended nothing more happens.

## 6. MegaSession

MEGAcmd is logged in to one session at a time: the user's account, a public folder, or none. Every
operation that logs in or out, or whose commands depend on where MEGAcmd is, takes the token out of
`megaSessionGate` first. The module has those that the program calls: up to `MaxSelections` preview
selections of the controller, and one each of a scan, a download, a preview started beside the
controller (`startMegaPreview`), a stop of the preview and the shutdown.

`startMegaPreview` is called where a check, a comparison or the external player wants a stream
(`remoteTarget`, `v7_extra.go:464`; `main.go:2743`, `2956`, `3573`). It keeps `previewMu` from the look at
`App.preview` to its own record of it, so that whoever needs that mutex waits (`PreviewFree`). It either
serves a file of the folder that is open, or ends the preview and opens the folder like a scan, and it
does not tell the controller. It gives the gate back when it returns: the stream its caller then reads is
not protected, and the module ends there. `startMegaPreviewForUIV854`, its variants and the controller's
`prepareSource` and `commitSource` are left out: only tests refer to them.

State. `session` is MEGAcmd's (external). `gate` is the token. `preview` is `App.preview` without the
route. `generation`, `selection`, `closed`, `source`, `routes` are the controller's fields; a source
(`megaPreviewSourceV8526`) is named by the generation that made it, and `sources` and `jobs` are the
tables of both, so that a job may keep a source that was replaced. `live` is a context that was not
cancelled. `pc`, `link`, `old` and `todo` are the places and local variables of the operations;
`cancelled` holds the scan's and the download's context. `click` is a `/start` request between
`previewMu` and `c.mu`. `committed` is a history variable.

| Code | Actions |
|---|---|
| `begin` | `ClickRead`, then `ClickRefused`, `ClickCached` or `ClickManaged` |
| `cancelCurrent`, `evictJobRouteV8527` | `CancelCurrent`, `Evict` |
| `preparePerFile` and what it calls | `JobAcquire`, `JobGiveUp`, `JobDirect`, `JobClaim`, `JobRecover`, `JobRetry`, `JobDecide`, `JobResume`, `JobProbe`, `JobDetach`, `JobLogin`, `JobOpened`, `JobAgain`, `JobCheck`, `JobRemember`, `JobCommit`, `JobPublish`, `Leave` |
| `acquireMegaSession`, `stopMegaPreviewWhileSessionOwned`, `stopMegaPreviewLocked` | `OpAcquire`, `OpGiveUp`, `OpInvalidate`, `OpLock`, `OpStopOut`, `OpStopIn`, `Leave` |
| `stopMegaPreview` | `StartStop`, `StopLook` and the above |
| `runMegaScan`, `downloadMegaResults` | `WorkProbe`, `WorkDetach`, `WorkLogin`, `ScanFind`, `ScanCompare`, `ScanKeep`, `DownloadGet`, `DownloadNext`, `UndoOut`, `UndoIn` |
| `startMegaPreview`, `switchMegaPreviewSameSourceV85` | `StartTarget`, `TargetLock`, `TargetSwitch`, `TargetServe`, `TargetRecord`, and `OpStopOut`, `OpStopIn`, `WorkProbe`, `WorkDetach`, `WorkLogin`, `UndoOut`, `UndoIn` |
| `shutdownApp`, `settleMegaOnShutdown` | `StartShutdown`, `SettleClose`, `SettleTake`, `SettleOut`, `SettleIn` |

A step is one critical section or one command. A command whose context is cancelled before it begins
does nothing; one that has begun ends (the code gives it a timeout, and a command killed by its
timeout counts among the failures of `Unreliable`). A file's lookup finds it exactly when MEGAcmd is in
its folder, unless the command fails; the failures are the classes that the code tells apart
(`Results`). The choice between `logout` and `logout --keep-session` is not kept in `session`; it
matters to `AccountNotEnded`, whose subject is a plain `logout`. `session` itself never fails, and
MEGAcmd is found. A job's two looks at
its context and at the controller in `commitPerFileV8527` are one step: the source cannot become
current again and the source's previous session changes only under the gate that the job holds.

| Run | Checks | Bounds, and why they are enough |
|---|---|---|
| `mega_session` | `WorksInItsFolder`, `AccountNotEnded`, `Arbitrated`, `RecordsOpenFolder`, `LatestWins` | 2 folders of one file, 2 selections; at most 3 of the 7 operations in one behaviour (`Few`), any of them: each property relates at most two operations and one that has gone before. The login may fail. The two folders are symmetric |
| `mega_answers` | `TypeOK`, `SelectionAnswered` | at most 2 of the operations in one behaviour, any of them; every command unreliable, so that the pipe recovery and every error path is taken; fairness, no symmetry |
| `mega_restored` | `SessionRestored`, violated | reliable commands; see Findings |

Deadlock is checked: the program goes on until it has ended (`Ended`).

Fairness. Each job, the request between its locks, and each of the other operations are weakly fair:
every command has a timeout, and every wait for the gate has one or ends with its context. A stop that
is started, a shutdown, clicks and cancellations are not assumed to happen. The wait for the gate is
weakly fair even beside others that want it, because a job's wait ends after 20 s.

## 7. AriaTransfer

A job handed to aria2 is a transfer in a daemon that outlives the worker. A worker finds or starts the
daemon, continues the transfer whose GID its job carries or adds a new one, and asks for its state every
400 ms; cancelled, it pauses the transfer or, for a job cancelled for good, removes it. The handlers
clear `j.GID` and let a goroutine of its own remove the transfer.

State. `recorded` is `j.GID`, `gid` the worker's copy of it, `seen` what its last `tellStatus`
returned. `transfer` and `removals` are the daemon and the clean-up goroutines. `phase` is how far
`shutdownApp` has come. The jobs are jobs of one file, as they follow each other in the queue;
`DownloadQueue` has what happens before a transfer, so a job here is cleared by ExactGuard when it is
queued.

| Code | Actions |
|---|---|
| `scheduler`, start and retries of `runJob` | `Launch`, `Attempt`, `Finish`, `Failed`, `Exit` |
| `ariaRPCFor`, `ensure` | `Manager`, `DaemonDies` |
| `runAriaRPCQueueJob` | `Read`, `Unpause`, `Add`, `Store`, `Tell`, `Told`, `Notice`, `Hold` |
| `handleQueueAdd` | `AddJob`, `Block`, `Review` |
| `handleQueueAction` | `Pause`, `Resume`, `Cancel`, `Remove` |
| `removeAriaQueueJobsAsync` | `CleanUp` |
| `shutdownApp`, `shutdownAriaRPC` | `CloseQueue`, `CloseDaemon` |
| aria2 (external) | `Completes` |

A call about a transfer takes effect and is answered, is refused without effect, or takes effect
while its answer is lost (`Answered`, `Troubled`). The daemon's options, its secret and its speed
figures are left out; a new daemon knows none of the old transfers.

Run `aria_transfer` checks `RunningIsFollowed`, `ClosedIsQuiet` and `WorkerGetsOut` with 2 jobs, 2
transfers, 2 workers, one retry, and 2 among user operations, the shutdown, calls in trouble and deaths
of the daemon: a pause and a resume while the first worker is still leaving, a cancel and a new add of
the same file, a lost answer followed by a resume, a daemon that dies under a worker that is being
cancelled. `strayed` names the transfers about which a call lost its answer or was refused
although it could have been carried out: what happens to those is up to the daemon. `tangled` is that of
`DownloadQueue` and an exception of `ClosedIsQuiet` alone; `WorkerGetsOut` has none. `doomed` are the
workers the shutdown cancelled.

Fairness. A worker that can move does. The `select` of `runAriaRPCQueueJob` does not take the ticker
for ever when its context is done, which is strong fairness of `Notice`. A transfer that runs ends.

## 8. OperationSlot

Foreground operations test `opRunning` and take it in separate steps, overwrite `a.cancel` in between,
and give the slot back twice: in `endOp` or `failOp`, and again in a deferred function. The worker of
`local_folder_refresh_v857.go` waits until the slot is free, takes `guardMu`, which ExactGuard holds while
it judges, and then tries to take the slot.

| Code | Actions |
|---|---|
| the handlers and goroutines of indexing, scan, tools, download | `Look`, `Arm`, `Claim`, `Finish`, `EndOp`, `Again`, `Gone`; for a download first `TakeGuard`, `Judged` |
| `handleCancel`, `handleConfig` | `Cancel`, `Configure` |
| `noteLocalFolderConfigHeartbeatV857` | `Heartbeat` (reads the folders), `Note` (takes the state's lock) |
| `runLocalFolderRefreshWorkerV857` | `Top`, `Wait`, `Lock`, `Try`, `Prune`, `Walk`, `Unlock`, `Apply` |

What a refresh does goes by two readings of the folders: its target, noted before it began, says what has
gone; the configuration of the moment says what of that is there again, and what is walked. `covered` is
the outcome, the folders whose files the refreshes have in the index; `applied` is the signature that the
worker goes by. Saving the index may fail in `Prune` and `Walk`; where `compareRemote` saves it again, an
error is only logged, and is none in the model. Other operations that rebuild the index (section 11) are
not followed here, so `covered` speaks of the refreshes alone.

Run `watchers` checks `SlotIsOwed` and `FoldersAreApplied` (`FoldersApplied` of a behaviour of this
module) with two folders, an indexing and a download, 3 operations begun or changes of the folders in any
mixture, 1 refresh that fails and 1 heartbeat in flight. Three changes are enough for the folders to leave
what the worker has begun with, to come back to it and to leave it again.

`FoldersApplied` says two things. The worker comes to rest at the signature of the folders that are
configured, however often they were changed. And a folder that was added or removed once is in the index
exactly if it is configured. Of a folder that was changed more than once (`wavered`) the second is not
true, see section 12.

Fairness. Operations end, the page goes on sending heartbeats (every few seconds, while the window is
open), and the goroutines of each operation, of the heartbeats and of the worker run: weak fairness of
each. A bounded number of operations begins, so the worker's wait for the slot and for `guardMu` ends.

## 9. UIWatchdog

Every second the watchdog and the false-hint guard each look at atomics written by the page's heartbeat
and exit beacon, and at the native window: its handle once latched, its title otherwise. A handle may be
destroyed, and be that of DDG's next window again; the search by title may miss. Windows of other programs
are not modelled: neither one that gets the handle, nor one with a like title.

| Code | Actions |
|---|---|
| `startUIWatchdog` | `BeginTick`, `LookClosed`, `LookPresent`, `Decide` |
| the guard's loop (`lifecycle_false_hint_guard_v85117.go`) | `GuardLoad`, `GuardClears` |
| one second passes | `Second` |
| `handleUIHeartbeat`, `handleUIExitHint` | `Beat`, `ExitHint` |
| Windows and the user (external) | `Desktop` |

Time is discrete, one `Second` per tick of the loops; ages stop counting where nothing more depends on
them. The four graces of the code are constants whose order `WatchdogAssumption` names and the run
keeps: the native close before the false-hint guard's, that before the slow fallback; `GoneTicks`
before the cap of `missingTicks`. Run `watchers` takes 1, 2, 3, 2 and 4 of them in place of the seconds
of the code, and two window handles, one after the other or the same again.

`StopIsJustified` uses two history variables: `steady`, the window could be found throughout the tick;
`unseen`, ticks in a row that did not find it. `ClosedWindowStops` assumes that time passes and that
the loops and a handler that has begun run; nothing is assumed of the page.

## 10. NativeUpdater

Two processes can replace the executable: the updater, a copy of the program started before it leaves,
and the recovery helper, which outlives the program and is asked by a page that lost its backend. Each
is one instance of the same actions (`Movers`), with the steps that only one of them has.

| Code | Actions |
|---|---|
| `handleUpdateApply`, `handleUpdateInstallOnline`, `stageUpdateAndRestart` | `ApplyLocal`, `InstallOnline`, `Leaves` |
| `runNativeUpdater`, `recoveryApplyUpdateV85119` | `Fetch`, `Begin`, `AwaitParent`, `CleanOld`, `Backup`, `Verify`, `Start`, `Wait`, `Sweep`, `Kill` |
| `copyFileDurable`, `replaceFile` | `Open`, `Drop`, `Aside`, `Swap`, `Back` |
| the start of the program | `Repaired`, `MarksHealthy`, `Checks`, `Cleans` |
| the helper's requests, the user, the machine | `AskHelper`, `StartByHand`, `Close`, `PowerCut` |

A file holds "old", "new", nothing or half a copy ("torn"). `online` says whether the update says which
version its marker must show. A mover may lose patience with a new version that is only slow (`Wait`), and
a new version may never get as far as its marker. The updater's clean-up is a process of its own that may
fail to start (`Sweep`). The helper may be asked again once it is done. Any file call may fail (`MaxFaults`
2: one for the copy and one for putting it back) and at most 2 of a power cut, an update staged, a request
to the helper, a start or a close by the user happen (`MaxEvents`), so that two updates meet.

Left out: a second click on "update" in the 900 ms before the program leaves, which would start a second
updater (`v8_extra.go:1835`), and an update staged by the instance that an update has brought.

Run `native_updater` checks `ExecutableSurvives`, `OnlyHealthyStays` and `UpdateEndsRunning`. Their
exceptions are history variables, each for something the code has no answer to: `met`, both movers were
at work at once; `cut`, the power went during an update; `meddled`, the user or the clean-up of the old
instance took part; `unbacked` and `unrestored`, a mover gave up on its backup. `ExecutableSurvives` has
the one exception `met`, `UpdateEndsRunning` has `cut`, `unbacked` and `unrestored`, and
`OnlyHealthyStays` all but `unbacked`; a property without any one of its exceptions is refuted by TLC
within the bounds of the run.

Fairness: processes that can run do, except that a new version need not get through its start; nothing of
the user.

## 11. LocalIndex, ResultsTable, HistoryRegistry, FileVerdict

All four are checked in run `components`.

`LocalIndex`. A file is its version; every write makes a new one with a new modification time. An entry
is the version it was made for and the hash it carries, the version whose content was read.

| Code | Actions |
|---|---|
| `runIndex`, the walk before a comparison, `refreshLiveIndexForGuard` | `StartWalk`, `Visit`, `CancelWalk`, `Publish` |
| `ensureHash` | `Verify` or `Compare` (`Lookup`), `ReadFile`, `ReadFails`, `Store` |
| `addDownloadedToIndex`, `pruneRemovedLocalRootsV857` | `AddDownloaded`, `Prune` |
| `reuseFreshGuardIndexV8545` | `Reuse`, `Expire` |
| `exactLocalHashMatch`, `evaluateDownloadGuard`, the answer | `Judge`, `Clear`, `Report` |
| programs beside DDG (external) | `Write`, `Delete` |

2 files: the wanted one, which `runIndex` passes over and the other walks do not, and one of a listed
kind outside the configured folders. 1 change and 2 walks: an entry is being hashed while its file is
written, and a walk that copied the index before that publishes after it. The proofs are for any number
of each.

`ResultsTable`. A row is the file it is about, the automatic verdict, the mark and the status shown; its
ID is its place. A comparison (`scan`) has rows of its own until it publishes them.

| Code | Actions |
|---|---|
| `compareRemote` and its callers | `StartScan`, `CompareItem`, `Publish`, `Abandon` |
| `handleMark`, `handleUndoMark`, `handleClearResults` | `Mark`, `UndoMark`, `ClearResults` |
| `handleSelectCandidate` | `SelectCandidate` |
| the checks, ExactGuard | `Copy`, `GiveUp`, `Verdict` |
| downloads and completed jobs | `Copy`, `MarkRow`, `StillSame`, `MarkSame` |

2 remote files in tables of up to 2 rows, 2 comparisons, one check or download, 1 mark and 1 level of
undo: a mark, a new table in another order, its undo, and a verification that was
begun before all of it. `overtaken` names the files of which the code may lose a decision (section 12).

`HistoryRegistry`. `Complete`, `SaveQueue`, `Scan`, `Edit` and `RestartHistory` are what the registry
meets; `StatQueue`, `ReadQueue`, `ReadRows`, `LookAt`, `Enter` and `Save` are the steps of
`syncCompletedQueueToHistoryV85`, which runs in the watcher and in a preflight; it collects its updates
by key, so that of two jobs with one key the last one stays. A file has two keys. `LookupKey` is made of
its row, by `historyRemoteURLV85` and the size the row tells; it is what the file is looked up by. A job is
entered under `RowKey` when the row with its ID is there, with the size of the download where the row tells
none, and otherwise under `OwnKey`, made of `DirectURL` and `BytesTotal`. `Apart` are the files whose own
URL is not what identifies their row, `Unsized` those whose row does not tell the size; for all others the
keys are equal.
`lost` names the IDs whose row was missing while a job had them, and `DownloadsAreKnown` claims for the
jobs of such an ID, and for an unsized file, no more than an entry under the job's own key. That entry is no
answer to the question whether the file was downloaded, at most a reason to look at it
(`stableSourceHistoryDecisionV85`). 2 remote files, one of them apart, 2 outputs, 1 foreign content, 1 row
ID, 2 saves of the queue, 2 changes, 1 restart; unsized files are left to the proof. A results file that
cannot be read is not modelled.

`FileVerdict`. Nothing moves but the verdict: `Compare` is `compareRemote` with the user's decision laid
over it; then any checks (`SelectCandidate`, `DeepVerify`, `FullVerify`, `VisualVerify`, `SmartVerify`);
then the questions of `evaluateDownloadGuard` in their order (`AskHistory`, `AskSize`, `AskIndex`,
`AskHash`, `CannotRead`, `AskContent`, `AskSamples`) and what `applyGuardDecisions` writes into the row.
A local file is what can be told of it: how near its name is, whether it has the size or the content,
whether it can be read, whether it looks alike. A remote file is a picture, a film or neither: pictures are
compared with all that are indexed, of the films at most seven of a like duration, name and size, those
that a fingerprint can be taken of (`media_meta_cache.go:351`); so `MediaPasses` asks nothing of a film,
and `DownloadIsJustified` claims nothing of its looks. 2 local files of any kind, every remote file, every
earlier decision: a verdict compares a file with at most one better one.

The savers, the local and remote files, the comparisons and the synchronisations are symmetric in this
run: no module of it tells them apart, and it checks no liveness. The remote files of the history are not,
since one of them is apart.

## 12. Findings and observations

Findings. Each is a run that TLC finds violated.

1. `queue_recheck`. `v8_extra.go:1039`: a resumed job is "checked again by the backend before any
   downloader is started". The old worker writes `GuardVersion` when its ExactGuard returns, whatever
   happened to the job meanwhile; if that is after the resume, the new worker finds the job checked.
2. `persisted_second`. `ui_window_cleanup.go:96`: "A second launch must only restore the already-running
   healthy DDG instance and must never perform cleanup around it." The recovery is a package-level
   initialiser (`persistence_recovery.go:244`) and runs before that `init`: it may put the `.tmp` of an
   earlier save over a newer primary of the live program.
3. `mega_restored`. `lifecycle.go:163`: "If DDG did replace a previous session, the old session is still
   restored exactly as before." A selection logs the account out (`mega_preview_controller_v8526.go:892`)
   and remembers it for the shutdown only when its preview is recorded. The shutdown cancels the source
   in between: the login to the folder fails, nothing is recorded, and nothing is restored.

Observations have no run; most are why a property has the exception it has.

Queue and files. The clean-up of a worker (`v8_extra.go:1015`) deletes the job's cancel function even
when a newer worker registered it, so that neither Pause nor the shutdown reaches the newer one
(`tangled`). Overlapping saves of the queue share one temporary file and one backup (`v8_extra.go:888`)
and may leave a torn file, where `CHANGELOG_HISTORY_8.5.45.md:376` speaks of an atomic replacement; a
slower save may put an older queue over one that `v8_extra.go:898` calls "durable on disk" (the guard of
`QuietMeansSaved`). While the known-good copy of `config.json` is being replaced it may be at
`.good.bak.old` (`media_meta_cache.go:138`), where recovery does not look (`defeated`).

Operation slot. An indexing that loses its compare-and-swap has already overwritten `a.cancel` of the
operation that runs (`main.go:976`); a deferred release may free a slot somebody else has taken since.
Two operations that pass the test together both hold it. The worker of the folders tells a new state from
its target by comparing signatures (`local_folder_refresh_v857.go:227`), but prunes and walks by what is
configured at that moment. A folder that is removed, comes back before the pruning and is removed again
after it stays in the index; one that is pruned by a refresh that then fails, and comes back, is not walked
again, since the signature is that of the last success. The comment there, that no update is lost
("fără a pierde update-ul", `:228`), holds of the signatures, and of folders changed once (`wavered`).

Watchdog. A window latched by the guard or the first look and destroyed before the watchdog's own look
leaves `missingTicks` at its cap until a window is seen again.

Updater. The updater and the helper know nothing of each other (`met`). A backup that cannot be made,
or a helper copy that cannot be started, ends the updater without starting anything (`unbacked`). A power
cut between the two renames leaves no executable under its own name until it is repaired by hand. The
clean-up of the old instance may delete a request that was just staged. An update from a local file
accepts any health marker (`online`).

Local index. `exactLocalHashMatch` and the sample loop skip candidates that cannot be read and may then
say DOWNLOAD; `ensureHash` believes an entry without looking at the file's modification time, and a
comparison counts its errors as a different hash; overlapping walks may put older entries back;
`compareRemote` reads the index's maps without the lock under which `ensureHash` writes them. `Copies`,
`gSure` and the guard `index[p].stamp = disk[p]` are what these leave of the properties.

Results. A queue job is tied to its row by ID, which the next scan reuses; only
`markDownloadedResultV855` compares the file first (`download_core_v855.go:371`), the old downloads do
not (`v7_extra.go:1173`), and an unrelated file may be marked HAVE for good. `Publish` deletes a decision
that no longer applies even if it was made anew during the comparison, and does not show a mark set after
the comparison had read it. Undoing a mark after a re-scan restores the decision but writes the old row
by ID (`main.go:3122`).

History. After a restart the sync takes an output that was replaced for the download, if its size is
right (`download_history_registry.go:279`); rows' IDs are reused here, too (`reused`). A job whose row is
gone when it is entered gets the key of `DirectURL` and `BytesTotal` (`v8_extra.go:1435`), under which the
file is not looked up if it came from an extractor (`lost`, `Apart`); the comment at `:447` knows that exact
history can miss.

MEGA. `startMegaPreview` moves MEGAcmd to another folder without clearing `sessionProven` of the
controller's source: a lookup that then finds nothing is believed (`shouldResumeSourceV8527`), and the
folder's selections are answered with an error until its source is replaced.

Verdicts. `compareRemote` looks only at the best-named file of the same size, so that a file of the same
size and format may be called MISSING; with a known hash a same-name file of another size is MISSING;
`fullByteCompare` tests the length before the error, and takes a connection lost in the middle for a
different content (`v7_extra.go:553`); a hash of a kind neither side can compute counts as different;
a decision HAVE on another path replaces the path of a VERIFIED row, and selecting another candidate
keeps VERIFIED while the row shows that candidate (`main.go:2604`). Of indexed films at most seven are
compared, and those without a fingerprint are passed over, so that a film that looks like the remote one
may be there and DOWNLOAD be said.

## 13. What is proved

For every value of the constants allowed by `QueueAssumption` (finitely many workers; any files,
retries, concurrency, bounds), `DownloadQueueProofs` proves `Spec => []P` or `Spec => P` for
`TypeOK`, `RunningHasWorker`, `OneWorkerPerJob`, `ActiveIsReachable`, `TransferIsVetted`,
`CompletedIsFinal`, `OneMegaJob` and `RespectsConcurrency`: every safety property the passing queue
runs check, and the types. None of the properties is inductive; the invariant is built in layers:

- `TypeInv`: types; `tries` never exceeds what the loop allows (`Attempts`); a live worker has a job.
- `OwnerInv`: where a job is running, exactly one of its workers can be active (`Ownership`), and the
  cancel function registered is that of a live worker of the job (`Registration`). `RunningHasWorker`
  is a part of it. It needs `Numbering`: jobs not created yet are absent, so an add meets no worker.
- `ReachInv`: for jobs never resumed under a live worker: a queued job has no worker, a live one is
  registered, an active one is running, a completed one has been left.
- `VetInv`: a current GuardVersion was earned, and a worker past ExactGuard is cleared.

Steps are first sorted by what they do to statuses and workers (`StepKinds`), so that the layers are
proved per kind and not per action. `RespectsConcurrency` rests on a counting lemma (`ChosenFits`):
the chosen jobs inject, by their rank, into the free slots.

`FileProofs`, for any number of savers and versions. Of `CacheFile`: `TypeOK`, `FileIsIntact`,
`CleanIsStored` and the refinement `Spec => Value!Spec`. The invariant says that at most one saver
is past `BeginSave` (`Serialised`), what each step of a save finds in the three files (`Progress`),
and that a dirty cache is strictly ahead of its file (`DirtyIsAhead`), which is why a commit never
goes back. Of `QueueFile`, which no lock protects: `QuietMeansSaved`. As long as no two savers have
overlapped (`Alone`), the one at work writes the queue as it is unless a call of its failed
(`OnItsWay`), and a queue that nobody saves is the one in the file (`QuietIsSaved`).

Of `HistoryRegistry`, for any files, rows, synchronisations, saves and restarts: `DownloadsAreKnown`. What
a synchronisation has read is at least what was saved at the time it noted, and exactly that if nothing
was saved since (`JobsRead`); a job is entered under the key of its row, or under its own if the row was missing (`RowsRead`, `KeysFor`), and an output
nobody edited is what it was when it was looked at (`Good`); what has been looked at has an entry or will
have one (`LookedAt`), so that a file of the queue that counts as dealt with is covered (`Covered`).

`PersistedStateProofs` proves `TypeOK`, `SavedSurvives` and `BackupSurvives` for any number of versions
and starts. The invariant `SurvivalInv` says who can be at work when (`Roles`), that nothing is ahead of
the last version produced (`Bounded`), and, while nothing intruded or defeated recovery, what the live
program, the files and a recovery in progress guarantee (`LiveInv`, `FileInv`, `LaunchInv`): in
particular that a recovery that may fail has left the valid primary, or its `.old`, where the next start
needs it. For `BackupSurvives`, which is about `config.json` above all, `Backed` says that no file or
memory a start could go by holds less than the known-good copy (`AtLeast`, `PrimaryLeast`, `Saving`),
that the copy is the one last placed except while a copier has it in hand (`KnownGood`, `BackingUp`), and
for each thing a start may be doing which other file stands in for the one it has just spoilt
(`Starting`, with `Promoting` and `FallingBack`).

`MegaSessionProofs` proves, for any folders, files and number of selections, `TypeOK`, `Arbitrated` (the
refinement of `ExclusiveSession`), `WorksInItsFolder`, `AccountNotEnded`, `RecordsOpenFolder` and
`LatestWins`. The argument has one hinge: `Moves(p)` says of a step that nobody but `p` moves, how `p` may
move the gate, and that `p` touches the session or `App.preview` only from a place where it must hold the
gate (`Holds`). Each action is shown once to be such a move (`StepMoves`); the rest is about moves. The
invariant `Inv` adds to the types that whoever is at such a place holds the gate (`GateHeld`), that
whoever works in a folder finds MEGAcmd there, and that an operation that has ended the preview finds
it ended until it is done (`PreviewClosed`), which is why restoring the account does not contradict
`AccountNotEnded`. `LatestWins` needs `Ordered`: only the current selection is live, and a job about to
publish is no older than what was published; that no second job can be there is again the gate.

`AriaTransferProofs`, for any numbers of jobs, transfers, workers and operations. `RunningIsFollowed`
rests on its strengthening `RunningIsAttended`: the worker that follows a running transfer has not just
been told that it is paused. `ClosedIsQuiet` rests on `TransfersApart`, a result of its own: a transfer
is the business of one job, through every pause, resume, removal and new add (`OwnTransfers`). For jobs
never resumed under a live worker the cancel function registered is that of the only worker
(`Registered`, `QueuedAlone`), so the shutdown has cancelled every worker there was (`DoomedCancelled`),
and none of their transfers is in a daemon that comes up later (`DoomedQuiet`).

`ComparisonProofs`. Of `FileVerdict`, `CopyIsNotHidden`, `DownloadIsJustified` and `VerifiedIsProven` for
any set of local files. A verdict is reached in one step from what the files are; the lemmas go through
the verdicts once (`ByHash`, `ByName`, and one for each check and question). Only `VerifiedIsProven` needs
an invariant, that ExactGuard has said nothing of a row that is still being looked at (`Unjudged`).

Of `LocalIndex`, `HashIsCurrent` and `GuardVerdictHolds` for any files, changes and walks. Versions only
grow, a file is read after the entry that its hash goes into was made, and entries are replaced as a
whole; so every pair of stamp and hash, in the index, in the copy of a walk or with a caller of
`ensureHash`, has a hash of its stamp's version or of a later one (`Sound`). If the stamp is what the
disk has, the hash cannot be later.

Of `ResultsTable`, `RowsShowDecisions` for any files, comparisons, checks and downloads. What is said of
the table must hold of all that will be put into it: the rows a comparison has so far, up to the
decisions it will forget when it is published (`ScanInv`), and the rows an undo would bring back
(`UndoInv`); and a file that was not overtaken has one row (`TableInv`).

`WatcherProofs`. Of `OperationSlot`, `SlotIsOwed`, and that no heartbeat starts a second worker beside the
one whose refresh holds the slot (`SingleWorker`), for any folders, operations and bounds. The invariant
is small because the code's double release is harmless in one direction: whoever stops owing the release
has just released, whether or not the slot was still its own. Of `UIWatchdog`, `StopIsJustified` for any
handles and graces: a window that was there throughout a tick is found (`SteadyIsFound`,
`SteadyIsPresent`), and no counter is ahead of the ticks in a row that missed it (`Counted`, `Missed`).

`NativeUpdaterProofs`, for any number of failures and events: `ExecutableSurvives` and
`OnlyHealthyStays`. `Safe` says that two movers are at work at once only when `met` says so (`OneBusy`),
that nothing is torn (`NoTorn`), that, but for what `meddled` names, no program runs beside an updater that
copies (`UpdaterAlone`), and what is there to fall back on (`Kept`): an executable in its place or moved
aside (`InPlace`) until the updater has a backup, a backup of some mover (`Backed`) while one is replacing
the executable, and again an executable in its place before the backups are cleared away. `Healthy` adds
what
the files hold until the new version has said that it is healthy: the old one in its place, or in the
backup of the mover at work, and nothing else restored (`Restores`); nobody but the new version leaves its
marker (`MarkerIsTrue`).

Assumptions: only the named ones on constants, `QueueAssumption`, `ReplaceAssumption`,
`PersistAssumption`, `MegaAssumption`, `AriaAssumption`, `UpdaterAssumption`, `WatchdogAssumption` and
`HistoryAssumption`, and, stated in the theorems that need them, `NoPath \notin Files` for the verdicts
and `MaxUndo \in Nat \ {0}` for the results. TLC evaluates the named ones in the runs of their modules.

## 14. What is only model-checked

Every safety invariant and every action property of the passing runs is proved. Liveness is out of reach
of the provers: `QueuedIsServed`, `RunningEnds`, `CancelledWorkerLeaves`, `SelectionAnswered`,
`WorkerGetsOut`, `FoldersAreApplied`, `ClosedWindowStops`, `UpdateEndsRunning`. And a proof cannot show
that a property is violated: the three findings are TLC's counterexamples.

## 15. What is not modelled, and why

Left out for good: provider scanning and discovery, the signal code of the media comparison, local
preview streaming, the JDownloader bridge, the web interface and the Windows glue: parsing, signal
processing, I/O and display, in which what can go wrong is in the data. Source history and source
folder learning are advice that no verdict depends on. `FileVerdict` takes what the media comparison
finds as given (`alike`), the queue what an engine does as a file or an error.

Left out inside the modelled components: progress numbers, speeds, stages and messages, the ordering
of lists shown to the user, engine selection beyond "suitable or not", aria2's options, the index's
lookup maps, fetching and comparing the versions of an update, the updaters of other systems. The
serving of preview requests is planned (section 2).

## 16. Running it

    tlc -config queue_one_job.cfg MCDownloadQueue
    tlc -config queue_liveness.cfg MCDownloadQueue
    tlc -config queue_recheck.cfg MCDownloadQueue
    tlc -config persisted_state.cfg MCPersistedState
    tlc -config persisted_second.cfg MCPersistedState
    tlc -config mega_session.cfg MCMegaSession
    tlc -config mega_answers.cfg MCMegaSession
    tlc -config mega_restored.cfg MCMegaSession
    tlc -config aria_transfer.cfg MCAriaTransfer
    tlc -config native_updater.cfg MCNativeUpdater
    tlc -config watchers.cfg MCWatchers
    tlc -config components.cfg MCComponents

    for m in DownloadQueue File PersistedState MegaSession \
             AriaTransfer Comparison Watcher NativeUpdater
    do tlapm ${m}Proofs.tla; done

Every property of a passing run has a mutant in `PROJECT.json`: a faulty variant of a modelled
definition, kept beside it in the module, under which TLC finds the property violated.
