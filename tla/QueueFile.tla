----------------------------- MODULE QueueFile -----------------------------
(***************************************************************************)
(* download_queue.json (v8_extra.go).  Every change of the queue is made   *)
(* under q.mu and followed by q.save, which snapshots the queue under q.mu *)
(* and then writes and replaces the file under no lock at all: the workers,*)
(* the scheduler and the HTTP handlers save at the same time.              *)
(***************************************************************************)
EXTENDS FileContents

VARIABLES
    qDisk, qStep, qHeld, qLatest,\* those of ReplaceFile, for this file
    qJobs,       \* the version of q.Jobs
    overlapped,  \* history: two saves have overlapped in this process
    failed       \* history: a save of this process ended in an error

Disk == INSTANCE ReplaceFile
            WITH disk <- qDisk, step <- qStep, held <- qHeld, latest <- qLatest

queueVars == <<qDisk, qStep, qHeld, qLatest, qJobs, overlapped, failed>>

QueueTypeOK ==
    /\ Disk!FileTypeOK
    /\ qJobs \in Versions
    /\ overlapped \in BOOLEAN
    /\ failed \in BOOLEAN

QueueInit ==
    /\ Disk!FileInit
    /\ qJobs = 0
    /\ overlapped = FALSE
    /\ failed = FALSE

(* Faulty variant: the queue is serialised before it is changed. *)
ChangeJobs_SerialisedFirst(s) ==
    /\ Disk!Idle(s)
    /\ qLatest < MaxVersion
    /\ qLatest' = qLatest + 1
    /\ qJobs' = qLatest'
    /\ qHeld' = [qHeld EXCEPT ![s] = qJobs]
    /\ Disk!Goto(s, "open")
    /\ overlapped' = (overlapped \/ \E t \in Savers : ~Disk!Idle(t))
    /\ UNCHANGED <<qDisk, failed>>

(* A critical section of q.mu changes the queue; its goroutine saves next. *)
ChangeJobs(s) ==
    /\ Disk!Idle(s)
    /\ qLatest < MaxVersion
    /\ qLatest' = qLatest + 1
    /\ qJobs' = qLatest'
    /\ Disk!Goto(s, "snapshot")
    /\ overlapped' = (overlapped \/ \E t \in Savers : ~Disk!Idle(t))
    /\ UNCHANGED <<qDisk, qHeld, failed>>

(* A worker's deferred clean-up saves a queue it has not changed. *)
SaveAgain(s) ==
    /\ Disk!Idle(s)
    /\ Disk!Goto(s, "snapshot")
    /\ overlapped' = (overlapped \/ \E t \in Savers : ~Disk!Idle(t))
    /\ UNCHANGED <<qDisk, qHeld, qLatest, qJobs, failed>>

(* q.Jobs is serialised under q.mu. *)
SnapshotJobs(s) ==
    /\ qStep[s] = "snapshot"
    /\ qHeld' = [qHeld EXCEPT ![s] = qJobs]
    /\ Disk!Goto(s, "open")
    /\ UNCHANGED <<qDisk, qLatest, qJobs, overlapped, failed>>

SaveJobs(s) ==
    /\ Disk!FileStep(s)
    /\ failed' = (failed \/ qStep'[s] = "idle")
    /\ UNCHANGED <<qJobs, overlapped>>

(* The file has been replaced: completed jobs go into the history. *)
EndSaveJobs(s) ==
    /\ qStep[s] = "replaced"
    /\ Disk!Goto(s, "idle")
    /\ UNCHANGED <<qDisk, qHeld, qLatest, qJobs, overlapped, failed>>

(* The process ends, at any point of a save, and queueFor loads the file.  *)
(* If jobs were running or queued it pauses them and saves, before the     *)
(* scheduler starts.                                                       *)
RestartQueue ==
    /\ qHeld' = [s \in Savers |-> 0]
    /\ \/ /\ qStep' = [s \in Savers |-> "idle"]
          /\ qJobs' = Loaded(qDisk["path"])
          /\ UNCHANGED qLatest
       \/ /\ qDisk["path"] \in Versions
          /\ qLatest < MaxVersion
          /\ qLatest' = qLatest + 1
          /\ qJobs' = qLatest'
          /\ \E s \in Savers :
                qStep' = [t \in Savers |-> IF t = s THEN "snapshot" ELSE "idle"]
    /\ overlapped' = FALSE
    /\ failed' = FALSE
    /\ UNCHANGED qDisk

QueueNext ==
    \/ \E s \in Savers :
        ChangeJobs(s) \/ SaveAgain(s) \/ SnapshotJobs(s) \/ SaveJobs(s) \/ EndSaveJobs(s)
    \/ RestartQueue

QueueSpec == QueueInit /\ [][QueueNext]_queueVars

-----------------------------------------------------------------------------
(* Properties *)

(* While no save has failed and no two saves have overlapped since the     *)
(* start, a queue nobody is saving is the queue a restart would load: what *)
(* DownloadQueue takes for granted when it reloads its table after a crash.*)
QuietMeansSaved ==
    ~overlapped /\ ~failed /\ (\A s \in Savers : Disk!Idle(s))
        => Loaded(qDisk["path"]) = qJobs

=============================================================================
