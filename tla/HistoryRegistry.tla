--------------------------- MODULE HistoryRegistry ---------------------------
(***************************************************************************)
(* The registry of finished downloads (download_history_registry.go), by   *)
(* which ExactGuard answers that a file has been downloaded before.        *)
(*                                                                         *)
(* It is filled by a synchronisation, run every two seconds and before     *)
(* every verdict, possibly twice at the same time: when the modification   *)
(* time of the queue's file is a new one, the file is read, then the saved *)
(* results, and each completed job whose output exists is entered under a  *)
(* key made from the row with the job's ID, or from the job itself if there*)
(* is no such row.  A remote file is looked up by a key made from its row; *)
(* the two may differ.                                                     *)
(*                                                                         *)
(* A file holds the content of a remote file, or one of Edits, which the   *)
(* user has put in its place.  All contents have one size, which therefore *)
(* tells nothing.                                                          *)
(***************************************************************************)
EXTENDS Naturals, Sequences, FiniteSets

CONSTANTS
    Sources,   \* remote files
    Apart,     \* those whose own URL is not what identifies their row
    Unsized,   \* those whose row does not tell the size the download has
    Outputs,     \* output files
    Edits,     \* other contents a file may be given
    Syncs,     \* synchronisations that may run at the same time
    Ids,       \* IDs of rows
    Unknown,   \* no remote file
    MaxSaves,  \* bound on the saves of the queue
    MaxTimes,  \* bound on the changes of files and results
    MaxStarts  \* bound on the restarts

ASSUME HistoryAssumption ==
    /\ "none" \notin Outputs \cup Sources \cup Edits
    /\ Unknown \notin Sources
    /\ Apart \subseteq Sources /\ Unsized \subseteq Sources

VARIABLES
    file,       \* what each output file holds, or "none"
    stamp,      \* its modification time
    queue,      \* the completed jobs
    qFile,      \* those in download_queue.json, and its modification time
    saves,
    results,    \* the remote file in each row of last_results.json.gz
    times,
    registry,   \* Entries
    stored,     \* download_history.json
    seen,       \* QueueMTime
    sync,       \* what each synchronisation is doing
    starts,
    reused,     \* history: an ID was reused while a job had it
    lost,       \* history: IDs whose row was missing while a job had them
    edited      \* history: files whose content was replaced

world == <<file, stamp, queue, results, times>>
historyVars == <<world, qFile, saves, registry, stored, seen, sync, starts, reused, lost,
                 edited>>

(* A file is looked up by the key of its row: extractor, provider and page *)
(* if it comes from an extractor, otherwise the URL, and the size the row  *)
(* tells.  By its other key, of the job's own URL or the size downloaded,  *)
(* nobody looks it up.                                                     *)
Keys == Sources \X {"row", "job"}
LookupKey(r) == <<r, "row">>
RowKey(r) == <<r, IF r \in Unsized THEN "job" ELSE "row">>
OwnKey(r) == <<r, IF r \in Apart \cup Unsized THEN "job" ELSE "row">>

FileContent == Sources \cup Edits
Job == [id : Ids, remote : Sources, path : Outputs]
NotEntered == [path |-> "none", stamp |-> 0, hash |-> "none"]
HistoryEntry == [path : Outputs, stamp : Nat, hash : FileContent] \cup {NotEntered}
NoSync == [at |-> "idle", mtime |-> 0, jobs |-> << >>, next |-> 1,
           rows |-> [i \in Ids |-> Unknown], updates |-> [k \in Keys |-> NotEntered]]

HistoryTypeOK ==
    /\ file \in [Outputs -> FileContent \cup {"none"}]
    /\ stamp \in [Outputs -> Nat]
    /\ queue \in Seq(Job)
    /\ qFile.jobs \in Seq(Job) /\ qFile.mtime \in Nat
    /\ saves \in Nat /\ times \in Nat /\ starts \in Nat
    /\ results \in [Ids -> Sources \cup {Unknown}]
    /\ registry \in [Keys -> HistoryEntry] /\ stored \in [Keys -> HistoryEntry]
    /\ seen \in Nat
    /\ sync \in [Syncs -> [at : {"idle", "read", "rows", "files", "save"}, mtime : Nat,
                           jobs : Seq(Job), next : Nat \ {0},
                           rows : [Ids -> Sources \cup {Unknown}],
                           updates : [Keys -> HistoryEntry]]]
    /\ reused \in BOOLEAN
    /\ lost \subseteq Ids
    /\ edited \subseteq Outputs

HistoryInit ==
    /\ file = [p \in Outputs |-> "none"]
    /\ stamp = [p \in Outputs |-> 0]
    /\ queue = << >>
    /\ qFile = [jobs |-> << >>, mtime |-> 0]
    /\ saves = 0 /\ times = 0 /\ starts = 0
    /\ results \in [Ids -> Sources \cup {Unknown}]
    /\ registry = [k \in Keys |-> NotEntered]
    /\ stored = registry
    /\ seen = 0
    /\ sync = [s \in Syncs |-> NoSync]
    /\ reused = FALSE
    /\ lost = {}
    /\ edited = {}

-----------------------------------------------------------------------------
(* Downloads, scans, and the user *)

(* A job completes, which was the row's with an ID when it was added: its  *)
(* output is new.                                                          *)
Complete(id, r, p) ==
    /\ file[p] = "none"
    /\ \A i \in DOMAIN queue : queue[i].path # p
    /\ times < MaxTimes
    /\ times' = times + 1
    /\ file' = [file EXCEPT ![p] = r]
    /\ stamp' = [stamp EXCEPT ![p] = times + 1]
    /\ queue' = Append(queue, [id |-> id, remote |-> r, path |-> p])
    /\ reused' = (reused \/ results[id] \notin {Unknown, r})
    /\ lost' = lost \cup {i \in {id} : results[i] = Unknown}
    /\ UNCHANGED <<qFile, saves, results, registry, stored, seen, sync, starts, edited>>

(* Any change of any job saves the queue. *)
SaveQueue ==
    /\ saves < MaxSaves
    /\ saves' = saves + 1
    /\ qFile' = [jobs |-> queue, mtime |-> saves + 1]
    /\ UNCHANGED <<world, registry, stored, seen, sync, starts, reused, lost, edited>>

(* A scan replaces the results and saves them. *)
Scan(rows) ==
    /\ times < MaxTimes
    /\ times' = times + 1
    /\ rows # results
    /\ results' = rows
    /\ reused' = (reused \/ \E i \in DOMAIN queue :
                    rows[queue[i].id] \notin {Unknown, queue[i].remote})
    /\ lost' = lost \cup {id \in Ids : rows[id] = Unknown
                                        /\ \E i \in DOMAIN queue : queue[i].id = id}
    /\ UNCHANGED <<file, stamp, queue, qFile, saves, registry, stored, seen, sync, starts,
                   edited>>

(* A file is deleted, or replaced, by one that may have its time. *)
Edit(p) ==
    /\ file[p] # "none"
    /\ times < MaxTimes
    /\ times' = times + 1
    /\ file' \in {[file EXCEPT ![p] = c] : c \in Edits \cup {"none"}}
    /\ stamp' \in {stamp, [stamp EXCEPT ![p] = times + 1]}
    /\ edited' = edited \cup {p}
    /\ UNCHANGED <<queue, qFile, saves, results, registry, stored, seen, sync, starts,
                   reused, lost>>

RestartHistory ==
    /\ starts < MaxStarts
    /\ starts' = starts + 1
    /\ queue' = qFile.jobs
    /\ registry' = stored
    /\ seen' = 0
    /\ sync' = [s \in Syncs |-> NoSync]
    /\ UNCHANGED <<file, stamp, results, times, qFile, saves, stored, reused, lost, edited>>

-----------------------------------------------------------------------------
(* syncCompletedQueueToHistory *)

BeginSync(s, at, mtime) ==
    /\ sync[s].at = "idle"
    /\ sync' = [sync EXCEPT ![s].at = at, ![s].mtime = mtime]
    /\ UNCHANGED <<world, qFile, saves, registry, stored, seen, starts, reused, lost,
                   edited>>

(* The file's time is compared with the one last dealt with. *)
StatQueue(s) ==
    /\ qFile.mtime # 0
    /\ qFile.mtime # seen
    /\ BeginSync(s, "read", qFile.mtime)

Keep == UNCHANGED <<world, qFile, saves, starts, reused, lost, edited>>

ReadQueue(s) ==
    /\ sync[s].at = "read"
    /\ sync' = [sync EXCEPT ![s].at = "rows", ![s].jobs = qFile.jobs]
    /\ UNCHANGED <<registry, stored, seen>>
    /\ Keep

ReadRows(s) ==
    /\ sync[s].at = "rows"
    /\ sync' = [sync EXCEPT ![s].at = "files", ![s].rows = results]
    /\ UNCHANGED <<registry, stored, seen>>
    /\ Keep

(* The key of a job: that of its row, if there is one, and else its own. *)
KeyOf(s, j) ==
    LET row == sync[s].rows[j.id]
    IN IF row # Unknown THEN RowKey(row) ELSE OwnKey(j.remote)

(* The registry has the file as it is. *)
Current(s, j) ==
    /\ registry[KeyOf(s, j)].path = j.path
    /\ registry[KeyOf(s, j)].stamp = stamp[j.path]

(* One job after the other: its output is looked at and, unless the        *)
(* registry has it as it is, its fingerprint taken.  Updates under one key *)
(* are entered in their order, so that the last one stands for all.        *)
LookAt(s) ==
    LET j == sync[s].jobs[sync[s].next]
        update == [path |-> j.path, stamp |-> stamp[j.path], hash |-> file[j.path]]
    IN /\ sync[s].at = "files"
       /\ sync[s].next <= Len(sync[s].jobs)
       /\ sync' = [sync EXCEPT ![s].next = @ + 1,
                    ![s].updates = IF file[j.path] = "none" \/ Current(s, j) THEN @
                                   ELSE [@ EXCEPT ![KeyOf(s, j)] = update]]
       /\ UNCHANGED <<registry, stored, seen>>
       /\ Keep

Entered(updates, k) == IF updates[k] = NotEntered THEN registry[k] ELSE updates[k]

(* Faulty variant: the time is that of the file as it is by now. *)
Enter_LateTime(s) ==
    /\ sync[s].at = "files"
    /\ sync[s].next > Len(sync[s].jobs)
    /\ registry' = [k \in Keys |-> Entered(sync[s].updates, k)]
    /\ seen' = qFile.mtime
    /\ sync' = [sync EXCEPT ![s] = [NoSync EXCEPT !.at =
                    IF registry' = registry THEN "idle" ELSE "save"]]
    /\ UNCHANGED stored
    /\ Keep

(* The new entries replace what was under their keys, and the time read at *)
(* the beginning becomes the one dealt with.                               *)
Enter(s) ==
    /\ sync[s].at = "files"
    /\ sync[s].next > Len(sync[s].jobs)
    /\ registry' = [k \in Keys |-> Entered(sync[s].updates, k)]
    /\ seen' = sync[s].mtime
    /\ sync' = [sync EXCEPT ![s] = [NoSync EXCEPT !.at =
                    IF registry' = registry THEN "idle" ELSE "save"]]
    /\ UNCHANGED stored
    /\ Keep

(* The registry is saved, under SaveMu and as it is by then, or saving it  *)
(* fails.                                                                  *)
Save(s) ==
    /\ sync[s].at = "save"
    /\ stored' \in {registry, stored}
    /\ sync' = [sync EXCEPT ![s] = NoSync]
    /\ UNCHANGED <<registry, seen>>
    /\ Keep

HistoryNext ==
    \/ \E id \in Ids, r \in Sources, p \in Outputs : Complete(id, r, p)
    \/ SaveQueue
    \/ \E rows \in [Ids -> Sources \cup {Unknown}] : Scan(rows)
    \/ \E p \in Outputs : Edit(p)
    \/ RestartHistory
    \/ \E s \in Syncs :
        StatQueue(s) \/ ReadQueue(s) \/ ReadRows(s) \/ LookAt(s) \/ Enter(s) \/ Save(s)

HistorySpec == HistoryInit /\ [][HistoryNext]_historyVars

-----------------------------------------------------------------------------
(* The verdict *)

(* persistentDownloadHistoryDecision: what was entered under the key is    *)
(* there and has the fingerprint that was entered.                         *)
Known(k, p) == registry[k].path = p /\ file[p] = registry[k].hash

(* Properties *)

(* However saves of the queue, two synchronisations, scans and restarts    *)
(* overlap: once the last save of the queue has been dealt with, a file    *)
(* that was downloaded once and is as it was is known by its own output, as*)
(* long as no scan has given a row's ID to another remote file: by the key *)
(* its row is looked up by or, when the row was missing meanwhile or does  *)
(* not tell the size, at least by its own key.                             *)
DownloadsAreKnown ==
    ~reused /\ seen = qFile.mtime =>
        \A i \in DOMAIN qFile.jobs :
            LET j == qFile.jobs[i]
            IN (/\ \A k \in DOMAIN qFile.jobs : qFile.jobs[k].remote = j.remote => k = i
                /\ j.path \notin edited)
               => \/ Known(LookupKey(j.remote), j.path)
                  \/ (j.id \in lost \/ j.remote \in Unsized)
                     /\ Known(OwnKey(j.remote), j.path)

=============================================================================
