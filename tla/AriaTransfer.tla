---------------------------- MODULE AriaTransfer ----------------------------
(***************************************************************************)
(* Downloads handed to the aria2 daemon (aria2_rpc.go).  A worker of the   *)
(* download queue finds or starts the daemon, continues the transfer whose *)
(* GID its job carries or adds a new one, and then asks for its state      *)
(* every 400 ms; when its context is cancelled it pauses the transfer, or  *)
(* removes it if the job was cancelled for good.  The handlers of the      *)
(* queue (v8_extra.go) clear the GID of a job and have the transfer        *)
(* removed by a goroutine of its own.  Every call may be refused, or may   *)
(* take effect while its answer is lost; the daemon may die at any time.   *)
(*                                                                         *)
(* The jobs of this module are jobs of one file, as they follow each other *)
(* in the queue; DownloadQueue has what happens before a transfer.         *)
(***************************************************************************)
EXTENDS Naturals, FiniteSets

CONSTANTS
    MaxJobs,    \* jobs ever added
    MaxGids,    \* transfers ever added to the daemon
    Workers,    \* goroutines that may be in runAriaRPCQueueJob at a time
    NoWorker,   \* no cancel function registered
    Retries,    \* cfg.DownloadRetries
    MaxOps,     \* bound on user operations, shutdown, calls in trouble, deaths of the daemon
    NoGid       \* the empty GID

Jobs == 1 .. MaxJobs
Gids == 1 .. MaxGids

ASSUME AriaAssumption ==
    /\ MaxJobs \in Nat \ {0} /\ MaxGids \in Nat /\ Retries \in Nat /\ MaxOps \in Nat
    /\ NoWorker \notin Workers
    /\ NoGid \notin Gids

VARIABLES
    (* the queue *)
    status,     \* status of each job, "absent" before its add and after its removal
    recorded,   \* j.GID
    created,    \* jobs added so far
    cancelFn,   \* q.Cancels
    (* the workers *)
    pc, owner, cancelled, tries,
    gid,        \* the worker's local gid
    seen,       \* the state its last tell returned
    (* the daemon *)
    transfer,   \* state of each transfer in the running daemon
    added,      \* transfers added so far
    removals,   \* GIDs a clean-up goroutine is about to remove
    (* the program *)
    phase,      \* how far shutdownApp has come
    ops,
    (* history *)
    strayed,    \* transfers about which a call was refused or lost
    tangled,    \* jobs resumed while a worker of theirs was still alive
    doomed      \* workers that were alive when the shutdown cancelled them

queueVars == <<status, recorded, created, cancelFn>>
workerVars == <<pc, owner, cancelled, tries, gid, seen>>
daemonVars == <<transfer, added, removals>>
history == <<strayed, tangled, doomed>>
vars == <<queueVars, workerVars, daemonVars, phase, ops, history>>

Statuses == {"absent", "queued", "running", "paused", "completed", "failed",
             "cancelled", "blocked"}
TransferStates == {"absent", "active", "paused", "complete", "error", "removed"}
PCs == {"idle", "attempt", "manager", "read", "unpause", "add", "store", "loop",
        "told", "drop", "hold", "finish", "failed", "exit"}

TypeOK ==
    /\ status \in [Jobs -> Statuses]
    /\ recorded \in [Jobs -> Gids \cup {NoGid}]
    /\ created \in 0 .. MaxJobs
    /\ cancelFn \in [Jobs -> Workers \cup {NoWorker}]
    /\ pc \in [Workers -> PCs]
    /\ owner \in [Workers -> Jobs \cup {0}]
    /\ cancelled \in [Workers -> BOOLEAN]
    /\ tries \in [Workers -> 0 .. Retries + 1]
    /\ gid \in [Workers -> Gids \cup {NoGid}]
    /\ seen \in [Workers -> TransferStates]
    /\ transfer \in [Gids -> TransferStates]
    /\ added \in 0 .. MaxGids
    /\ removals \in SUBSET Gids
    /\ phase \in {"open", "closing", "closed"}
    /\ ops \in 0 .. MaxOps
    /\ strayed \in SUBSET Gids
    /\ tangled \in SUBSET Jobs
    /\ doomed \in SUBSET Workers

-----------------------------------------------------------------------------
(* Helpers *)

Live(w) == pc[w] # "idle"
Op == ops < MaxOps /\ ops' = ops + 1
Goto(w, l) == pc' = [pc EXCEPT ![w] = l]

(* q.update and the other writes of a worker ignore a job that is gone. *)
Becomes(j, s) == [status EXCEPT ![j] = IF @ = "absent" THEN @ ELSE s]
Records(j, g) == [recorded EXCEPT ![j] = IF status[j] = "absent" THEN @ ELSE g]

(* What forceRemove and forcePause do to a transfer the daemon knows. *)
Dropped(g) == [transfer EXCEPT ![g] = IF @ \in {"active", "paused"} THEN "removed" ELSE @]
Held(g) == [transfer EXCEPT ![g] = IF @ = "active" THEN "paused" ELSE @]
Nothing == [g \in Gids |-> "absent"]

QueueUnchanged == UNCHANGED queueVars
LocalUnchanged == UNCHANGED <<owner, cancelled, tries, gid, seen>>
RestUnchanged == UNCHANGED <<phase, tangled, doomed>>
DaemonUnchanged == UNCHANGED daemonVars

(* A call about transfer g: it takes effect and is answered; it has no     *)
(* effect and is refused; or it takes effect and its answer is lost.       *)
Answered == UNCHANGED <<ops, strayed>>
Troubled(g) == Op /\ strayed' = strayed \cup {g}

-----------------------------------------------------------------------------
(* The worker *)

(* The scheduler starts a worker for a queued job and registers its cancel *)
(* function.                                                               *)
Launch(w, j) ==
    /\ status[j] = "queued"
    /\ pc[w] = "idle"
    /\ status' = [status EXCEPT ![j] = "running"]
    /\ cancelFn' = [cancelFn EXCEPT ![j] = w]
    /\ owner' = [owner EXCEPT ![w] = j]
    /\ Goto(w, "attempt")
    /\ UNCHANGED <<recorded, created, cancelled, tries, gid, seen>>
    /\ DaemonUnchanged /\ RestUnchanged /\ UNCHANGED <<ops, strayed>>

(* Head of the retry loop of runJob. *)
Attempt(w) ==
    /\ pc[w] = "attempt"
    /\ IF cancelled[w]
       THEN Goto(w, "exit") /\ UNCHANGED tries
       ELSE Goto(w, "manager") /\ tries' = [tries EXCEPT ![w] = @ + 1]
    /\ UNCHANGED <<owner, cancelled, gid, seen>>
    /\ QueueUnchanged /\ DaemonUnchanged /\ RestUnchanged /\ UNCHANGED <<ops, strayed>>

(* ariaRPCFor: a daemon that answers is used; one that does not is killed  *)
(* and replaced by a new one, which knows no transfer; or none can be      *)
(* started.                                                                *)
Manager(w) ==
    /\ pc[w] = "manager"
    /\ \/ Goto(w, "read") /\ UNCHANGED <<transfer, ops>>
       \/ Goto(w, "read") /\ Op /\ transfer' = Nothing
       \/ Goto(w, "failed") /\ Op /\ transfer' = Nothing
    /\ LocalUnchanged /\ QueueUnchanged
    /\ RestUnchanged /\ UNCHANGED <<added, removals, strayed>>

(* The GID is read under q.mu, and used after it. *)
Read(w) ==
    /\ pc[w] = "read"
    /\ LET g == IF status[owner[w]] = "absent" THEN NoGid ELSE recorded[owner[w]]
       IN  /\ gid' = [gid EXCEPT ![w] = g]
           /\ Goto(w, IF g = NoGid THEN "add" ELSE "unpause")
    /\ UNCHANGED <<owner, cancelled, tries, seen>>
    /\ QueueUnchanged /\ DaemonUnchanged /\ RestUnchanged /\ UNCHANGED <<ops, strayed>>

(* unpause succeeds for a paused transfer only; any error means that a new *)
(* transfer is added.                                                      *)
Unpause(w) ==
    /\ pc[w] = "unpause"
    /\ LET g == gid[w] IN
       \/ /\ transfer[g] = "paused"
          /\ transfer' = [transfer EXCEPT ![g] = "active"]
          /\ Goto(w, "loop")
          /\ Answered /\ UNCHANGED gid
       \/ /\ transfer[g] # "paused"
          /\ Goto(w, "add")
          /\ gid' = [gid EXCEPT ![w] = NoGid]
          /\ UNCHANGED transfer /\ Answered
       \/ /\ transfer[g] = "paused"
          /\ transfer' \in {transfer, [transfer EXCEPT ![g] = "active"]}
          /\ Goto(w, "add")
          /\ gid' = [gid EXCEPT ![w] = NoGid]
          /\ Troubled(g)
    /\ UNCHANGED <<owner, cancelled, tries, seen, added, removals>>
    /\ QueueUnchanged /\ RestUnchanged

(* Faulty variant: addUri is sent whether the context is cancelled or not. *)
Add_NoContext(w) ==
    /\ pc[w] = "add"
    /\ added < MaxGids
    /\ added' = added + 1
    /\ transfer' = [transfer EXCEPT ![added + 1] = "active"]
    /\ gid' = [gid EXCEPT ![w] = added + 1]
    /\ Goto(w, "store")
    /\ Answered
    /\ UNCHANGED <<owner, cancelled, tries, seen, removals>>
    /\ QueueUnchanged /\ RestUnchanged

(* addUri runs under the worker's context: it is not sent once that is     *)
(* cancelled.                                                              *)
Add(w) ==
    /\ pc[w] = "add"
    /\ \/ /\ ~cancelled[w] /\ added < MaxGids
          /\ added' = added + 1
          /\ transfer' = [transfer EXCEPT ![added + 1] = "active"]
          /\ \/ /\ gid' = [gid EXCEPT ![w] = added + 1]
                /\ Goto(w, "store") /\ Answered
             \/ Goto(w, "failed") /\ UNCHANGED gid /\ Troubled(added + 1)
       \/ Goto(w, "failed") /\ UNCHANGED <<transfer, added, gid, ops, strayed>>
    /\ UNCHANGED <<owner, cancelled, tries, seen, removals>>
    /\ QueueUnchanged /\ RestUnchanged

Store(w) ==
    /\ pc[w] = "store"
    /\ recorded' = Records(owner[w], gid[w])
    /\ Goto(w, "loop")
    /\ LocalUnchanged /\ DaemonUnchanged /\ RestUnchanged
    /\ UNCHANGED <<status, created, cancelFn, ops, strayed>>

(* Faulty variant: an error of tellStatus is taken for a passing trouble. *)
Tell_Persistent(w) ==
    /\ pc[w] = "loop"
    /\ transfer[gid[w]] # "absent"
    /\ seen' = [seen EXCEPT ![w] = transfer[gid[w]]]
    /\ Goto(w, "told") /\ Answered
    /\ UNCHANGED <<owner, cancelled, tries, gid>>
    /\ QueueUnchanged /\ DaemonUnchanged /\ RestUnchanged

(* tellStatus; a transfer the daemon does not know is an error. *)
Tell(w) ==
    /\ pc[w] = "loop"
    /\ \/ /\ transfer[gid[w]] # "absent"
          /\ seen' = [seen EXCEPT ![w] = transfer[gid[w]]]
          /\ Goto(w, "told") /\ Answered
       \/ transfer[gid[w]] = "absent" /\ Goto(w, "failed") /\ UNCHANGED <<seen, ops, strayed>>
       \/ Goto(w, "failed") /\ UNCHANGED seen /\ Troubled(gid[w])
    /\ UNCHANGED <<owner, cancelled, tries, gid>>
    /\ QueueUnchanged /\ DaemonUnchanged /\ RestUnchanged

(* The tick writes its GID back into the job and acts on what it was told. *)
(* A transfer found paused ends the call only if the job is paused or      *)
(* cancelled; only a worker that follows a transfer pauses it, and leaves, *)
(* so that this second look at the job is no step of its own.              *)
Told(w) ==
    /\ pc[w] = "told"
    /\ recorded' = Records(owner[w], gid[w])
    /\ Goto(w, CASE seen[w] = "complete" -> "finish"
                 [] seen[w] \in {"error", "removed"} -> "failed"
                 [] seen[w] = "paused" /\ status[owner[w]] \in {"paused", "cancelled"}
                       -> "failed"
                 [] OTHER -> "loop")
    /\ seen' = [seen EXCEPT ![w] = "absent"]
    /\ UNCHANGED <<owner, cancelled, tries, gid>>
    /\ DaemonUnchanged /\ RestUnchanged
    /\ UNCHANGED <<status, created, cancelFn, ops, strayed>>

(* The context is cancelled: the job's status decides what becomes of the  *)
(* transfer.                                                               *)
Notice(w) ==
    /\ pc[w] = "loop"
    /\ cancelled[w]
    /\ Goto(w, IF status[owner[w]] \in {"cancelled", "blocked"} THEN "drop" ELSE "hold")
    /\ LocalUnchanged /\ QueueUnchanged /\ DaemonUnchanged /\ RestUnchanged
    /\ UNCHANGED <<ops, strayed>>

(* Faulty variant: the worker leaves without telling the daemon. *)
Hold_Forgotten(w) ==
    /\ pc[w] \in {"hold", "drop"}
    /\ Goto(w, "exit")
    /\ Answered /\ DaemonUnchanged
    /\ LocalUnchanged /\ QueueUnchanged /\ RestUnchanged

Hold(w) ==
    /\ pc[w] \in {"hold", "drop"}
    /\ \/ /\ transfer' = IF pc[w] = "drop" THEN Dropped(gid[w]) ELSE Held(gid[w])
          /\ Answered
       \/ UNCHANGED transfer /\ Troubled(gid[w])
    /\ Goto(w, "exit")
    /\ LocalUnchanged /\ QueueUnchanged /\ RestUnchanged /\ UNCHANGED <<added, removals>>

(* runJob after the engine: a cancelled worker leaves; a file completes the*)
(* job, once it is verified.                                               *)
Finish(w) ==
    /\ pc[w] = "finish"
    /\ IF cancelled[w] THEN Goto(w, "exit") /\ UNCHANGED status
       ELSE \/ Goto(w, "exit") /\ status' = Becomes(owner[w], "completed")
            \/ Goto(w, "failed") /\ UNCHANGED status
    /\ LocalUnchanged /\ DaemonUnchanged /\ RestUnchanged
    /\ UNCHANGED <<recorded, created, cancelFn, ops, strayed>>

(* An error is tried again, pauses or fails the job. *)
Failed(w) ==
    /\ pc[w] = "failed"
    /\ \/ cancelled[w] /\ Goto(w, "exit") /\ UNCHANGED status
       \/ /\ ~cancelled[w]
          /\ \E s \in {"paused", "failed"} : status' = Becomes(owner[w], s)
          /\ Goto(w, "exit")
       \/ /\ ~cancelled[w] /\ tries[w] <= Retries
          /\ Goto(w, "attempt") /\ UNCHANGED status
    /\ gid' = [gid EXCEPT ![w] = NoGid]
    /\ UNCHANGED <<owner, cancelled, tries, seen>>
    /\ DaemonUnchanged /\ RestUnchanged
    /\ UNCHANGED <<recorded, created, cancelFn, ops, strayed>>

(* The deferred clean-up deletes whatever function is registered. *)
Exit(w) ==
    /\ pc[w] = "exit"
    /\ Goto(w, "idle")
    /\ cancelFn' = [cancelFn EXCEPT ![owner[w]] = NoWorker]
    /\ owner' = [owner EXCEPT ![w] = 0]
    /\ cancelled' = [cancelled EXCEPT ![w] = FALSE]
    /\ tries' = [tries EXCEPT ![w] = 0]
    /\ gid' = [gid EXCEPT ![w] = NoGid]
    /\ seen' = [seen EXCEPT ![w] = "absent"]
    /\ doomed' = doomed \ {w}
    /\ DaemonUnchanged
    /\ UNCHANGED <<status, recorded, created, phase, ops, strayed, tangled>>

WorkerStep(w) ==
    \/ Attempt(w) \/ Manager(w) \/ Read(w) \/ Unpause(w) \/ Add(w) \/ Store(w)
    \/ Tell(w) \/ Told(w) \/ Notice(w) \/ Hold(w)
    \/ Finish(w) \/ Failed(w) \/ Exit(w)

-----------------------------------------------------------------------------
(* The handlers *)

Cancels(j) == [w \in Workers |-> cancelled[w] \/ cancelFn[j] = w]

(* removeAriaQueueJobsAsync: a goroutine is started for a GID. *)
Scheduled(g) == removals' = IF g = NoGid THEN removals ELSE removals \cup {g}

(* A job of one of the statuses of From is given status s and its worker   *)
(* is cancelled; if drop, its transfer is scheduled for removal.           *)
Stop(j, From, s, drop) ==
    /\ Op
    /\ status[j] \in From
    /\ status' = [status EXCEPT ![j] = s]
    /\ cancelled' = Cancels(j)
    /\ IF drop
       THEN recorded' = [recorded EXCEPT ![j] = NoGid] /\ Scheduled(recorded[j])
       ELSE UNCHANGED <<recorded, removals>>
    /\ UNCHANGED <<created, cancelFn, pc, owner, tries, gid, seen, transfer, added, strayed>>
    /\ RestUnchanged

Pause(j) == Stop(j, {"running", "queued"}, "paused", FALSE)
Cancel(j) == Stop(j, {"running", "queued", "paused"}, "cancelled", TRUE)

(* handleQueueAdd on a job of the same file: an exact duplicate is         *)
(* blocked, a file under review is held.                                   *)
Block(j) == Stop(j, {"running", "queued", "paused", "failed"}, "blocked", TRUE)
Review(j) == Stop(j, {"running", "queued", "paused", "failed"}, "paused", FALSE)

Resume(j) ==
    /\ Op
    /\ status[j] \in {"paused", "failed", "cancelled"}
    /\ status' = [status EXCEPT ![j] = "queued"]
    /\ tangled' = IF \E w \in Workers : Live(w) /\ owner[w] = j
                  THEN tangled \cup {j} ELSE tangled
    /\ UNCHANGED <<recorded, created, cancelFn, workerVars, daemonVars, phase, strayed, doomed>>

(* remove and clear-completed. *)
Remove(j) ==
    /\ Op
    /\ status[j] \notin {"running", "absent"}
    /\ status' = [status EXCEPT ![j] = "absent"]
    /\ recorded' = [recorded EXCEPT ![j] = NoGid]
    /\ Scheduled(recorded[j])
    /\ UNCHANGED <<created, cancelFn, workerVars, transfer, added, phase, history>>

(* A file is added again once no job of it is waiting, running or paused. *)
AddJob ==
    /\ Op
    /\ created < MaxJobs
    /\ \A j \in Jobs : status[j] \notin {"queued", "running", "paused"}
    /\ created' = created + 1
    /\ status' = [status EXCEPT ![created + 1] = "queued"]
    /\ UNCHANGED <<recorded, cancelFn, workerVars, daemonVars, phase, history>>

(* The clean-up goroutine, 150 ms later. *)
CleanUp(g) ==
    /\ g \in removals
    /\ removals' = removals \ {g}
    /\ \/ transfer' = Dropped(g) /\ Answered
       \/ UNCHANGED transfer /\ Troubled(g)
    /\ UNCHANGED <<queueVars, workerVars, added>> /\ RestUnchanged

-----------------------------------------------------------------------------
(* The daemon and the end of the program *)

Completes(g) ==
    /\ transfer[g] = "active"
    /\ \E s \in {"complete", "error"} : transfer' = [transfer EXCEPT ![g] = s]
    /\ UNCHANGED <<queueVars, workerVars, added, removals, ops, strayed>> /\ RestUnchanged

DaemonDies ==
    /\ Op
    /\ transfer # Nothing
    /\ transfer' = Nothing
    /\ UNCHANGED <<queueVars, workerVars, added, removals, strayed>> /\ RestUnchanged

(* shutdownApp pauses what is running or waiting and cancels every worker; *)
(* then it stops the daemon.                                               *)
CloseQueue ==
    /\ Op
    /\ phase = "open"
    /\ phase' = "closing"
    /\ status' = [j \in Jobs |-> IF status[j] \in {"running", "queued"}
                                 THEN "paused" ELSE status[j]]
    /\ cancelled' = [w \in Workers |-> cancelled[w] \/ \E j \in Jobs : cancelFn[j] = w]
    /\ doomed' = {w \in Workers : Live(w)}
    /\ UNCHANGED <<recorded, created, cancelFn, pc, owner, tries, gid, seen,
                   daemonVars, strayed, tangled>>

CloseDaemon ==
    /\ phase = "closing"
    /\ phase' = "closed"
    /\ transfer' = Nothing
    /\ UNCHANGED <<queueVars, workerVars, added, removals, ops, history>>

-----------------------------------------------------------------------------
(* One job has just been added. *)
Init ==
    /\ status = [j \in Jobs |-> IF j = 1 THEN "queued" ELSE "absent"]
    /\ recorded = [j \in Jobs |-> NoGid]
    /\ created = 1
    /\ cancelFn = [j \in Jobs |-> NoWorker]
    /\ pc = [w \in Workers |-> "idle"]
    /\ owner = [w \in Workers |-> 0]
    /\ cancelled = [w \in Workers |-> FALSE]
    /\ tries = [w \in Workers |-> 0]
    /\ gid = [w \in Workers |-> NoGid]
    /\ seen = [w \in Workers |-> "absent"]
    /\ transfer = Nothing
    /\ added = 0
    /\ removals = {}
    /\ phase = "open"
    /\ ops = 0
    /\ strayed = {}
    /\ tangled = {}
    /\ doomed = {}

Scheduler == \E w \in Workers, j \in Jobs : Launch(w, j)
Handlers == AddJob \/ \E j \in Jobs : Pause(j) \/ Cancel(j) \/ Block(j) \/ Review(j)
                                      \/ Resume(j) \/ Remove(j)
Daemon == DaemonDies \/ \E g \in Gids : Completes(g) \/ CleanUp(g)

Next ==
    \/ Scheduler
    \/ \E w \in Workers : WorkerStep(w)
    \/ Handlers
    \/ Daemon
    \/ CloseQueue
    \/ CloseDaemon

(* Goroutines that can run do, and a select with two ready cases does not  *)
(* choose the same one for ever; a transfer that runs ends.                *)
Fairness ==
    /\ \A w \in Workers : WF_vars(WorkerStep(w))
    /\ \A w \in Workers : SF_vars(Notice(w))
    /\ \A g \in Gids : WF_vars(Completes(g))

Spec == Init /\ [][Next]_vars
FairSpec == Spec /\ Fairness

-----------------------------------------------------------------------------
(* Properties *)

Follows(w, g) ==
    gid[w] = g /\ pc[w] \in {"store", "loop", "told", "hold", "drop"}

(* A transfer that runs in the daemon has somebody to answer for it: a     *)
(* worker that still follows it and will pause or remove it, or a clean-up *)
(* goroutine that will remove it.  The jobs may be paused, cancelled,      *)
(* removed and added again, and the daemon replaced, at any point; only a  *)
(* call about that very transfer that is refused or lost lets it stray.    *)
RunningIsFollowed ==
    \A g \in Gids : transfer[g] = "active" /\ g \notin strayed =>
        g \in removals \/ \E w \in Workers : Follows(w, g)

(* Once shutdownAriaRPC has run, the workers the shutdown cancelled start  *)
(* no transfer in the daemon one of them may by then have brought up       *)
(* again: the cancellation comes before the daemon's end.                  *)
ClosedIsQuiet ==
    phase = "closed" =>
        \A w \in doomed, g \in Gids :
            Follows(w, g) /\ transfer[g] = "active" => owner[w] \in tangled

(* A worker gets out of its transfer, whatever the daemon, the handlers    *)
(* and the other workers of its job do.                                    *)
WorkerGetsOut ==
    \A w \in Workers, j \in Jobs :
        Live(w) /\ owner[w] = j ~> (~Live(w) \/ owner[w] # j)

=============================================================================
