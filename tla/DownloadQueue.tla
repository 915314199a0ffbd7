---------------------------- MODULE DownloadQueue ----------------------------
(***************************************************************************)
(* The download queue of Download Studio (v8_extra.go, type DownloadQueue):*)
(* the job table behind q.mu, the 500 ms scheduler, one worker goroutine   *)
(* per launched job (runJob), the two HTTP handlers that edit the table    *)
(* (handleQueueAdd, handleQueueAction), the shutdown path of lifecycle.go  *)
(* and the reload of download_queue.json after a restart or a crash.       *)
(*                                                                         *)
(* Every action is one critical section of q.mu, or one step of a worker   *)
(* between two of them; what a worker read earlier and writes later is     *)
(* kept in its own state, so handlers interleave with it as they do in the *)
(* program.  Each action ends with the save the code ends with: the disk   *)
(* then equals the table and is not a variable here.  The save itself, its *)
(* races and the crashes inside it are the subject of QueuePersistence.    *)
(***************************************************************************)
EXTENDS Integers, FiniteSets, Functions

CONSTANTS
    MaxJobs,        \* bound on the jobs ever created
    Workers,        \* goroutines: bounds the workers alive at one time
    NoWorker,       \* "no cancel function registered"
    Files,          \* remote identities (stableRemoteKeyV855)
    NoFile,         \* the identity of a job saved without a usable remote
    LegacyJobs,     \* jobs an older version left, paused, in download_queue.json
    MegaFiles,      \* the remotes whose source is MEGA
    Retries,        \* cfg.DownloadRetries after normalisation
    RawConcurrency, \* values of cfg.DownloadConcurrency the settings can hold
    PriorityBound,  \* bound on |Priority|
    MaxOps          \* bound on user operations and restarts

ASSUME QueueAssumption ==
    /\ MaxJobs \in Nat \ {0}
    /\ NoWorker \notin Workers
    /\ IsFiniteSet(Workers)
    /\ LegacyJobs \in 0 .. MaxJobs
    /\ NoFile \notin Files
    /\ MegaFiles \subseteq Files
    /\ Retries \in Nat \ {0}
    /\ RawConcurrency \subseteq Int
    /\ RawConcurrency # {}
    /\ PriorityBound \in Nat
    /\ MaxOps \in Nat

VARIABLES
    status,      \* DownloadJob.Status; "absent": not created, or removed
    guarded,     \* DownloadJob.GuardVersion = downloadGuardVersion
    override,    \* DownloadJob.GuardOverride
    remote,      \* DownloadJob.Remote, by its identity
    priority,    \* DownloadJob.Priority
    created,     \* jobs created so far; a job's number is its place in q.Jobs
    cancelFn,    \* DownloadQueue.Cancels: the worker whose cancel is registered
    pc,          \* where a worker is in runJob
    owner,       \* the job a live worker was launched for
    cancelled,   \* ctx.Err() # nil in the worker
    verdict,     \* the ExactGuard verdict the worker holds
    tries,       \* attempts
    megaLock,    \* the worker that holds megaQueueMu
    concurrency, \* cfg.DownloadConcurrency
    closing,     \* shutdownApp has run
    ops,         \* user operations and restarts so far
    (* history *)
    vetted,      \* jobs cleared by ExactGuard since their add or last resume
    tangled      \* jobs resumed while a worker of theirs was still alive

jobVars == <<status, guarded, override, remote, priority, created>>
workerVars == <<pc, owner, cancelled, verdict, tries>>
history == <<vetted, tangled>>
vars == <<jobVars, cancelFn, workerVars, megaLock, concurrency, closing, ops, history>>

Jobs == 1 .. MaxJobs
NoJob == 0
Statuses == {"absent", "queued", "running", "paused", "completed", "failed",
             "cancelled", "blocked"}
Verdicts == {"DOWNLOAD", "REVIEW", "DUPLICATE"}
PCs == {"idle", "start", "guard", "evaluate", "verdict", "judge", "engine",
        "attempt", "mega", "transfer", "verify", "error", "backoff", "exit"}

TypeOK ==
    /\ status \in [Jobs -> Statuses]
    /\ guarded \in [Jobs -> BOOLEAN]
    /\ override \in [Jobs -> BOOLEAN]
    /\ remote \in [Jobs -> Files \cup {NoFile}]
    /\ priority \in [Jobs -> -PriorityBound .. PriorityBound]
    /\ created \in 0 .. MaxJobs
    /\ cancelFn \in [Jobs -> Workers \cup {NoWorker}]
    /\ pc \in [Workers -> PCs]
    /\ owner \in [Workers -> Jobs \cup {NoJob}]
    /\ cancelled \in [Workers -> BOOLEAN]
    /\ verdict \in [Workers -> Verdicts \cup {"none"}]
    /\ tries \in [Workers -> 0 .. Retries + 1]
    /\ megaLock \in Workers \cup {NoWorker}
    /\ concurrency \in RawConcurrency
    /\ closing \in BOOLEAN
    /\ ops \in 0 .. MaxOps
    /\ vetted \in SUBSET Jobs
    /\ tangled \in SUBSET Jobs

-----------------------------------------------------------------------------
(* Helpers *)

WithStatus(S) == {j \in Jobs : status[j] \in S}
IsMega(j) == remote[j] \in MegaFiles
Live(w) == pc[w] # "idle"
Idle == {w \in Workers : pc[w] = "idle"}
WorkersOf(j) == {w \in Workers : Live(w) /\ owner[w] = j}

(* A worker that still has work to do: it has not reached its deferred     *)
(* clean-up and its context has not been cancelled.                        *)
Active(w) == pc[w] \notin {"idle", "exit"} /\ ~cancelled[w]

(* The clamp at the head of a scheduler tick. *)
Limit == CASE concurrency <= 0 -> 2
           [] concurrency > 8 -> 8
           [] OTHER -> concurrency

(* q.update ignores a job that has been removed. *)
Becomes(S, s) ==
    [j \in Jobs |-> IF j \in S /\ status[j] # "absent" THEN s ELSE status[j]]
SetGuarded(S, b) ==
    [j \in Jobs |-> IF j \in S /\ status[j] # "absent" THEN b ELSE guarded[j]]

(* Calling the registered cancel functions of the jobs of S. *)
CancelAll(S) ==
    [w \in Workers |-> cancelled[w] \/ \E j \in S : cancelFn[j] = w]

UserOp == ops < MaxOps /\ ops' = ops + 1

-----------------------------------------------------------------------------
(* The scheduler *)

(* Priority descending, then AddedAt ascending, then place in q.Jobs; jobs *)
(* are appended as they are added, so their numbers carry the last two.    *)
Outranks(j, k) ==
    \/ priority[j] > priority[k]
    \/ priority[j] = priority[k] /\ j < k

(* Faulty variants of Candidates, each the result of a plausible slip:     *)
(* paused jobs taken as well; a MEGA job launched earlier in the tick      *)
(* forgotten; a paused MEGA job taken for a running one.                   *)
Candidates_PausedToo ==
    LET queued == WithStatus({"queued", "paused"})
    IN  {j \in queued : IsMega(j) =>
            /\ \A r \in WithStatus({"running"}) : ~IsMega(r)
            /\ \A k \in queued \ {j} : IsMega(k) => Outranks(j, k)}
Candidates_TickForgotten ==
    {j \in WithStatus({"queued"}) :
        IsMega(j) => \A r \in WithStatus({"running"}) : ~IsMega(r)}
Candidates_PausedHoldsMega ==
    LET queued == WithStatus({"queued"})
    IN  {j \in queued : IsMega(j) =>
            /\ \A r \in WithStatus({"running", "paused"}) : ~IsMega(r)
            /\ \A k \in queued \ {j} : IsMega(k) => Outranks(j, k)}

(* A MEGA job is passed over while another MEGA job runs or was launched   *)
(* earlier in the same tick; what is passed over takes no slot.            *)
Candidates ==
    LET queued == WithStatus({"queued"})
    IN  {j \in queued : IsMega(j) =>
            /\ \A r \in WithStatus({"running"}) : ~IsMega(r)
            /\ \A k \in queued \ {j} : IsMega(k) => Outranks(j, k)}

(* Faulty variant: one slot too many. *)
Chosen_OffByOne ==
    LET slots == Limit - Cardinality(WithStatus({"running"}))
    IN  {j \in Candidates :
            Cardinality({k \in Candidates : Outranks(k, j)}) <= slots}

Chosen ==
    LET slots == Limit - Cardinality(WithStatus({"running"}))
    IN  {j \in Candidates :
            Cardinality({k \in Candidates : Outranks(k, j)}) < slots}

(* One tick: every chosen job becomes running, its cancel function is      *)
(* registered and its goroutine is started.  The code reads the limit just *)
(* before it takes q.mu; here a change in between counts in this tick.     *)
SchedulerTick ==
    /\ Chosen # {}
    /\ \E hire \in Injection(Chosen, Idle) :
        /\ status' = Becomes(Chosen, "running")
        /\ cancelFn' = [j \in Jobs |-> IF j \in Chosen THEN hire[j] ELSE cancelFn[j]]
        /\ pc' = [w \in Workers |->
                    IF \E j \in Chosen : hire[j] = w THEN "start" ELSE pc[w]]
        /\ owner' = [w \in Workers |->
                    IF \E j \in Chosen : hire[j] = w
                    THEN CHOOSE j \in Chosen : hire[j] = w ELSE owner[w]]
    /\ UNCHANGED <<guarded, override, remote, priority, created, cancelled,
                   verdict, tries, megaLock, concurrency, closing, ops, history>>

-----------------------------------------------------------------------------
(* runJob *)

Goto(w, l) == pc' = [pc EXCEPT ![w] = l]

(* The worker writes s into its job, whatever the job's status is by then, *)
(* and returns.                                                            *)
Finish(w, s) ==
    /\ status' = Becomes({owner[w]}, s)
    /\ Goto(w, "exit")

JobUnchanged == UNCHANGED <<guarded, override, remote, priority, created>>
EnvUnchanged == UNCHANGED <<cancelFn, owner, cancelled, concurrency, closing, ops, tangled>>

(* The first critical section copies the job; a job without a usable remote*)
(* identity fails, one whose GuardVersion is current skips ExactGuard.     *)
WorkerStart(w) ==
    /\ pc[w] = "start"
    /\ LET j == owner[w] IN
        \/ status[j] = "absent" /\ Goto(w, "exit") /\ UNCHANGED status
        \/ status[j] # "absent" /\ remote[j] = NoFile /\ Finish(w, "failed")
        \/ /\ status[j] # "absent" /\ remote[j] # NoFile
           /\ Goto(w, IF guarded[j] THEN "engine" ELSE "guard")
           /\ UNCHANGED status
    /\ JobUnchanged /\ EnvUnchanged /\ UNCHANGED <<verdict, tries, vetted, megaLock>>

(* Faulty variant: the job keeps its status whatever the failure. *)
GuardFails_Silent(w) ==
    /\ pc[w] = "guard"
    /\ Goto(w, "exit")
    /\ JobUnchanged /\ EnvUnchanged /\ UNCHANGED <<status, verdict, tries, vetted, megaLock>>

(* ExactGuard fails: the job is paused, unless the failure is the worker's *)
(* own cancellation.                                                       *)
GuardFails(w) ==
    /\ pc[w] = "guard"
    /\ Goto(w, "exit")
    /\ status' = IF cancelled[w] THEN status ELSE Becomes({owner[w]}, "paused")
    /\ JobUnchanged /\ EnvUnchanged /\ UNCHANGED <<verdict, tries, vetted, megaLock>>

Acceptable(j, v) == v = "DOWNLOAD" \/ (v = "REVIEW" /\ override[j])

(* ExactGuard, one run at a time (guardMu), looks at the context for the   *)
(* last time before it evaluates the row; a cancellation during the        *)
(* evaluation cuts its remote reads short but still yields a verdict.  To  *)
(* read a MEGA file it takes megaQueueMu if that is free, and does without *)
(* if not.                                                                 *)
GuardEvaluates(w) ==
    /\ pc[w] = "guard"
    /\ ~cancelled[w]
    /\ \A x \in Workers : pc[x] # "evaluate"
    /\ Goto(w, "evaluate")
    /\ \/ IsMega(owner[w]) /\ megaLock = NoWorker /\ megaLock' = w
       \/ UNCHANGED megaLock
    /\ JobUnchanged /\ EnvUnchanged /\ UNCHANGED <<status, verdict, tries, vetted>>

ReleaseMega(w) == megaLock' = IF megaLock = w THEN NoWorker ELSE megaLock

(* ExactGuard answers; nothing is written into the job yet. *)
GuardReturns(w) ==
    /\ pc[w] = "evaluate"
    /\ \E v \in Verdicts :
        /\ verdict' = [verdict EXCEPT ![w] = v]
        /\ vetted' = IF Acceptable(owner[w], v) THEN vetted \cup {owner[w]} ELSE vetted
    /\ Goto(w, "verdict")
    /\ ReleaseMega(w)
    /\ JobUnchanged /\ EnvUnchanged /\ UNCHANGED <<status, tries>>

(* First update after ExactGuard: the verdict and GuardVersion. *)
CommitVerdict(w) ==
    /\ pc[w] = "verdict"
    /\ guarded' = SetGuarded({owner[w]}, TRUE)
    /\ Goto(w, "judge")
    /\ EnvUnchanged
    /\ UNCHANGED <<status, override, remote, priority, created, verdict, tries, vetted, megaLock>>

(* Second update: a duplicate is blocked, an unconfirmed review is held.   *)
(* The verdict is not used again.                                          *)
Judge(w) ==
    /\ pc[w] = "judge"
    /\ \/ verdict[w] = "DUPLICATE" /\ Finish(w, "blocked")
       \/ verdict[w] = "REVIEW" /\ ~override[owner[w]] /\ Finish(w, "paused")
       \/ Acceptable(owner[w], verdict[w]) /\ Goto(w, "engine") /\ UNCHANGED status
    /\ verdict' = [verdict EXCEPT ![w] = "none"]
    /\ JobUnchanged /\ EnvUnchanged /\ UNCHANGED <<tries, vetted, megaLock>>

(* validateDownloadEngineV855: a missing or unsuitable engine pauses the job. *)
CheckEngine(w) ==
    /\ pc[w] = "engine"
    /\ \/ Finish(w, "paused")
       \/ Goto(w, "attempt") /\ UNCHANGED status
    /\ JobUnchanged /\ EnvUnchanged /\ UNCHANGED <<verdict, tries, vetted, megaLock>>

(* Head of the retry loop. *)
BeginAttempt(w) ==
    /\ pc[w] = "attempt"
    /\ \/ cancelled[w] /\ Goto(w, "exit") /\ UNCHANGED tries
       \/ /\ ~cancelled[w]
          /\ tries' = [tries EXCEPT ![w] = @ + 1]
          /\ Goto(w, IF IsMega(owner[w]) THEN "mega" ELSE "transfer")
    /\ JobUnchanged /\ EnvUnchanged /\ UNCHANGED <<status, verdict, vetted, megaLock>>

(* megaQueueMu is waited for without the context, and held while a MEGA    *)
(* worker transfers.                                                       *)
AcquireMega(w) ==
    /\ pc[w] = "mega"
    /\ megaLock = NoWorker
    /\ megaLock' = w
    /\ Goto(w, "transfer")
    /\ JobUnchanged /\ EnvUnchanged /\ UNCHANGED <<status, verdict, tries, vetted>>

(* Faulty variant: the engine is run without the context. *)
TransferEnds_NoContext(w) ==
    /\ pc[w] = "transfer"
    /\ ~cancelled[w]
    /\ \E next \in {"verify", "error"} : Goto(w, next)
    /\ ReleaseMega(w)
    /\ JobUnchanged /\ EnvUnchanged /\ UNCHANGED <<status, verdict, tries, vetted>>

(* The engine returns, with a file or an error; a cancelled worker leaves  *)
(* without writing anything.                                               *)
TransferEnds(w) ==
    /\ pc[w] = "transfer"
    /\ \E next \in (IF cancelled[w] THEN {"exit"} ELSE {"verify", "error"}) : Goto(w, next)
    /\ ReleaseMega(w)
    /\ JobUnchanged /\ EnvUnchanged /\ UNCHANGED <<status, verdict, tries, vetted>>

(* The file is checked against the remote and the job is completed.        *)
Verify(w) ==
    /\ pc[w] = "verify"
    /\ \/ Finish(w, "completed")
       \/ Goto(w, "error") /\ UNCHANGED status
    /\ JobUnchanged /\ EnvUnchanged /\ UNCHANGED <<verdict, tries, vetted, megaLock>>

(* Errors the user must resolve pause the job, hopeless ones fail it, and  *)
(* the others are retried until the attempts run out.                      *)
ReportError(w) ==
    /\ pc[w] = "error"
    /\ \/ \E s \in {"paused", "failed"} : Finish(w, s)
       \/ tries[w] > Retries /\ Finish(w, "failed")
       \/ tries[w] <= Retries /\ Goto(w, "backoff") /\ UNCHANGED status
    /\ JobUnchanged /\ EnvUnchanged /\ UNCHANGED <<verdict, tries, vetted, megaLock>>

(* Faulty variant: attempts is declared inside the loop. *)
Backoff_Recounts(w) ==
    /\ pc[w] = "backoff"
    /\ \/ cancelled[w] /\ Goto(w, "exit")
       \/ Goto(w, "attempt")
    /\ tries' = [tries EXCEPT ![w] = 0]
    /\ JobUnchanged /\ EnvUnchanged /\ UNCHANGED <<status, verdict, vetted, megaLock>>

(* select on ctx.Done and the retry timer: once both are ready either wins.*)
Backoff(w) ==
    /\ pc[w] = "backoff"
    /\ \/ cancelled[w] /\ Goto(w, "exit")
       \/ Goto(w, "attempt")
    /\ JobUnchanged /\ EnvUnchanged /\ UNCHANGED <<status, verdict, tries, vetted, megaLock>>

(* The deferred clean-up removes the job's cancel function from q.Cancels, *)
(* whichever worker registered it.                                         *)
WorkerExit(w) ==
    /\ pc[w] = "exit"
    /\ cancelFn' = [cancelFn EXCEPT ![owner[w]] = NoWorker]
    /\ Goto(w, "idle")
    /\ owner' = [owner EXCEPT ![w] = NoJob]
    /\ cancelled' = [cancelled EXCEPT ![w] = FALSE]
    /\ verdict' = [verdict EXCEPT ![w] = "none"]
    /\ tries' = [tries EXCEPT ![w] = 0]
    /\ UNCHANGED <<jobVars, megaLock, concurrency, closing, ops, history>>

WorkerStep(w) ==
    \/ WorkerStart(w) \/ GuardFails(w) \/ GuardEvaluates(w) \/ GuardReturns(w)
    \/ CommitVerdict(w) \/ Judge(w) \/ CheckEngine(w) \/ BeginAttempt(w) \/ AcquireMega(w)
    \/ TransferEnds(w) \/ Verify(w) \/ ReportError(w) \/ Backoff(w)
    \/ WorkerExit(w)

-----------------------------------------------------------------------------
(* handleQueueAdd, one selected file at a time.  ExactGuard has answered   *)
(* before the lock is taken.  Known(f) are the older jobs of the same      *)
(* remote the handler looks at; it only finds those whose ResultID still   *)
(* names the selected row, which depends on the scans made since.          *)

(* Faulty variant: completed jobs are not skipped. *)
Known_CompletedToo(f) ==
    {j \in Jobs : remote[j] = f
        /\ status[j] \in {"queued", "running", "paused", "failed", "completed"}}

Known(f) ==
    {j \in Jobs : remote[j] = f /\ status[j] \in {"queued", "running", "paused", "failed"}}

AddFindsDuplicate(f) ==
    /\ UserOp
    /\ \E S \in SUBSET Known(f) \ {{}} :
        /\ status' = Becomes(S, "blocked")
        /\ guarded' = SetGuarded(S, TRUE)
        /\ cancelled' = CancelAll(S)
    /\ UNCHANGED <<override, remote, priority, created, cancelFn, megaLock, pc, owner, verdict,
                   tries, concurrency, closing, history>>

AddNeedsReview(f) ==
    /\ UserOp
    /\ \E S \in SUBSET Known(f) \ {{}} :
        /\ status' = Becomes(S, "paused")
        /\ guarded' = SetGuarded(S, TRUE)
        /\ cancelled' = CancelAll(S)
    /\ UNCHANGED <<override, remote, priority, created, cancelFn, megaLock, pc, owner, verdict,
                   tries, concurrency, closing, history>>

AddAccepted(f) ==
    LET j == created + 1 IN
    /\ UserOp
    /\ created < MaxJobs
    /\ \A k \in Jobs : remote[k] = f => status[k] \notin {"queued", "running", "paused"}
    /\ created' = j
    /\ status' = [status EXCEPT ![j] = "queued"]
    /\ guarded' = [guarded EXCEPT ![j] = TRUE]
    /\ \E confirmed \in BOOLEAN : override' = [override EXCEPT ![j] = confirmed]
    /\ remote' = [remote EXCEPT ![j] = f]
    /\ vetted' = vetted \cup {j}
    /\ UNCHANGED <<priority, cancelFn, megaLock, workerVars, concurrency, closing, tangled>>

-----------------------------------------------------------------------------
(* handleQueueAction: each action applies to the selected jobs, the -all   *)
(* forms to every job.                                                     *)

(* Faulty variant: the worker is not cancelled. *)
Pause_NoCancel(S) ==
    LET hit == S \cap WithStatus({"running", "queued"}) IN
    /\ UserOp
    /\ hit # {}
    /\ status' = Becomes(hit, "paused")
    /\ guarded' = SetGuarded(hit, FALSE)
    /\ UNCHANGED <<override, remote, priority, created, cancelFn, megaLock, workerVars,
                   concurrency, closing, history>>

Pause(S) ==
    LET hit == S \cap WithStatus({"running", "queued"}) IN
    /\ UserOp
    /\ hit # {}
    /\ status' = Becomes(hit, "paused")
    /\ guarded' = SetGuarded(hit, FALSE)
    /\ cancelled' = CancelAll(hit)
    /\ UNCHANGED <<override, remote, priority, created, cancelFn, megaLock, pc, owner, verdict,
                   tries, concurrency, closing, history>>

(* Faulty variant: GuardVersion survives the resume. *)
Resume_KeepsGuard(S) ==
    LET hit == S \cap WithStatus({"paused", "failed", "cancelled"}) IN
    /\ UserOp
    /\ hit # {}
    /\ status' = Becomes(hit, "queued")
    /\ vetted' = vetted \ hit
    /\ tangled' = tangled \cup {j \in hit : WorkersOf(j) # {}}
    /\ UNCHANGED <<guarded, override, remote, priority, created, cancelFn, megaLock, workerVars,
                   concurrency, closing>>

Resume(S) ==
    LET hit == S \cap WithStatus({"paused", "failed", "cancelled"}) IN
    /\ UserOp
    /\ hit # {}
    /\ status' = Becomes(hit, "queued")
    /\ guarded' = SetGuarded(hit, FALSE)
    /\ vetted' = vetted \ hit
    /\ tangled' = tangled \cup {j \in hit : WorkersOf(j) # {}}
    /\ UNCHANGED <<override, remote, priority, created, cancelFn, megaLock, workerVars,
                   concurrency, closing>>

Cancel(S) ==
    LET hit == S \cap WithStatus({"running", "queued", "paused"}) IN
    /\ UserOp
    /\ hit # {}
    /\ status' = Becomes(hit, "cancelled")
    /\ cancelled' = CancelAll(hit)
    /\ UNCHANGED <<guarded, override, remote, priority, created, cancelFn, megaLock, pc, owner,
                   verdict, tries, concurrency, closing, history>>

(* Removing jobs; what the removed record held is forgotten with it.       *)
Forget(S) ==
    /\ UserOp
    /\ S # {}
    /\ status' = Becomes(S, "absent")
    /\ guarded' = SetGuarded(S, FALSE)
    /\ priority' = [j \in Jobs |-> IF j \in S THEN 0 ELSE priority[j]]
    /\ UNCHANGED <<override, remote, created, cancelFn, megaLock, workerVars, concurrency,
                   closing, history>>

Remove(S) == Forget({j \in S : status[j] \notin {"absent", "running"}})
ClearCompleted == Forget(WithStatus({"completed", "cancelled", "blocked"}))

ChangePriority(S) ==
    /\ UserOp
    /\ \E d \in {-1, 1} :
        LET moved == [j \in Jobs |-> IF j \in S /\ status[j] # "absent"
                                     THEN priority[j] + d ELSE priority[j]]
        IN  /\ moved # priority
            /\ \A j \in Jobs : moved[j] \in -PriorityBound .. PriorityBound
            /\ priority' = moved
    /\ UNCHANGED <<status, guarded, override, remote, created, cancelFn, megaLock, workerVars,
                   concurrency, closing, history>>

(* The settings dialog stores another concurrency. *)
ChangeConcurrency ==
    /\ UserOp
    /\ concurrency' \in RawConcurrency \ {concurrency}
    /\ UNCHANGED <<jobVars, cancelFn, megaLock, workerVars, closing, history>>

-----------------------------------------------------------------------------
(* shutdownApp and queueFor *)

(* The queue part of shutdownApp.  The process, its scheduler and its HTTP *)
(* servers live on while MEGA and aria2 are settled.  The code calls the   *)
(* cancel functions it has collected right after it has released q.mu.     *)
Shutdown ==
    LET hit == WithStatus({"running", "queued"}) IN
    /\ ~closing
    /\ closing' = TRUE
    /\ status' = Becomes(hit, "paused")
    /\ guarded' = SetGuarded(hit, FALSE)
    /\ cancelled' = CancelAll(Jobs)
    /\ UNCHANGED <<override, remote, priority, created, cancelFn, megaLock, pc, owner, verdict,
                   tries, concurrency, ops, history>>

(* The process ends, by a crash at any point or after Shutdown, and the    *)
(* next one loads download_queue.json.                                     *)
Restart ==
    LET hit == WithStatus({"running", "queued"}) IN
    /\ UserOp
    /\ status' = Becomes(hit, "paused")
    /\ guarded' = SetGuarded(hit, FALSE)
    /\ cancelFn' = [j \in Jobs |-> NoWorker]
    /\ megaLock' = NoWorker
    /\ pc' = [w \in Workers |-> "idle"]
    /\ owner' = [w \in Workers |-> NoJob]
    /\ cancelled' = [w \in Workers |-> FALSE]
    /\ verdict' = [w \in Workers |-> "none"]
    /\ tries' = [w \in Workers |-> 0]
    /\ closing' = FALSE
    /\ vetted' = {}
    /\ tangled' = {}
    /\ UNCHANGED <<override, remote, priority, created, concurrency>>

-----------------------------------------------------------------------------

Init ==
    /\ status = [j \in Jobs |-> IF j <= LegacyJobs THEN "paused" ELSE "absent"]
    /\ guarded = [j \in Jobs |-> FALSE]
    /\ override = [j \in Jobs |-> FALSE]
    /\ remote = [j \in Jobs |-> NoFile]
    /\ priority = [j \in Jobs |-> 0]
    /\ created = LegacyJobs
    /\ cancelFn = [j \in Jobs |-> NoWorker]
    /\ pc = [w \in Workers |-> "idle"]
    /\ owner = [w \in Workers |-> NoJob]
    /\ cancelled = [w \in Workers |-> FALSE]
    /\ verdict = [w \in Workers |-> "none"]
    /\ tries = [w \in Workers |-> 0]
    /\ megaLock = NoWorker
    /\ concurrency \in RawConcurrency
    /\ closing = FALSE
    /\ ops = 0
    /\ vetted = {}
    /\ tangled = {}

HandleQueueAdd ==
    \E f \in Files : AddFindsDuplicate(f) \/ AddNeedsReview(f) \/ AddAccepted(f)

HandleQueueAction ==
    \/ \E S \in SUBSET Jobs :
        Pause(S) \/ Resume(S) \/ Cancel(S) \/ Remove(S) \/ ChangePriority(S)
    \/ ClearCompleted

Next ==
    \/ SchedulerTick
    \/ \E w \in Workers : WorkerStep(w)
    \/ HandleQueueAdd
    \/ HandleQueueAction
    \/ ChangeConcurrency
    \/ Shutdown
    \/ Restart

(* The ticker fires forever; every step of a live goroutine is eventually  *)
(* taken, which supposes that ExactGuard and each transfer attempt end.    *)
Fairness ==
    /\ WF_vars(SchedulerTick)
    /\ \A w \in Workers : WF_vars(WorkerStep(w))

Spec == Init /\ [][Next]_vars
FairSpec == Spec /\ Fairness

-----------------------------------------------------------------------------
(* Properties *)

(* A job shown as running always has a worker that still has work to do    *)
(* and has not been cancelled: no sequence of pauses, resumes, guard       *)
(* verdicts and late clean-ups leaves a job running with nobody behind it, *)
(* which would also take a scheduler slot for good.                        *)
RunningHasWorker ==
    \A j \in Jobs : status[j] = "running" => \E w \in WorkersOf(j) : Active(w)

(* As long as a job has not been resumed under a worker that was still     *)
(* winding down, it has at most one worker.  This is about jobs: a file    *)
(* that is removed, or cancelled, and added again is another job, and the  *)
(* old worker may still be at the same destination beside the new one.     *)
OneWorkerPerJob ==
    \A j \in Jobs \ tangled : \A v, w \in WorkersOf(j) : v = w

(* Under the same condition a worker that has not been cancelled belongs   *)
(* to a running job and its cancel function is registered: Pause, Cancel   *)
(* and Shutdown can reach every transfer in progress.                      *)
ActiveIsReachable ==
    \A w \in Workers : Active(w) /\ owner[w] \notin tangled =>
        status[owner[w]] = "running" /\ cancelFn[owner[w]] = w

(* Under the same condition no transfer begins, or runs, without ExactGuard*)
(* having cleared the job since it was added or last resumed.              *)
TransferIsVetted ==
    \A w \in Workers :
        pc[w] \in {"mega", "transfer", "verify", "error", "backoff"}
        /\ owner[w] \notin tangled => owner[w] \in vetted

(* README.md: MEGA has a single simultaneous job. *)
OneMegaJob ==
    \A j, k \in WithStatus({"running"}) : IsMega(j) /\ IsMega(k) => j = k

(* A tick never starts jobs beyond the configured concurrency, counting    *)
(* the jobs that were already running.                                     *)
RespectsConcurrency ==
    [][WithStatus({"running"})' \subseteq WithStatus({"running"})
       \/ Cardinality(WithStatus({"running"})') <= Limit]_vars

(* A completed job stays completed until the user removes it: no late      *)
(* worker of it, cancelled or not, overwrites the result.                  *)
CompletedIsFinal ==
    [][\A j \in Jobs \ tangled : status[j] = "completed" =>
            status'[j] \in {"completed", "absent"}]_vars

(* A queued job leaves the queue: it is started, or the user takes it out. *)
QueuedIsServed ==
    \A j \in Jobs : status[j] = "queued" ~> status[j] # "queued"

(* A running job eventually stops running, whatever its engine reports. *)
RunningEnds ==
    \A j \in Jobs : status[j] = "running" ~> status[j] # "running"

(* A cancelled worker winds down and frees what it holds, the MEGA lock    *)
(* included.                                                               *)
CancelledWorkerLeaves ==
    \A w \in Workers : cancelled[w] ~> ~cancelled[w]

(* v8_extra.go:1040, a resumed job is checked again by the backend before  *)
(* any downloader is started: a worker that will go on to download skips   *)
(* ExactGuard only if ExactGuard has cleared its job since the job was     *)
(* added or last resumed.                                                  *)
ResumedJobIsRechecked ==
    [][\A w \in Workers :
        /\ pc[w] = "start" /\ pc'[w] = "engine"
        /\ Active(w) /\ status[owner[w]] = "running"
        => owner[w] \in vetted]_vars

=============================================================================
