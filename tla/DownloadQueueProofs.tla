------------------------- MODULE DownloadQueueProofs -------------------------
(***************************************************************************)
(* Theorems about DownloadQueue, for every number of jobs, workers, files, *)
(* retries and operations.  The invariants are proved in layers, each with *)
(* the help of the ones below it: types and attempt counts; who owns what; *)
(* what holds of jobs never resumed under a live worker; what ExactGuard   *)
(* has cleared; the exclusivity of MEGA.                                   *)
(***************************************************************************)
EXTENDS DownloadQueue, FiniteSetTheorems, TLAPS

-----------------------------------------------------------------------------
(* The invariants *)

Attempts ==
    \A w \in Workers :
        /\ pc[w] \in {"idle", "start", "guard", "evaluate", "verdict", "judge", "engine"}
            => tries[w] = 0
        /\ pc[w] \in {"attempt", "backoff"} => tries[w] <= Retries

(* A worker has a job exactly while it is live. *)
Employed == \A w \in Workers : Live(w) <=> owner[w] \in Jobs

TypeInv == TypeOK /\ Attempts /\ Employed

(* The job of a live worker has been created; no idle worker is cancelled. *)
Ownership ==
    \A w \in Workers :
        /\ Live(w) => owner[w] <= created
        /\ cancelled[w] => Live(w)

(* Jobs are numbered in the order they are created. *)
Numbering == \A j \in Jobs : j > created => status[j] = "absent"

(* A registered cancel function is that of a live worker of the job. *)
Registration ==
    \A j \in Jobs : cancelFn[j] # NoWorker =>
        Live(cancelFn[j]) /\ owner[cancelFn[j]] = j

OwnerInv == Ownership /\ Numbering /\ Registration /\ RunningHasWorker

(* What holds of a job that was never resumed under a live worker. *)
QueuedAlone ==
    \A j \in Jobs \ tangled : status[j] = "queued" => WorkersOf(j) = {}
LiveIsRegistered ==
    \A w \in Workers : Live(w) /\ owner[w] \notin tangled => cancelFn[owner[w]] = w
ActiveIsRunning ==
    \A w \in Workers : Active(w) /\ owner[w] \notin tangled => status[owner[w]] = "running"
CompletedIsLeft ==
    \A w \in Workers : Live(w) /\ owner[w] \notin tangled
        /\ status[owner[w]] = "completed" => pc[w] = "exit"

ReachInv == QueuedAlone /\ LiveIsRegistered /\ ActiveIsRunning /\ CompletedIsLeft

(* A current GuardVersion was earned, or its worker is about to act on a   *)
(* verdict that it has just stored.                                        *)
GuardIsEarned ==
    \A j \in Jobs \ tangled : status[j] \in {"queued", "running"} /\ guarded[j] =>
        j \in vetted \/ \E w \in WorkersOf(j) : pc[w] = "judge"
WorkerIsCleared(w) ==
    owner[w] \notin tangled =>
        /\ pc[w] \in {"verdict", "judge"} /\ Acceptable(owner[w], verdict[w])
            => owner[w] \in vetted
        /\ pc[w] \in {"engine", "attempt"} /\ ~cancelled[w] => owner[w] \in vetted
        /\ pc[w] \in {"mega", "transfer", "verify", "error", "backoff"}
            => owner[w] \in vetted

VetInv == GuardIsEarned /\ \A w \in Workers : WorkerIsCleared(w)

-----------------------------------------------------------------------------
(* Type correctness *)

(* The jobs one tick starts are queued, so they are created jobs.          *)
LEMMA ChosenIsQueued == Chosen \subseteq {j \in Jobs : status[j] = "queued"}
  BY DEF Chosen, Candidates, WithStatus

(* What a tick does, seen from one job and from one worker: each chosen    *)
(* job hires an idle worker of its own, and everything else stays.         *)
Hired(hire) ==
    /\ \A j \in Chosen : /\ pc[hire[j]] = "idle" /\ pc'[hire[j]] = "start"
                         /\ owner'[hire[j]] = j /\ cancelFn'[j] = hire[j]
    /\ \A j, k \in Chosen : hire[j] = hire[k] => j = k
    /\ \A w \in Workers : (\A j \in Chosen : hire[j] # w)
                            => pc'[w] = pc[w] /\ owner'[w] = owner[w]
    /\ \A j \in Jobs \ Chosen : cancelFn'[j] = cancelFn[j]

LEMMA TickHires ==
  ASSUME SchedulerTick
  PROVE  \E hire \in [Chosen -> Workers] : Hired(hire)
  <1>1. PICK hire \in Injection(Chosen, Idle) :
          /\ cancelFn' = [j \in Jobs |-> IF j \in Chosen THEN hire[j] ELSE cancelFn[j]]
          /\ pc' = [w \in Workers |->
                      IF \E j \in Chosen : hire[j] = w THEN "start" ELSE pc[w]]
          /\ owner' = [w \in Workers |->
                      IF \E j \in Chosen : hire[j] = w
                      THEN CHOOSE j \in Chosen : hire[j] = w ELSE owner[w]]
    BY DEF SchedulerTick
  <1>2. \A j, k \in Chosen : hire[j] = hire[k] => j = k
    BY DEF Injection, IsInjective
  <1>3. ASSUME NEW j \in Chosen
        PROVE  /\ hire[j] \in Workers /\ pc[hire[j]] = "idle" /\ pc'[hire[j]] = "start"
               /\ owner'[hire[j]] = j /\ cancelFn'[j] = hire[j]
    <2>1. hire[j] \in Workers /\ pc[hire[j]] = "idle"
      BY DEF Injection, Idle
    <2>2. pc'[hire[j]] = "start" /\ owner'[hire[j]] = CHOOSE k \in Chosen : hire[k] = hire[j]
      BY <1>1, <2>1
    <2>3. cancelFn'[j] = hire[j]
      BY <1>1, ChosenIsQueued
    <2> QED
      BY <1>2, <2>1, <2>2, <2>3
  <1>4. hire \in [Chosen -> Workers]
    BY <1>3 DEF Injection
  <1>5. ASSUME NEW w \in Workers, \A j \in Chosen : hire[j] # w
        PROVE  pc'[w] = pc[w] /\ owner'[w] = owner[w]
    BY <1>1, <1>5
  <1>6. \A j \in Jobs \ Chosen : cancelFn'[j] = cancelFn[j]
    BY <1>1
  <1>7. Hired(hire)
    BY <1>2, <1>3, <1>5, <1>6 DEF Hired
  <1> QED
    BY <1>4, <1>7

LEMMA InitTypes == QueueAssumption /\ Init => TypeInv
  <1> SUFFICES ASSUME QueueAssumption, Init PROVE TypeInv
    OBVIOUS
  <1>1. status \in [Jobs -> Statuses]
    BY DEF Init, Statuses
  <1>0. created \in 0 .. MaxJobs
    BY DEF QueueAssumption, Init
  <1>2. remote \in [Jobs -> Files \cup {NoFile}] /\ cancelFn \in [Jobs -> Workers \cup {NoWorker}]
    BY DEF Init
  <1>3. priority \in [Jobs -> -PriorityBound .. PriorityBound] /\ tries \in [Workers -> 0 .. Retries + 1]
    BY DEF QueueAssumption, Init
  <1>4. ops \in 0 .. MaxOps
    BY DEF QueueAssumption, Init
  <1>5. TypeOK
    BY <1>1, <1>2, <1>3, <1>4 DEF Init, TypeOK, PCs
  <1>6. Attempts /\ Employed
    BY DEF Init, Attempts, Employed, Live, NoJob, Jobs
  <1> QED
    BY <1>5, <1>6 DEF TypeInv

LEMMA TickTypes ==
  ASSUME TypeInv, SchedulerTick
  PROVE  TypeInv'
  <1>1. PICK hire \in [Chosen -> Workers] : Hired(hire)
    BY TickHires
  <1>2. status' \in [Jobs -> Statuses]
    BY DEF SchedulerTick, Becomes, Statuses, TypeInv, TypeOK
  <1>3. pc' \in [Workers -> PCs]
    BY DEF SchedulerTick, PCs, TypeInv, TypeOK
  <1>4. owner' \in [Workers -> Jobs \cup {NoJob}]
    BY ChosenIsQueued DEF SchedulerTick, TypeInv, TypeOK
  <1>5. cancelFn' \in [Jobs -> Workers \cup {NoWorker}]
    <2>1. \A j \in Jobs : cancelFn'[j] \in Workers \cup {NoWorker}
      BY <1>1 DEF Hired, TypeInv, TypeOK
    <2>2. cancelFn' = [j \in Jobs |-> cancelFn'[j]]
      BY DEF SchedulerTick
    <2> QED
      BY <2>1, <2>2
  <1>6. TypeOK'
    BY <1>2, <1>3, <1>4, <1>5 DEF SchedulerTick, TypeInv, TypeOK, history
  <1>7. Attempts'
    <2>1. tries' = tries
      BY DEF SchedulerTick
    <2>2. \A w \in Workers : pc'[w] = pc[w] \/ (pc[w] = "idle" /\ pc'[w] = "start")
      BY <1>1 DEF Hired
    <2> QED
      BY <2>1, <2>2 DEF TypeInv, Attempts
  <1>8. Employed'
    <2>1. \A w \in Workers : (\A j \in Chosen : hire[j] # w) => (Live(w) <=> owner[w] \in Jobs)'
      BY <1>1 DEF Hired, TypeInv, Employed, Live
    <2>2. \A j \in Chosen : (Live(hire[j]) <=> owner[hire[j]] \in Jobs)'
      BY <1>1, ChosenIsQueued DEF Hired, Live
    <2> QED
      BY <2>1, <2>2 DEF Employed
  <1> QED
    BY <1>6, <1>7, <1>8 DEF TypeInv

(* Writing one status, or one guard flag, into some jobs keeps the types. *)
LEMMA BecomesTypes ==
  ASSUME TypeOK, NEW S, NEW s \in Statuses
  PROVE  Becomes(S, s) \in [Jobs -> Statuses]
  BY DEF TypeOK, Becomes

LEMMA SetGuardedTypes ==
  ASSUME TypeOK, NEW S, NEW b \in BOOLEAN
  PROVE  SetGuarded(S, b) \in [Jobs -> BOOLEAN]
  BY DEF TypeOK, SetGuarded

LEMMA CancelAllTypes ==
  ASSUME TypeOK, NEW S
  PROVE  CancelAll(S) \in [Workers -> BOOLEAN]
  BY DEF TypeOK, CancelAll

LEMMA WorkerTypes ==
  ASSUME QueueAssumption, TypeInv, NEW w \in Workers, WorkerStep(w)
  PROVE  TypeInv'
  <1> USE DEF TypeInv, TypeOK, Attempts, Employed, Live, Goto, Finish, JobUnchanged, EnvUnchanged, ReleaseMega, PCs
  <1> USE BecomesTypes DEF Statuses
  <1>1. CASE WorkerStart(w)
    BY <1>1 DEF WorkerStart
  <1>2. CASE GuardFails(w)
    BY <1>2 DEF GuardFails
  <1>3. CASE GuardEvaluates(w)
    BY <1>3 DEF GuardEvaluates
  <1>4. CASE GuardReturns(w)
    BY <1>4 DEF GuardReturns, Verdicts
  <1>5. CASE CommitVerdict(w)
    BY <1>5, SetGuardedTypes DEF CommitVerdict
  <1>6. CASE Judge(w)
    BY <1>6 DEF Judge
  <1>7. CASE CheckEngine(w)
    BY <1>7 DEF CheckEngine
  <1>8. CASE BeginAttempt(w)
    BY <1>8 DEF BeginAttempt, QueueAssumption
  <1>9. CASE AcquireMega(w)
    BY <1>9 DEF AcquireMega
  <1>10. CASE TransferEnds(w)
    BY <1>10 DEF TransferEnds
  <1>11. CASE Verify(w)
    BY <1>11 DEF Verify
  <1>12. CASE ReportError(w)
    BY <1>12 DEF ReportError
  <1>13. CASE Backoff(w)
    BY <1>13 DEF Backoff
  <1>14. CASE WorkerExit(w)
    <2>1. TypeOK'
      BY <1>14 DEF WorkerExit, QueueAssumption, jobVars, history, NoJob
    <2>2. Attempts'
      BY <1>14 DEF WorkerExit
    <2>3. Employed'
      BY <1>14 DEF WorkerExit, NoJob, Jobs
    <2> QED
      BY <2>1, <2>2, <2>3
  <1> HIDE DEF TypeInv, TypeOK, Attempts, Employed, Goto, Finish, JobUnchanged, EnvUnchanged
  <1> QED
    BY <1>1, <1>2, <1>3, <1>4, <1>5, <1>6, <1>7, <1>8, <1>9, <1>10, <1>11,
       <1>12, <1>13, <1>14 DEF WorkerStep

(* The handlers, the settings and the process leave every worker where it  *)
(* is, but for a restart.                                                  *)
LEMMA IdleTypes ==
  ASSUME TypeInv, TypeOK', UNCHANGED <<pc, owner, tries>>
  PROVE  TypeInv'
  BY DEF TypeInv, Attempts, Employed, Live

LEMMA AddTypes ==
  ASSUME QueueAssumption, TypeInv, HandleQueueAdd
  PROVE  TypeInv'
  <1> USE DEF UserOp, history, workerVars
  <1>1. PICK f \in Files : AddFindsDuplicate(f) \/ AddNeedsReview(f) \/ AddAccepted(f)
    BY DEF HandleQueueAdd
  <1>2. ops' \in 0 .. MaxOps
    <2>1. UserOp
      BY <1>1 DEF AddFindsDuplicate, AddNeedsReview, AddAccepted
    <2> QED
      BY <2>1 DEF TypeInv, TypeOK, QueueAssumption
  <1>3. CASE AddFindsDuplicate(f)
    <2>1. PICK S : /\ status' = Becomes(S, "blocked") /\ guarded' = SetGuarded(S, TRUE)
                   /\ cancelled' = CancelAll(S)
      BY <1>3 DEF AddFindsDuplicate
    <2>2. TypeOK'
      BY <1>2, <1>3, <2>1, BecomesTypes, SetGuardedTypes, CancelAllTypes
         DEF AddFindsDuplicate, TypeInv, TypeOK, Statuses
    <2> QED
      BY <1>3, <2>2, IdleTypes DEF AddFindsDuplicate
  <1>4. CASE AddNeedsReview(f)
    <2>1. PICK S : /\ status' = Becomes(S, "paused") /\ guarded' = SetGuarded(S, TRUE)
                   /\ cancelled' = CancelAll(S)
      BY <1>4 DEF AddNeedsReview
    <2>2. TypeOK'
      BY <1>2, <1>4, <2>1, BecomesTypes, SetGuardedTypes, CancelAllTypes
         DEF AddNeedsReview, TypeInv, TypeOK, Statuses
    <2> QED
      BY <1>4, <2>2, IdleTypes DEF AddNeedsReview
  <1>5. CASE AddAccepted(f)
    <2>1. created + 1 \in Jobs /\ created' \in 0 .. MaxJobs
      BY <1>5 DEF AddAccepted, TypeInv, TypeOK, Jobs, QueueAssumption
    <2>2. TypeOK'
      BY <1>2, <1>5, <2>1 DEF AddAccepted, TypeInv, TypeOK, Statuses
    <2> QED
      BY <1>5, <2>2, IdleTypes DEF AddAccepted
  <1> QED
    BY <1>1, <1>3, <1>4, <1>5

LEMMA ActionTypes ==
  ASSUME QueueAssumption, TypeInv, HandleQueueAction
  PROVE  TypeInv'
  <1> USE DEF UserOp, history, workerVars
  <1>0. ASSUME UserOp PROVE ops' \in 0 .. MaxOps
    BY <1>0 DEF TypeInv, TypeOK, QueueAssumption
  <1>1. ASSUME NEW S, Pause(S) PROVE TypeInv'
    <2>1. TypeOK'
      BY <1>0, <1>1, BecomesTypes, SetGuardedTypes, CancelAllTypes
         DEF Pause, TypeInv, TypeOK, Statuses
    <2> QED
      BY <1>1, <2>1, IdleTypes DEF Pause
  <1>2. ASSUME NEW S, Resume(S) PROVE TypeInv'
    <2>1. TypeOK'
      BY <1>0, <1>2, BecomesTypes, SetGuardedTypes
         DEF Resume, TypeInv, TypeOK, Statuses, WithStatus
    <2> QED
      BY <1>2, <2>1, IdleTypes DEF Resume
  <1>3. ASSUME NEW S, Cancel(S) PROVE TypeInv'
    <2>1. TypeOK'
      BY <1>0, <1>3, BecomesTypes, CancelAllTypes
         DEF Cancel, TypeInv, TypeOK, Statuses
    <2> QED
      BY <1>3, <2>1, IdleTypes DEF Cancel
  <1>4. ASSUME NEW S, Forget(S) PROVE TypeInv'
    <2>1. priority' \in [Jobs -> -PriorityBound .. PriorityBound]
      BY <1>4 DEF Forget, TypeInv, TypeOK, QueueAssumption
    <2>2. TypeOK'
      BY <1>0, <1>4, <2>1, BecomesTypes, SetGuardedTypes
         DEF Forget, TypeInv, TypeOK, Statuses
    <2> QED
      BY <1>4, <2>2, IdleTypes DEF Forget
  <1>5. ASSUME NEW S, ChangePriority(S) PROVE TypeInv'
    <2>1. priority' \in [Jobs -> -PriorityBound .. PriorityBound]
      BY <1>5 DEF ChangePriority
    <2>2. TypeOK'
      BY <1>0, <1>5, <2>1 DEF ChangePriority, TypeInv, TypeOK
    <2> QED
      BY <1>5, <2>2, IdleTypes DEF ChangePriority
  <1> QED
    BY <1>1, <1>2, <1>3, <1>4, <1>5 DEF HandleQueueAction, Remove, ClearCompleted

LEMMA StepTypes ==
  ASSUME QueueAssumption, TypeInv, [Next]_vars
  PROVE  TypeInv'
  <1> USE DEF history, jobVars, workerVars
  <1>1. CASE ChangeConcurrency
    <2>1. TypeOK'
      BY <1>1 DEF ChangeConcurrency, UserOp, TypeInv, TypeOK, QueueAssumption
    <2> QED
      BY <1>1, <2>1, IdleTypes DEF ChangeConcurrency
  <1>2. CASE Shutdown
    <2>1. TypeOK'
      BY <1>2, BecomesTypes, SetGuardedTypes, CancelAllTypes
         DEF Shutdown, TypeInv, TypeOK, Statuses
    <2> QED
      BY <1>2, <2>1, IdleTypes DEF Shutdown
  <1>3. CASE Restart
    <2>1. ops' \in 0 .. MaxOps
      BY <1>3 DEF Restart, UserOp, TypeInv, TypeOK, QueueAssumption
    <2>2. tries' \in [Workers -> 0 .. Retries + 1]
      BY <1>3 DEF Restart, QueueAssumption
    <2>3. TypeOK'
      BY <1>3, <2>1, <2>2, BecomesTypes, SetGuardedTypes
         DEF Restart, TypeInv, TypeOK, Statuses, PCs, NoJob
    <2>4. Attempts' /\ Employed'
      BY <1>3 DEF Restart, Attempts, Employed, Live, NoJob, Jobs
    <2> QED
      BY <2>3, <2>4 DEF TypeInv
  <1>4. CASE UNCHANGED vars
    BY <1>4 DEF vars, TypeInv, TypeOK, Attempts, Employed, Live
  <1> QED
    BY <1>1, <1>2, <1>3, <1>4, TickTypes, WorkerTypes, AddTypes, ActionTypes DEF Next

(* Every variable keeps its type, and the attempts of a job never exceed   *)
(* one more than the configured retries.                                   *)
THEOREM TypeCorrectness == Spec => []TypeOK
  <1>1. QueueAssumption /\ Init => TypeInv
    BY InitTypes
  <1>2. QueueAssumption /\ TypeInv /\ [Next]_vars => TypeInv'
    BY StepTypes
  <1>3. TypeInv => TypeOK
    BY DEF TypeInv
  <1> QED
    BY <1>1, <1>2, <1>3, QueueAssumption, PTL DEF Spec

-----------------------------------------------------------------------------
(* What the steps have in common, as far as jobs and workers are concerned *)

whoDoesWhat == <<pc, owner, cancelFn, cancelled, created, tangled>>

(* A worker moves on; it leaves only once its job is not its to run.       *)
WorkerMoves(w) ==
    /\ pc[w] \notin {"idle", "exit"}
    /\ \E l \in PCs \ {"idle", "start"} : pc' = [pc EXCEPT ![w] = l]
    /\ UNCHANGED <<owner, cancelFn, cancelled, created, tangled>>
    /\ \/ /\ UNCHANGED status
          /\ pc'[w] = "exit" => cancelled[w] \/ status[owner[w]] # "running"
       \/ /\ pc'[w] = "exit"
          /\ \E s \in {"paused", "failed", "completed", "blocked"} :
                status' = Becomes({owner[w]}, s)

(* Jobs are stopped and the workers registered for them cancelled. *)
Stops ==
    \E S, D \in SUBSET Jobs, s \in {"paused", "blocked", "cancelled"} :
        /\ S \cap WithStatus({"completed"}) = {}
        /\ S \subseteq D /\ D \cap WithStatus({"running"}) \subseteq S
        /\ status' = Becomes(S, s)
        /\ cancelled' = CancelAll(D)
        /\ UNCHANGED <<pc, owner, cancelFn, created, tangled>>

Enqueues ==
    /\ created < MaxJobs
    /\ created' = created + 1
    /\ status' = [status EXCEPT ![created + 1] = "queued"]
    /\ UNCHANGED <<pc, owner, cancelFn, cancelled, tangled>>

Requeues ==
    \E S \in SUBSET WithStatus({"paused", "failed", "cancelled"}) :
        /\ status' = Becomes(S, "queued")
        /\ tangled' = tangled \cup {j \in S : WorkersOf(j) # {}}
        /\ UNCHANGED <<pc, owner, cancelFn, cancelled, created>>

Forgets ==
    \E S \in SUBSET Jobs :
        /\ S \cap WithStatus({"running"}) = {}
        /\ status' = Becomes(S, "absent")
        /\ UNCHANGED whoDoesWhat

Quiet == UNCHANGED <<status, whoDoesWhat>>

LEMMA WorkerStepKinds ==
  ASSUME TypeInv, NEW w \in Workers, WorkerStep(w)
  PROVE  WorkerMoves(w) \/ WorkerExit(w)
  <1> USE DEF WorkerMoves, Goto, Finish, JobUnchanged, EnvUnchanged, PCs, TypeInv, TypeOK
  <1>1. CASE WorkerStart(w)
    BY <1>1 DEF WorkerStart
  <1>2. CASE GuardFails(w)
    BY <1>2 DEF GuardFails
  <1>3. CASE GuardEvaluates(w)
    BY <1>3 DEF GuardEvaluates
  <1>4. CASE GuardReturns(w)
    BY <1>4 DEF GuardReturns
  <1>5. CASE CommitVerdict(w)
    BY <1>5 DEF CommitVerdict
  <1>6. CASE Judge(w)
    BY <1>6 DEF Judge
  <1>7. CASE CheckEngine(w)
    BY <1>7 DEF CheckEngine
  <1>8. CASE BeginAttempt(w)
    BY <1>8 DEF BeginAttempt
  <1>9. CASE AcquireMega(w)
    BY <1>9 DEF AcquireMega
  <1>10. CASE TransferEnds(w)
    BY <1>10 DEF TransferEnds
  <1>11. CASE Verify(w)
    BY <1>11 DEF Verify
  <1>12. CASE ReportError(w)
    BY <1>12 DEF ReportError
  <1>13. CASE Backoff(w)
    BY <1>13 DEF Backoff
  <1> HIDE DEF WorkerMoves, Goto, Finish, JobUnchanged, EnvUnchanged, TypeInv, TypeOK
  <1> QED
    BY <1>1, <1>2, <1>3, <1>4, <1>5, <1>6, <1>7, <1>8, <1>9, <1>10, <1>11,
       <1>12, <1>13 DEF WorkerStep

LEMMA StepKinds ==
  ASSUME TypeInv, [Next]_vars
  PROVE  \/ SchedulerTick \/ \E w \in Workers : WorkerMoves(w) \/ WorkerExit(w)
         \/ Stops \/ Enqueues \/ Requeues \/ Forgets \/ Quiet \/ Restart
  <1> USE DEF whoDoesWhat, workerVars, history, jobVars
  <1>1. ASSUME NEW f \in Files, AddFindsDuplicate(f) PROVE Stops
    BY <1>1 DEF AddFindsDuplicate, Known, Stops, WithStatus
  <1>2. ASSUME NEW f \in Files, AddNeedsReview(f) PROVE Stops
    BY <1>2 DEF AddNeedsReview, Known, Stops, WithStatus
  <1>3. ASSUME NEW f \in Files, AddAccepted(f) PROVE Enqueues
    BY <1>3 DEF AddAccepted, Enqueues
  <1>4. ASSUME NEW S \in SUBSET Jobs, Pause(S) PROVE Stops
    BY <1>4 DEF Pause, Stops, WithStatus
  <1>5. ASSUME NEW S \in SUBSET Jobs, Resume(S) PROVE Requeues
    BY <1>5 DEF Resume, Requeues, WithStatus
  <1>6. ASSUME NEW S \in SUBSET Jobs, Cancel(S) PROVE Stops
    BY <1>6 DEF Cancel, Stops, WithStatus
  <1>7. ASSUME NEW S \in SUBSET Jobs, Remove(S) PROVE Forgets
    BY <1>7 DEF Remove, Forget, Forgets, WithStatus
  <1>8. ASSUME NEW S \in SUBSET Jobs, ChangePriority(S) PROVE Quiet
    BY <1>8 DEF ChangePriority, Quiet
  <1>9. ASSUME ClearCompleted PROVE Forgets
    BY <1>9 DEF ClearCompleted, Forget, Forgets, WithStatus
  <1>10. ASSUME ChangeConcurrency PROVE Quiet
    BY <1>10 DEF ChangeConcurrency, Quiet
  <1>11. ASSUME Shutdown PROVE Stops
    BY <1>11 DEF Shutdown, Stops, WithStatus
  <1>12. CASE UNCHANGED vars
    BY <1>12 DEF vars, Quiet
  <1> QED
    BY <1>1, <1>2, <1>3, <1>4, <1>5, <1>6, <1>7, <1>8, <1>9, <1>10, <1>11, <1>12,
       WorkerStepKinds DEF Next, HandleQueueAdd, HandleQueueAction

-----------------------------------------------------------------------------
(* Who owns what *)

LEMMA InitOwners == QueueAssumption /\ Init => OwnerInv
  BY DEF QueueAssumption, Init, OwnerInv, Ownership, Numbering, Registration,
         RunningHasWorker, Live, Jobs

LEMMA TickOwners ==
  ASSUME QueueAssumption, TypeInv, OwnerInv, SchedulerTick
  PROVE  OwnerInv'
  <1> USE DEF OwnerInv
  <1>1. PICK hire \in [Chosen -> Workers] : Hired(hire)
    BY TickHires
  <1>2. /\ UNCHANGED <<cancelled, created>>
        /\ \A j \in Jobs : status'[j] = IF j \in Chosen THEN "running" ELSE status[j]
    BY ChosenIsQueued DEF SchedulerTick, Becomes
  <1>3. \A j \in Chosen : j \in Jobs /\ status[j] = "queued" /\ j <= created
    BY ChosenIsQueued DEF Numbering, TypeInv, TypeOK, Jobs
  <1>4. Ownership'
    <2> SUFFICES ASSUME NEW w \in Workers
                 PROVE  /\ Live(w)' => owner'[w] <= created
                        /\ cancelled[w] => Live(w)'
      BY <1>2 DEF Ownership
    <2>1. CASE \A j \in Chosen : hire[j] # w
      BY <2>1, <1>1 DEF Hired, Ownership, Live
    <2>2. CASE \E j \in Chosen : hire[j] = w
      BY <2>2, <1>1, <1>3 DEF Hired, Live
    <2> QED
      BY <2>1, <2>2
  <1>5. Numbering'
    BY <1>2, <1>3 DEF Numbering, Jobs, TypeInv, TypeOK
  <1>6. Registration'
    <2> SUFFICES ASSUME NEW j \in Jobs, cancelFn'[j] # NoWorker
                 PROVE  Live(cancelFn[j])' /\ (owner[cancelFn[j]] = j)'
      BY DEF Registration
    <2>1. CASE j \in Chosen
      BY <2>1, <1>1 DEF Hired, Live
    <2>2. CASE j \notin Chosen
      <3>1. cancelFn'[j] = cancelFn[j] /\ cancelFn[j] \in Workers
        BY <2>2, <1>1 DEF Hired, TypeInv, TypeOK
      <3>2. Live(cancelFn[j]) /\ owner[cancelFn[j]] = j
        BY <3>1 DEF Registration
      <3> QED
        BY <3>1, <3>2, <1>1 DEF Hired, Live
    <2> QED
      BY <2>1, <2>2
  <1>7. RunningHasWorker'
    <2> SUFFICES ASSUME NEW j \in Jobs, status'[j] = "running"
                 PROVE  \E w \in Workers : Live(w)' /\ owner'[w] = j /\ Active(w)'
      BY DEF RunningHasWorker, WorkersOf
    <2>1. CASE j \in Chosen
      <3>1. ~cancelled[hire[j]]
        BY <2>1, <1>1 DEF Hired, Ownership, Live, TypeInv, TypeOK
      <3> QED
        BY <2>1, <3>1, <1>1, <1>2 DEF Hired, Live, Active
    <2>2. CASE j \notin Chosen
      <3>1. PICK w \in Workers : Live(w) /\ owner[w] = j /\ Active(w)
        BY <2>2, <1>2 DEF RunningHasWorker, WorkersOf
      <3>2. pc'[w] = pc[w] /\ owner'[w] = owner[w]
        BY <3>1, <1>1 DEF Hired, Live
      <3> QED
        BY <3>1, <3>2, <1>2 DEF Live, Active
    <2> QED
      BY <2>1, <2>2
  <1> QED
    BY <1>4, <1>5, <1>6, <1>7

LEMMA MoveOwners ==
  ASSUME TypeInv, OwnerInv, NEW w \in Workers, WorkerMoves(w)
  PROVE  OwnerInv'
  <1> USE DEF OwnerInv
  <1>1. PICK l \in PCs \ {"idle", "start"} : pc' = [pc EXCEPT ![w] = l]
    BY DEF WorkerMoves
  <1>2. UNCHANGED <<owner, cancelFn, cancelled, created>>
    BY DEF WorkerMoves
  <1>3. \A x \in Workers : Live(x)' <=> Live(x)
    BY <1>1 DEF WorkerMoves, Live, TypeInv, TypeOK
  <1>4. \A j \in Jobs : \/ status'[j] = status[j]
                        \/ /\ j = owner[w] /\ status[j] # "absent" /\ pc'[w] = "exit"
                           /\ status'[j] \in {"paused", "failed", "completed", "blocked"}
    BY DEF WorkerMoves, Becomes
  <1>5. Ownership'
    BY <1>2, <1>3 DEF Ownership
  <1>6. Numbering'
    BY <1>2, <1>4 DEF Numbering
  <1>7. Registration'
    BY <1>2, <1>3 DEF Registration, TypeInv, TypeOK
  <1>8. RunningHasWorker'
    <2> SUFFICES ASSUME NEW j \in Jobs, status'[j] = "running"
                 PROVE  \E x \in Workers : Live(x)' /\ owner'[x] = j /\ Active(x)'
      BY DEF RunningHasWorker, WorkersOf
    <2>1. status[j] = "running"
      BY <1>4
    <2>2. PICK x \in Workers : Live(x) /\ owner[x] = j /\ Active(x)
      BY <2>1 DEF RunningHasWorker, WorkersOf
    <2>3. pc'[x] \notin {"idle", "exit"}
      <3>1. CASE x # w
        BY <3>1, <1>1, <2>2 DEF Active, TypeInv, TypeOK
      <3>2. CASE x = w
        <4>1. pc'[w] # "idle"
          BY <1>1, <3>2 DEF TypeInv, TypeOK
        <4>2. pc'[w] # "exit"
          BY <2>1, <2>2, <3>2 DEF WorkerMoves, Becomes, Active
        <4> QED
          BY <3>2, <4>1, <4>2
      <3> QED
        BY <3>1, <3>2
    <2> QED
      BY <1>2, <1>3, <2>2, <2>3 DEF Active
  <1> QED
    BY <1>5, <1>6, <1>7, <1>8

LEMMA ExitOwners ==
  ASSUME TypeInv, OwnerInv, NEW w \in Workers, WorkerExit(w)
  PROVE  OwnerInv'
  <1> USE DEF OwnerInv
  <1>1. /\ pc[w] = "exit" /\ pc'[w] = "idle" /\ cancelled'[w] = FALSE
        /\ owner[w] \in Jobs /\ cancelFn'[owner[w]] = NoWorker
        /\ UNCHANGED <<status, created>>
    BY DEF WorkerExit, Goto, TypeInv, TypeOK, Employed, Live, jobVars
  <1>2. \A x \in Workers \ {w} : /\ pc'[x] = pc[x] /\ owner'[x] = owner[x]
                                 /\ cancelled'[x] = cancelled[x]
    BY DEF WorkerExit, Goto, TypeInv, TypeOK
  <1>3. \A j \in Jobs \ {owner[w]} : cancelFn'[j] = cancelFn[j]
    BY DEF WorkerExit, TypeInv, TypeOK
  <1>4. Ownership'
    BY <1>1, <1>2 DEF Ownership, Live
  <1>5. Numbering'
    BY <1>1 DEF Numbering
  <1>6. Registration'
    BY <1>1, <1>2, <1>3 DEF Registration, Live, TypeInv, TypeOK
  <1>7. RunningHasWorker'
    BY <1>1, <1>2 DEF RunningHasWorker, WorkersOf, Live, Active
  <1> QED
    BY <1>4, <1>5, <1>6, <1>7

LEMMA EditOwners ==
  ASSUME QueueAssumption, TypeInv, OwnerInv,
         Stops \/ Enqueues \/ Requeues \/ Forgets \/ Quiet \/ Restart
  PROVE  OwnerInv'
  <1> USE DEF OwnerInv
  <1>1. CASE Stops
    <2>1. PICK S \in SUBSET Jobs, D \in SUBSET Jobs, s \in {"paused", "blocked", "cancelled"} :
            /\ S \subseteq D /\ D \cap WithStatus({"running"}) \subseteq S
            /\ status' = Becomes(S, s)
            /\ cancelled' = CancelAll(D)
            /\ UNCHANGED <<pc, owner, cancelFn, created>>
      BY <1>1 DEF Stops
    <2>2. \A w \in Workers : cancelled'[w] <=> cancelled[w] \/ \E j \in D : cancelFn[j] = w
      BY <2>1 DEF CancelAll
    <2>3. Ownership'
      BY <2>1, <2>2 DEF Ownership, Registration, Live, QueueAssumption
    <2>4. Numbering' /\ Registration'
      BY <2>1 DEF Numbering, Registration, Live, Becomes
    <2>5. RunningHasWorker'
      <3> SUFFICES ASSUME NEW j \in Jobs, status'[j] = "running"
                   PROVE  \E w \in Workers : Live(w)' /\ owner'[w] = j /\ Active(w)'
        BY DEF RunningHasWorker, WorkersOf
      <3>1. status[j] = "running" /\ j \notin D
        BY <2>1 DEF Becomes, WithStatus
      <3>2. PICK w \in Workers : Live(w) /\ owner[w] = j /\ Active(w)
        BY <3>1 DEF RunningHasWorker, WorkersOf
      <3>3. ~cancelled'[w]
        BY <2>1, <2>2, <3>1, <3>2 DEF Active, Registration, QueueAssumption
      <3> QED
        BY <2>1, <3>2, <3>3 DEF Live, Active
    <2> QED
      BY <2>3, <2>4, <2>5
  <1>2. CASE Enqueues
    <2>1. /\ UNCHANGED <<pc, owner, cancelFn, cancelled>>
          /\ created' = created + 1 /\ created \in Int
      BY <1>2 DEF Enqueues, TypeInv, TypeOK
    <2>2. \A j \in Jobs : status'[j] = IF j = created + 1 THEN "queued" ELSE status[j]
      BY <1>2 DEF Enqueues, TypeInv, TypeOK
    <2>3. Ownership'
      <3>1. \A w \in Workers : Live(w) => owner[w] \in Int
        BY DEF TypeInv, Employed, Jobs
      <3> QED
        BY <2>1, <3>1 DEF Ownership, Live
    <2>4. Numbering'
      BY <2>1, <2>2 DEF Numbering, Jobs
    <2>5. Registration'
      BY <2>1 DEF Registration, Live
    <2>6. RunningHasWorker'
      BY <2>1, <2>2 DEF RunningHasWorker, WorkersOf, Live, Active
    <2> QED
      BY <2>3, <2>4, <2>5, <2>6
  <1>3. CASE Requeues
    <2>1. UNCHANGED <<pc, owner, cancelFn, cancelled, created>>
      BY <1>3 DEF Requeues
    <2>2. \A j \in Jobs : \/ status'[j] = status[j]
                          \/ status[j] # "absent" /\ status'[j] = "queued"
      BY <1>3 DEF Requeues, Becomes
    <2> QED
      BY <2>1, <2>2 DEF Ownership, Numbering, Registration, RunningHasWorker,
                        WorkersOf, Live, Active
  <1>4. CASE Forgets
    <2>1. UNCHANGED <<pc, owner, cancelFn, cancelled, created>>
      BY <1>4 DEF Forgets, whoDoesWhat
    <2>2. \A j \in Jobs : status'[j] = status[j] \/ status'[j] = "absent"
      BY <1>4 DEF Forgets, Becomes
    <2> QED
      BY <2>1, <2>2 DEF Ownership, Numbering, Registration, RunningHasWorker,
                        WorkersOf, Live, Active
  <1>5. CASE Quiet
    BY <1>5 DEF Quiet, whoDoesWhat, Ownership, Numbering, Registration, RunningHasWorker,
                WorkersOf, Live, Active
  <1>6. CASE Restart
    <2>1. \A j \in Jobs : status'[j] # "running" /\ (status[j] = "absent" => status'[j] = "absent")
      BY <1>6 DEF Restart, Becomes, WithStatus
    <2> QED
      BY <1>6, <2>1 DEF Restart, Ownership, Numbering, Registration, RunningHasWorker, Live
  <1> QED
    BY <1>1, <1>2, <1>3, <1>4, <1>5, <1>6

LEMMA StepOwners ==
  ASSUME QueueAssumption, TypeInv, OwnerInv, [Next]_vars
  PROVE  OwnerInv'
  BY StepKinds, TickOwners, MoveOwners, ExitOwners, EditOwners

(* A job shown as running has a worker that still works for it: the queue  *)
(* never holds a slot, or the MEGA turn, for a job that nobody downloads.  *)
THEOREM RunningIsWorked == Spec => []RunningHasWorker
  <1>1. QueueAssumption /\ Init => TypeInv /\ OwnerInv
    BY InitTypes, InitOwners
  <1>2. QueueAssumption /\ TypeInv /\ OwnerInv /\ [Next]_vars => TypeInv' /\ OwnerInv'
    BY StepTypes, StepOwners
  <1>3. OwnerInv => RunningHasWorker
    BY DEF OwnerInv
  <1> QED
    BY <1>1, <1>2, <1>3, QueueAssumption, PTL DEF Spec

-----------------------------------------------------------------------------
(* What holds of jobs never resumed under a live worker *)

LEMMA InitReach == QueueAssumption /\ Init => ReachInv
  BY DEF Init, ReachInv, QueuedAlone, LiveIsRegistered, ActiveIsRunning, CompletedIsLeft,
         Live, Active

LEMMA TickReach ==
  ASSUME TypeInv, OwnerInv, ReachInv, SchedulerTick
  PROVE  ReachInv'
  <1> USE DEF ReachInv
  <1>1. PICK hire \in [Chosen -> Workers] : Hired(hire)
    BY TickHires
  <1>2. /\ UNCHANGED <<cancelled, tangled>>
        /\ \A j \in Jobs : status'[j] = IF j \in Chosen THEN "running" ELSE status[j]
    BY ChosenIsQueued DEF SchedulerTick, Becomes, history
  <1>3. \A j \in Chosen : j \in Jobs /\ status[j] = "queued"
    BY ChosenIsQueued
  <1>4. QueuedAlone'
    <2> SUFFICES ASSUME NEW j \in Jobs \ tangled, status'[j] = "queued", NEW w \in Workers,
                        Live(w)', owner'[w] = j
                 PROVE  FALSE
      BY <1>2 DEF QueuedAlone, WorkersOf
    <2>1. j \notin Chosen /\ status[j] = "queued"
      BY <1>2
    <2>2. \A k \in Chosen : hire[k] # w
      BY <2>1, <1>1 DEF Hired
    <2>3. Live(w) /\ owner[w] = j
      BY <2>2, <1>1 DEF Hired, Live
    <2> QED
      BY <2>1, <2>3 DEF QueuedAlone, WorkersOf
  <1>5. \A w \in Workers : (\E j \in Chosen : hire[j] = w) =>
            pc'[w] = "start" /\ status'[owner'[w]] = "running" /\ cancelFn'[owner'[w]] = w
    BY <1>1, <1>2, <1>3 DEF Hired
  <1>6. ASSUME NEW w \in Workers, \A j \in Chosen : hire[j] # w,
               Live(w)', owner'[w] \notin tangled
        PROVE  /\ Live(w) /\ pc'[w] = pc[w] /\ owner'[w] = owner[w]
               /\ cancelFn'[owner'[w]] = cancelFn[owner[w]]
               /\ status'[owner'[w]] = status[owner[w]]
    <2>1. Live(w) /\ pc'[w] = pc[w] /\ owner'[w] = owner[w] /\ owner[w] \in Jobs
      BY <1>1, <1>6 DEF Hired, Live, TypeInv, Employed
    <2>2. owner[w] \notin Chosen
      BY <2>1, <1>3, <1>6 DEF QueuedAlone, WorkersOf
    <2> QED
      BY <2>1, <2>2, <1>1, <1>2 DEF Hired
  <1>7. LiveIsRegistered'
    BY <1>2, <1>5, <1>6 DEF LiveIsRegistered
  <1>8. ActiveIsRunning'
    BY <1>2, <1>5, <1>6 DEF ActiveIsRunning, Active, Live
  <1>9. CompletedIsLeft'
    BY <1>2, <1>5, <1>6 DEF CompletedIsLeft
  <1> QED
    BY <1>4, <1>7, <1>8, <1>9

(* The workers of an untangled job are one. *)
LEMMA UntangledIsAlone ==
  ASSUME ReachInv
  PROVE  OneWorkerPerJob
  BY DEF ReachInv, LiveIsRegistered, OneWorkerPerJob, WorkersOf

LEMMA MoveReach ==
  ASSUME TypeInv, ReachInv, NEW w \in Workers, WorkerMoves(w)
  PROVE  ReachInv'
  <1> USE DEF ReachInv
  <1>1. PICK l \in PCs \ {"idle", "start"} : pc' = [pc EXCEPT ![w] = l]
    BY DEF WorkerMoves
  <1>2. UNCHANGED <<owner, cancelFn, cancelled, tangled>> /\ Live(w)
    BY DEF WorkerMoves, Live
  <1>3. /\ \A x \in Workers : Live(x)' <=> Live(x)
        /\ \A x \in Workers \ {w} : pc'[x] = pc[x]
    BY <1>1, <1>2 DEF Live, TypeInv, TypeOK
  <1>4. \A j \in Jobs : \/ status'[j] = status[j]
                        \/ /\ j = owner[w] /\ pc'[w] = "exit"
                           /\ status'[j] \in {"paused", "failed", "completed", "blocked"}
    BY DEF WorkerMoves, Becomes
  <1>5. \A x \in Workers : Live(x) => owner[x] \in Jobs
    BY DEF TypeInv, Employed
  <1>6. \A x \in Workers \ {w} : Live(x) /\ owner[x] \notin tangled =>
            status'[owner[x]] = status[owner[x]]
    BY <1>2, <1>4, <1>5, UntangledIsAlone DEF OneWorkerPerJob, WorkersOf
  <1>7. QueuedAlone'
    BY <1>2, <1>3, <1>4 DEF QueuedAlone, WorkersOf
  <1>8. LiveIsRegistered'
    BY <1>2, <1>3 DEF LiveIsRegistered
  <1>9. ActiveIsRunning'
    <2> SUFFICES ASSUME NEW x \in Workers, Active(x)', owner[x] \notin tangled
                 PROVE  status'[owner[x]] = "running"
      BY <1>2 DEF ActiveIsRunning
    <2>1. CASE x # w
      BY <2>1, <1>2, <1>3, <1>6 DEF ActiveIsRunning, Active, Live
    <2>2. CASE x = w
      BY <2>2, <1>2, <1>4, <1>5 DEF ActiveIsRunning, Active, WorkerMoves
    <2> QED
      BY <2>1, <2>2
  <1>10. CompletedIsLeft'
    <2> SUFFICES ASSUME NEW x \in Workers, Live(x), owner[x] \notin tangled,
                        status'[owner[x]] = "completed"
                 PROVE  pc'[x] = "exit"
      BY <1>2, <1>3 DEF CompletedIsLeft
    <2>1. CASE x # w
      BY <2>1, <1>3, <1>6 DEF CompletedIsLeft
    <2>2. CASE x = w
      BY <2>2, <1>4, <1>5 DEF CompletedIsLeft, WorkerMoves
    <2> QED
      BY <2>1, <2>2
  <1> QED
    BY <1>7, <1>8, <1>9, <1>10

LEMMA ExitReach ==
  ASSUME TypeInv, ReachInv, NEW w \in Workers, WorkerExit(w)
  PROVE  ReachInv'
  <1> USE DEF ReachInv
  <1>1. /\ pc[w] = "exit" /\ pc'[w] = "idle" /\ owner[w] \in Jobs
        /\ UNCHANGED <<status, tangled>>
    BY DEF WorkerExit, Goto, TypeInv, TypeOK, Employed, Live, jobVars, history
  <1>2. \A x \in Workers \ {w} : /\ pc'[x] = pc[x] /\ owner'[x] = owner[x]
                                 /\ cancelled'[x] = cancelled[x]
    BY DEF WorkerExit, Goto, TypeInv, TypeOK
  <1>3. \A j \in Jobs \ {owner[w]} : cancelFn'[j] = cancelFn[j]
    BY DEF WorkerExit, TypeInv, TypeOK
  <1>4. \A x \in Workers \ {w} : Live(x) /\ owner[x] \notin tangled => owner[x] # owner[w]
    BY <1>1, UntangledIsAlone DEF OneWorkerPerJob, WorkersOf, Live
  <1>5. QueuedAlone'
    BY <1>1, <1>2 DEF QueuedAlone, WorkersOf, Live
  <1>6. LiveIsRegistered'
    BY <1>1, <1>2, <1>3, <1>4 DEF LiveIsRegistered, Live, TypeInv, Employed
  <1>7. ActiveIsRunning' /\ CompletedIsLeft'
    BY <1>1, <1>2 DEF ActiveIsRunning, CompletedIsLeft, Active, Live
  <1> QED
    BY <1>5, <1>6, <1>7

LEMMA EditReach ==
  ASSUME QueueAssumption, TypeInv, OwnerInv, ReachInv,
         Stops \/ Enqueues \/ Requeues \/ Forgets \/ Quiet \/ Restart
  PROVE  ReachInv'
  <1> USE DEF ReachInv
  <1>0. \A w \in Workers : Live(w) => owner[w] \in Jobs
    BY DEF TypeInv, Employed
  <1>1. CASE Stops
    <2>1. PICK S \in SUBSET Jobs, D \in SUBSET Jobs, s \in {"paused", "blocked", "cancelled"} :
            /\ S \subseteq D
            /\ status' = Becomes(S, s)
            /\ cancelled' = CancelAll(D)
            /\ UNCHANGED <<pc, owner, cancelFn, tangled>>
      BY <1>1 DEF Stops
    <2>2. \A w \in Workers : cancelled'[w] <=> cancelled[w] \/ \E j \in D : cancelFn[j] = w
      BY <2>1 DEF CancelAll
    <2>3. \A j \in Jobs : \/ status'[j] = status[j]
                          \/ j \in S /\ status'[j] \in {"paused", "blocked", "cancelled"}
      BY <2>1 DEF Becomes
    <2>4. QueuedAlone' /\ LiveIsRegistered' /\ CompletedIsLeft'
      BY <1>0, <2>1, <2>3 DEF QueuedAlone, LiveIsRegistered, CompletedIsLeft, WorkersOf, Live
    <2>5. ActiveIsRunning'
      BY <1>0, <2>1, <2>2, <2>3 DEF ActiveIsRunning, LiveIsRegistered, Active, Live
    <2> QED
      BY <2>4, <2>5
  <1>2. CASE Enqueues
    <2>1. UNCHANGED <<pc, owner, cancelFn, cancelled, tangled>>
      BY <1>2 DEF Enqueues
    <2>2. \A j \in Jobs : status'[j] = IF j = created + 1 THEN "queued" ELSE status[j]
      BY <1>2 DEF Enqueues, TypeInv, TypeOK
    <2>3. \A w \in Workers : Live(w) => owner[w] # created + 1
      BY DEF OwnerInv, Ownership, TypeInv, TypeOK, Employed, Jobs
    <2> QED
      BY <1>0, <2>1, <2>2, <2>3 DEF QueuedAlone, LiveIsRegistered, ActiveIsRunning,
                               CompletedIsLeft, WorkersOf, Active, Live
  <1>3. CASE Requeues
    <2>1. PICK S \in SUBSET WithStatus({"paused", "failed", "cancelled"}) :
            /\ status' = Becomes(S, "queued")
            /\ tangled' = tangled \cup {j \in S : WorkersOf(j) # {}}
            /\ UNCHANGED <<pc, owner, cancelFn, cancelled>>
      BY <1>3 DEF Requeues
    <2>2. \A j \in Jobs : \/ j \notin S /\ status'[j] = status[j]
                          \/ /\ j \in S /\ status'[j] = "queued"
                             /\ status[j] \in {"paused", "failed", "cancelled"}
      BY <2>1 DEF Becomes, WithStatus
    <2>3. \A w \in Workers : Live(w) /\ owner[w] \notin tangled' =>
              owner[w] \notin tangled /\ owner[w] \notin S
      BY <2>1 DEF WorkersOf
    <2>4. QueuedAlone'
      BY <2>1, <2>2, <2>3 DEF QueuedAlone, WorkersOf, Live
    <2>5. LiveIsRegistered' /\ ActiveIsRunning' /\ CompletedIsLeft'
      BY <1>0, <2>1, <2>2, <2>3 DEF LiveIsRegistered, ActiveIsRunning, CompletedIsLeft,
                               Active, Live
    <2> QED
      BY <2>4, <2>5
  <1>4. CASE Forgets
    <2>1. PICK S \in SUBSET Jobs :
            /\ S \cap WithStatus({"running"}) = {}
            /\ status' = Becomes(S, "absent")
            /\ UNCHANGED <<pc, owner, cancelFn, cancelled, tangled>>
      BY <1>4 DEF Forgets, whoDoesWhat
    <2>2. \A j \in Jobs : \/ status'[j] = status[j]
                          \/ status'[j] = "absent" /\ status[j] # "running"
      BY <2>1 DEF Becomes, WithStatus
    <2> QED
      BY <1>0, <2>1, <2>2 DEF QueuedAlone, LiveIsRegistered, ActiveIsRunning,
                         CompletedIsLeft, WorkersOf, Active, Live
  <1>5. CASE Quiet
    BY <1>5 DEF Quiet, whoDoesWhat, QueuedAlone, LiveIsRegistered, ActiveIsRunning,
                CompletedIsLeft, WorkersOf, Active, Live
  <1>6. CASE Restart
    BY <1>6 DEF Restart, QueuedAlone, LiveIsRegistered, ActiveIsRunning, CompletedIsLeft,
                WorkersOf, Active, Live
  <1> QED
    BY <1>1, <1>2, <1>3, <1>4, <1>5, <1>6

LEMMA StepReach ==
  ASSUME QueueAssumption, TypeInv, OwnerInv, ReachInv, [Next]_vars
  PROVE  ReachInv'
  BY StepKinds, TickReach, MoveReach, ExitReach, EditReach

Inv == TypeInv /\ OwnerInv /\ ReachInv

LEMMA InvHolds == Spec => []Inv
  <1>1. QueueAssumption /\ Init => Inv
    BY InitTypes, InitOwners, InitReach DEF Inv
  <1>2. QueueAssumption /\ Inv /\ [Next]_vars => Inv'
    BY StepTypes, StepOwners, StepReach DEF Inv
  <1> QED
    BY <1>1, <1>2, QueueAssumption, PTL DEF Spec

(* Unless a job is resumed while a worker of it is still winding down, two *)
(* workers never download it at the same time.                             *)
THEOREM OneWorker == Spec => []OneWorkerPerJob
  <1>1. Inv => OneWorkerPerJob
    BY UntangledIsAlone DEF Inv
  <1> QED
    BY <1>1, InvHolds, PTL

(* Under the same condition every transfer in progress belongs to a job    *)
(* shown as running and can be cancelled through the queue.                *)
THEOREM Reachable == Spec => []ActiveIsReachable
  <1>1. Inv => ActiveIsReachable
    BY DEF Inv, ReachInv, ActiveIsRunning, LiveIsRegistered, ActiveIsReachable, Active, Live
  <1> QED
    BY <1>1, InvHolds, PTL

(* Under the same condition no step of anyone takes a completed job back:  *)
(* it stays completed until the user removes it.                           *)
THEOREM CompletedStays == Spec => CompletedIsFinal
  <1>1. ASSUME Inv, [Next]_vars
        PROVE  [\A j \in Jobs \ tangled : status[j] = "completed" =>
                    status'[j] \in {"completed", "absent"}]_vars
    <2> SUFFICES ASSUME NEW j \in Jobs \ tangled, status[j] = "completed"
                 PROVE  status'[j] \in {"completed", "absent"}
      OBVIOUS
    <2>1. CASE SchedulerTick
      BY <2>1, ChosenIsQueued DEF SchedulerTick, Becomes
    <2>2. ASSUME NEW w \in Workers, WorkerMoves(w) PROVE status'[j] = "completed"
      <3>1. CASE owner[w] = j
        <4>1. pc[w] \notin {"idle", "exit"}
          BY <2>2 DEF WorkerMoves
        <4> QED
          BY <1>1, <3>1, <4>1 DEF Inv, ReachInv, CompletedIsLeft, Live
      <3>2. CASE owner[w] # j
        BY <2>2, <3>2 DEF WorkerMoves, Becomes
      <3> QED
        BY <3>1, <3>2
    <2>3. ASSUME NEW w \in Workers, WorkerExit(w) PROVE status'[j] = "completed"
      BY <2>3 DEF WorkerExit, jobVars
    <2>4. CASE Stops
      BY <2>4 DEF Stops, Becomes, WithStatus
    <2>5. CASE Enqueues
      <3>1. created + 1 \in Jobs => status[created + 1] = "absent"
        BY <1>1 DEF Inv, TypeInv, TypeOK, OwnerInv, Numbering
      <3>2. status'[j] = status[j]
        BY <1>1, <2>5, <3>1 DEF Enqueues, Inv, TypeInv, TypeOK
      <3> QED
        BY <3>2
    <2>6. CASE Requeues
      BY <2>6 DEF Requeues, Becomes, WithStatus
    <2>7. CASE Forgets
      BY <2>7 DEF Forgets, Becomes
    <2>8. CASE Quiet \/ Restart
      BY <2>8 DEF Quiet, Restart, Becomes, WithStatus
    <2> QED
      BY <1>1, <2>1, <2>2, <2>3, <2>4, <2>5, <2>6, <2>7, <2>8, StepKinds DEF Inv
  <1> QED
    BY <1>1, InvHolds, PTL DEF Spec, CompletedIsFinal

-----------------------------------------------------------------------------
(* What ExactGuard has cleared *)

LEMMA InitVet == QueueAssumption /\ Init => VetInv
  BY DEF Init, VetInv, GuardIsEarned, WorkerIsCleared

(* A moving worker leaves the others as they are. *)
LEMMA OthersCleared ==
  ASSUME TypeInv, VetInv, NEW w \in Workers, WorkerMoves(w), UNCHANGED override,
         vetted \subseteq vetted', NEW x \in Workers \ {w}, verdict'[x] = verdict[x]
  PROVE  WorkerIsCleared(x)'
  <1>1. pc'[x] = pc[x]
    BY DEF WorkerMoves, TypeInv, TypeOK
  <1>2. UNCHANGED <<owner, cancelled, tangled, override>>
    BY DEF WorkerMoves
  <1> QED
    BY <1>1, <1>2 DEF VetInv, WorkerIsCleared, Acceptable

(* No worker makes a job queued or running. *)
LEMMA MoveStatus ==
  ASSUME NEW w \in Workers, WorkerMoves(w), NEW j \in Jobs,
         status'[j] \in {"queued", "running"}
  PROVE  status[j] = status'[j]
  BY DEF WorkerMoves, Becomes

(* A worker that stores nothing and is not about to act on a verdict.      *)
LEMMA GuardKept ==
  ASSUME TypeInv, VetInv, NEW w \in Workers, WorkerMoves(w), UNCHANGED guarded,
         vetted \subseteq vetted', pc[w] # "judge"
  PROVE  GuardIsEarned'
  <1> SUFFICES ASSUME NEW j \in Jobs \ tangled, status'[j] \in {"queued", "running"},
                      guarded[j]
               PROVE  j \in vetted' \/ \E x \in WorkersOf(j)' : pc'[x] = "judge"
    BY DEF GuardIsEarned, WorkerMoves
  <1>1. j \in vetted \/ \E x \in WorkersOf(j) : pc[x] = "judge"
    BY MoveStatus DEF VetInv, GuardIsEarned
  <1>2. ASSUME NEW x \in WorkersOf(j), pc[x] = "judge"
        PROVE  x \in WorkersOf(j)' /\ pc'[x] = "judge"
    <2>1. pc'[x] = pc[x] /\ owner' = owner /\ x \in Workers /\ owner[x] = j
      BY <1>2 DEF WorkerMoves, WorkersOf, TypeInv, TypeOK
    <2> QED
      BY <1>2, <2>1 DEF WorkersOf, Live
  <1> QED
    BY <1>1, <1>2

LEMMA WorkerVet ==
  ASSUME TypeInv, ReachInv, VetInv, NEW w \in Workers, WorkerStep(w), ~WorkerExit(w)
  PROVE  VetInv'
  <1>0. WorkerMoves(w)
    BY WorkerStepKinds
  <1>1. /\ owner[w] \in Jobs /\ UNCHANGED <<owner, cancelled, tangled>>
        /\ \A l : pc' = [pc EXCEPT ![w] = l] => pc'[w] = l
    BY <1>0 DEF WorkerMoves, TypeInv, TypeOK, Employed, Live
  <1>2. /\ UNCHANGED override /\ vetted \subseteq vetted'
        /\ \A x \in Workers \ {w} : verdict'[x] = verdict[x]
    BY <1>0 DEF WorkerStep, WorkerStart, GuardFails, GuardEvaluates, GuardReturns, CommitVerdict,
           Judge, CheckEngine, BeginAttempt, AcquireMega, TransferEnds, Verify,
           ReportError, Backoff, JobUnchanged, EnvUnchanged, TypeInv, TypeOK
  <1>3. ASSUME GuardIsEarned', WorkerIsCleared(w)' PROVE VetInv'
    BY <1>0, <1>2, <1>3, OthersCleared DEF VetInv
  <1>4. ASSUME UNCHANGED guarded, pc[w] # "judge", WorkerIsCleared(w)' PROVE VetInv'
    BY <1>0, <1>2, <1>3, <1>4, GuardKept
  <1>5. WorkerIsCleared(w)
    BY DEF VetInv
  <1> USE DEF Goto, JobUnchanged, EnvUnchanged
  <1>6. CASE WorkerStart(w)
    <2>1. pc'[w] = "engine" /\ owner[w] \notin tangled /\ ~cancelled[w] => owner[w] \in vetted
      <3> SUFFICES ASSUME pc'[w] = "engine", owner[w] \notin tangled, ~cancelled[w]
                   PROVE  owner[w] \in vetted
        OBVIOUS
      <3>1. pc[w] = "start" /\ guarded[owner[w]]
        BY <1>1, <1>6 DEF WorkerStart, Finish
      <3>2. status[owner[w]] = "running"
        BY <3>1 DEF ReachInv, ActiveIsRunning, Active
      <3>3. \A x \in WorkersOf(owner[w]) : x = w
        BY <3>1, <1>1, UntangledIsAlone DEF OneWorkerPerJob, WorkersOf, Live
      <3> QED
        BY <1>1, <3>1, <3>2, <3>3 DEF VetInv, GuardIsEarned
    <2>2. pc'[w] \in {"engine", "guard", "exit"} /\ UNCHANGED <<guarded, vetted>> /\ pc[w] = "start"
      BY <1>1, <1>6 DEF WorkerStart, Finish
    <2> QED
      BY <1>1, <1>4, <2>1, <2>2 DEF WorkerIsCleared
  <1>7. CASE GuardFails(w)
    BY <1>1, <1>4, <1>7 DEF GuardFails, WorkerIsCleared
  <1>8. CASE GuardEvaluates(w)
    BY <1>1, <1>4, <1>8 DEF GuardEvaluates, WorkerIsCleared
  <1>9. CASE GuardReturns(w)
    <2>1. pc[w] = "evaluate" /\ pc'[w] = "verdict" /\ UNCHANGED <<guarded, override>>
      BY <1>1, <1>9 DEF GuardReturns
    <2>2. Acceptable(owner[w], verdict'[w]) => owner[w] \in vetted'
      BY <1>9 DEF GuardReturns, TypeInv, TypeOK
    <2> QED
      BY <1>1, <1>4, <2>1, <2>2 DEF WorkerIsCleared, Acceptable
  <1>10. CASE CommitVerdict(w)
    <2>1. /\ pc[w] = "verdict" /\ pc'[w] = "judge"
          /\ UNCHANGED <<status, override, verdict, vetted>>
          /\ \A j \in Jobs \ {owner[w]} : guarded'[j] = guarded[j]
      BY <1>1, <1>10 DEF CommitVerdict, SetGuarded, TypeInv, TypeOK
    <2>2. WorkerIsCleared(w)'
      BY <1>1, <1>5, <2>1 DEF WorkerIsCleared, Acceptable
    <2>3. GuardIsEarned'
      <3> SUFFICES ASSUME NEW j \in Jobs \ tangled, status[j] \in {"queued", "running"},
                          guarded'[j]
                   PROVE  j \in vetted \/ \E x \in WorkersOf(j)' : pc'[x] = "judge"
        BY <1>1, <2>1 DEF GuardIsEarned
      <3>1. CASE j = owner[w]
        BY <1>1, <2>1, <3>1 DEF WorkersOf, Live
      <3>2. CASE j # owner[w]
        <4>1. j \in vetted \/ \E x \in WorkersOf(j) : pc[x] = "judge"
          BY <2>1, <3>2 DEF VetInv, GuardIsEarned
        <4>2. \A x \in WorkersOf(j) : x \in WorkersOf(j)' /\ pc'[x] = pc[x]
          BY <1>0, <1>1, <3>2 DEF WorkerMoves, WorkersOf, Live, TypeInv, TypeOK
        <4> QED
          BY <4>1, <4>2
      <3> QED
        BY <3>1, <3>2
    <2> QED
      BY <1>3, <2>2, <2>3
  <1>11. CASE Judge(w)
    <2>1. UNCHANGED <<guarded, vetted>> /\ pc[w] = "judge"
      BY <1>11 DEF Judge
    <2>2. \/ pc'[w] = "exit" /\ status'[owner[w]] \notin {"queued", "running"}
          \/ pc'[w] = "engine" /\ UNCHANGED status /\ Acceptable(owner[w], verdict[w])
      BY <1>1, <1>11 DEF Judge, Finish, Becomes
    <2>3. pc'[w] = "engine" /\ owner[w] \notin tangled => owner[w] \in vetted
      BY <1>5, <2>1, <2>2 DEF WorkerIsCleared
    <2>4. WorkerIsCleared(w)'
      BY <1>1, <2>1, <2>2, <2>3 DEF WorkerIsCleared
    <2>5. GuardIsEarned'
      <3> SUFFICES ASSUME NEW j \in Jobs \ tangled, status'[j] \in {"queued", "running"},
                          guarded[j]
                   PROVE  j \in vetted \/ \E x \in WorkersOf(j)' : pc'[x] = "judge"
        BY <1>1, <2>1 DEF GuardIsEarned
      <3>1. CASE j = owner[w]
        BY <2>2, <2>3, <3>1
      <3>2. CASE j # owner[w]
        <4>1. j \in vetted \/ \E x \in WorkersOf(j) : pc[x] = "judge"
          BY <1>0, MoveStatus DEF VetInv, GuardIsEarned
        <4>2. \A x \in WorkersOf(j) : x \in WorkersOf(j)' /\ pc'[x] = pc[x]
          BY <1>0, <1>1, <3>2 DEF WorkerMoves, WorkersOf, Live, TypeInv, TypeOK
        <4> QED
          BY <4>1, <4>2
      <3> QED
        BY <3>1, <3>2
    <2> QED
      BY <1>3, <2>4, <2>5
  <1>12. CASE CheckEngine(w)
    BY <1>1, <1>4, <1>5, <1>12 DEF CheckEngine, Finish, WorkerIsCleared
  <1>13. CASE BeginAttempt(w)
    BY <1>1, <1>4, <1>5, <1>13 DEF BeginAttempt, WorkerIsCleared
  <1>14. CASE AcquireMega(w)
    BY <1>1, <1>4, <1>5, <1>14 DEF AcquireMega, WorkerIsCleared
  <1>15. CASE TransferEnds(w)
    BY <1>1, <1>4, <1>5, <1>15 DEF TransferEnds, WorkerIsCleared
  <1>16. CASE Verify(w)
    BY <1>1, <1>4, <1>5, <1>16 DEF Verify, Finish, WorkerIsCleared
  <1>17. CASE ReportError(w)
    BY <1>1, <1>4, <1>5, <1>17 DEF ReportError, Finish, WorkerIsCleared
  <1>18. CASE Backoff(w)
    BY <1>1, <1>4, <1>5, <1>18 DEF Backoff, WorkerIsCleared
  <1> HIDE DEF Goto, JobUnchanged, EnvUnchanged
  <1> QED
    BY <1>6, <1>7, <1>8, <1>9, <1>10, <1>11, <1>12, <1>13, <1>14, <1>15, <1>16,
       <1>17, <1>18 DEF WorkerStep

LEMMA TickVet ==
  ASSUME TypeInv, VetInv, SchedulerTick
  PROVE  VetInv'
  <1>1. PICK hire \in [Chosen -> Workers] : Hired(hire)
    BY TickHires
  <1>2. UNCHANGED <<cancelled, tangled, vetted, guarded, verdict, override>>
    BY DEF SchedulerTick, history
  <1>3. \A j \in Jobs : status'[j] = status[j] \/ status[j] = "queued"
    BY ChosenIsQueued DEF SchedulerTick, Becomes
  <1>4. \A w \in Workers : /\ pc'[w] = "start" \/ (pc'[w] = pc[w] /\ owner'[w] = owner[w])
                           /\ pc[w] # "idle" => pc'[w] = pc[w] /\ owner'[w] = owner[w]
    BY <1>1 DEF Hired
  <1>5. ASSUME NEW w \in Workers PROVE WorkerIsCleared(w)'
    BY <1>2, <1>4 DEF VetInv, WorkerIsCleared, Acceptable
  <1>6. GuardIsEarned'
    <2> SUFFICES ASSUME NEW j \in Jobs \ tangled, status[j] \in {"queued", "running"},
                        guarded[j]
                 PROVE  j \in vetted \/ \E x \in WorkersOf(j)' : pc'[x] = "judge"
      BY <1>2, <1>3 DEF GuardIsEarned
    <2> QED
      BY <1>4 DEF VetInv, GuardIsEarned, WorkersOf, Live
  <1> QED
    BY <1>5, <1>6 DEF VetInv

LEMMA ExitVet ==
  ASSUME TypeInv, VetInv, NEW w \in Workers, WorkerExit(w)
  PROVE  VetInv'
  <1>1. /\ pc[w] = "exit" /\ pc'[w] = "idle"
        /\ UNCHANGED <<status, guarded, override, tangled, vetted>>
    BY DEF WorkerExit, Goto, TypeInv, TypeOK, jobVars, history
  <1>2. \A x \in Workers \ {w} : /\ pc'[x] = pc[x] /\ owner'[x] = owner[x]
                                 /\ cancelled'[x] = cancelled[x] /\ verdict'[x] = verdict[x]
    BY DEF WorkerExit, Goto, TypeInv, TypeOK
  <1>3. \A x \in Workers : WorkerIsCleared(x)'
    BY <1>1, <1>2 DEF VetInv, WorkerIsCleared, Acceptable
  <1>4. GuardIsEarned'
    BY <1>1, <1>2 DEF VetInv, GuardIsEarned, WorkersOf, Live
  <1> QED
    BY <1>3, <1>4 DEF VetInv

(* The handlers move no worker; whatever they leave queued or running, with*)
(* a current GuardVersion, they left as it was or have just cleared.       *)
LEMMA EditVet ==
  ASSUME VetInv, UNCHANGED <<pc, owner, verdict>>, tangled \subseteq tangled',
         \A w \in Workers : cancelled[w] => cancelled'[w],
         \A w \in Workers : Live(w) /\ owner[w] \notin tangled' =>
            /\ owner[w] \in vetted => owner[w] \in vetted'
            /\ override'[owner[w]] = override[owner[w]],
         \A j \in Jobs \ tangled' : status'[j] \in {"queued", "running"} /\ guarded'[j] =>
            \/ j \in vetted'
            \/ /\ status[j] \in {"queued", "running"} /\ guarded[j]
               /\ j \in vetted => j \in vetted'
  PROVE  VetInv'
  <1>1. ASSUME NEW w \in Workers PROVE WorkerIsCleared(w)'
    <2> SUFFICES ASSUME owner[w] \notin tangled', Live(w)
                 PROVE  WorkerIsCleared(w)'
      BY DEF WorkerIsCleared, Live
    <2>1. WorkerIsCleared(w)
      BY DEF VetInv
    <2> QED
      BY <2>1 DEF WorkerIsCleared, Acceptable
  <1>2. GuardIsEarned'
    <2> SUFFICES ASSUME NEW j \in Jobs \ tangled', status'[j] \in {"queued", "running"},
                        guarded'[j], j \notin vetted'
                 PROVE  \E x \in WorkersOf(j)' : pc'[x] = "judge"
      BY DEF GuardIsEarned
    <2>1. \E x \in WorkersOf(j) : pc[x] = "judge"
      BY DEF VetInv, GuardIsEarned
    <2> QED
      BY <2>1 DEF WorkersOf, Live
  <1> QED
    BY <1>1, <1>2 DEF VetInv

LEMMA AddVet ==
  ASSUME TypeInv, OwnerInv, VetInv, HandleQueueAdd
  PROVE  VetInv'
  <1> USE DEF history, workerVars
  <1>1. PICK f \in Files : AddFindsDuplicate(f) \/ AddNeedsReview(f) \/ AddAccepted(f)
    BY DEF HandleQueueAdd
  <1>2. ASSUME NEW S, NEW s \in {"blocked", "paused"},
               status' = Becomes(S, s), guarded' = SetGuarded(S, TRUE), cancelled' = CancelAll(S),
               UNCHANGED <<override, pc, owner, verdict, vetted, tangled>>
        PROVE  VetInv'
    <2>1. \A w \in Workers : cancelled[w] => cancelled'[w]
      BY <1>2 DEF CancelAll
    <2>2. \A j \in Jobs : status'[j] \in {"queued", "running"} /\ guarded'[j] =>
                          status[j] \in {"queued", "running"} /\ guarded[j]
      BY <1>2 DEF Becomes, SetGuarded
    <2> QED
      BY <1>2, <2>1, <2>2, EditVet
  <1>3. CASE AddFindsDuplicate(f)
    BY <1>2, <1>3 DEF AddFindsDuplicate
  <1>4. CASE AddNeedsReview(f)
    BY <1>2, <1>4 DEF AddNeedsReview
  <1>5. CASE AddAccepted(f)
    <2>1. /\ UNCHANGED <<pc, owner, verdict, cancelled, tangled>>
          /\ vetted' = vetted \cup {created + 1}
      BY <1>5 DEF AddAccepted
    <2>2. \A j \in Jobs \ {created + 1} : /\ status'[j] = status[j] /\ guarded'[j] = guarded[j]
                                          /\ override'[j] = override[j]
      BY <1>5 DEF AddAccepted, TypeInv, TypeOK
    <2>3. \A w \in Workers : Live(w) => owner[w] \in Jobs \ {created + 1}
      BY DEF TypeInv, TypeOK, Employed, OwnerInv, Ownership, Jobs
    <2> QED
      BY <2>1, <2>2, <2>3, EditVet
  <1> QED
    BY <1>1, <1>3, <1>4, <1>5

LEMMA ActionVet ==
  ASSUME TypeInv, VetInv, HandleQueueAction \/ ChangeConcurrency \/ Shutdown
  PROVE  VetInv'
  <1> USE DEF history, workerVars, jobVars
  <1>1. ASSUME UNCHANGED <<pc, owner, verdict, override, tangled, vetted>>,
               \A w \in Workers : cancelled[w] => cancelled'[w],
               \A j \in Jobs : status'[j] \in {"queued", "running"} /\ guarded'[j] =>
                               status[j] \in {"queued", "running"} /\ guarded[j]
        PROVE  VetInv'
    BY <1>1, EditVet
  <1>2. ASSUME NEW S, Pause(S) PROVE VetInv'
    BY <1>1, <1>2 DEF Pause, CancelAll, Becomes, SetGuarded
  <1>3. ASSUME NEW S, Resume(S) PROVE VetInv'
    <2>1. PICK hit : /\ status' = Becomes(hit, "queued") /\ guarded' = SetGuarded(hit, FALSE)
                     /\ vetted' = vetted \ hit
                     /\ tangled' = tangled \cup {j \in hit : WorkersOf(j) # {}}
      BY <1>3 DEF Resume
    <2>2. UNCHANGED <<pc, owner, verdict, cancelled, override>>
      BY <1>3 DEF Resume
    <2>3. \A w \in Workers : Live(w) /\ owner[w] \notin tangled' => owner[w] \notin hit
      BY <2>1 DEF WorkersOf
    <2>4. \A j \in Jobs : status'[j] \in {"queued", "running"} /\ guarded'[j] =>
                          j \notin hit /\ status[j] \in {"queued", "running"} /\ guarded[j]
      BY <2>1 DEF Becomes, SetGuarded
    <2> QED
      BY <2>1, <2>2, <2>3, <2>4, EditVet
  <1>4. ASSUME NEW S, Cancel(S) PROVE VetInv'
    BY <1>1, <1>4 DEF Cancel, CancelAll, Becomes
  <1>5. ASSUME NEW S, Forget(S) PROVE VetInv'
    BY <1>1, <1>5 DEF Forget, Becomes, SetGuarded
  <1>6. ASSUME NEW S, ChangePriority(S) PROVE VetInv'
    BY <1>1, <1>6 DEF ChangePriority
  <1>7. CASE ChangeConcurrency
    BY <1>1, <1>7 DEF ChangeConcurrency
  <1>8. CASE Shutdown
    BY <1>1, <1>8 DEF Shutdown, CancelAll, Becomes, SetGuarded
  <1> QED
    BY <1>2, <1>3, <1>4, <1>5, <1>6, <1>7, <1>8 DEF HandleQueueAction, Remove, ClearCompleted

LEMMA StepVet ==
  ASSUME Inv, VetInv, [Next]_vars
  PROVE  VetInv'
  <1> USE DEF Inv
  <1>1. ASSUME NEW w \in Workers, WorkerStep(w) PROVE VetInv'
    BY <1>1, WorkerVet, ExitVet
  <1>2. CASE Restart
    BY <1>2 DEF Restart, VetInv, GuardIsEarned, WorkerIsCleared, Becomes, WithStatus
  <1>3. CASE UNCHANGED vars
    BY <1>3 DEF vars, jobVars, workerVars, history, VetInv, GuardIsEarned, WorkerIsCleared,
                Acceptable, WorkersOf, Live
  <1> QED
    BY <1>1, <1>2, <1>3, TickVet, AddVet, ActionVet DEF Next

(* Unless a job is resumed while a worker of it is still winding down, no  *)
(* download begins that ExactGuard has not cleared since the job was added *)
(* or last resumed.                                                        *)
THEOREM Vetted == Spec => []TransferIsVetted
  <1>1. QueueAssumption /\ Init => VetInv
    BY InitVet
  <1>2. Inv /\ VetInv /\ [Next]_vars => VetInv'
    BY StepVet
  <1>3. VetInv => TransferIsVetted
    BY DEF VetInv, WorkerIsCleared, TransferIsVetted
  <1> QED
    BY <1>1, <1>2, <1>3, InvHolds, QueueAssumption, PTL DEF Spec

-----------------------------------------------------------------------------
(* MEGA's single job, and the concurrency limit *)

(* Only a tick makes a job running, and nothing else touches what a running*)
(* job downloads.                                                          *)
LEMMA RunningIsKept ==
  ASSUME Inv, [Next]_vars, ~SchedulerTick, NEW j \in Jobs, status'[j] = "running"
  PROVE  status[j] = "running" /\ remote'[j] = remote[j]
  <1> USE DEF Inv
  <1>1. status[j] = "running"
    <2>1. ASSUME NEW w \in Workers, WorkerMoves(w) PROVE status[j] = "running"
      BY <2>1 DEF WorkerMoves, Becomes
    <2>2. ASSUME NEW w \in Workers, WorkerExit(w) PROVE status[j] = "running"
      BY <2>2 DEF WorkerExit, jobVars
    <2>3. CASE Stops
      BY <2>3 DEF Stops, Becomes
    <2>4. CASE Enqueues
      BY <2>4 DEF Enqueues, TypeInv, TypeOK
    <2>5. CASE Requeues \/ Forgets \/ Quiet
      BY <2>5 DEF Requeues, Forgets, Quiet, Becomes
    <2>6. CASE Restart
      BY <2>6 DEF Restart, Becomes, WithStatus
    <2> QED
      BY <2>1, <2>2, <2>3, <2>4, <2>5, <2>6, StepKinds
  <1>2. remote'[j] = remote[j]
    <2> USE DEF JobUnchanged, jobVars
    <2>1. ASSUME NEW w \in Workers, WorkerStep(w) PROVE UNCHANGED remote
      BY <2>1 DEF WorkerStep, WorkerStart, GuardFails, GuardEvaluates, GuardReturns, CommitVerdict,
           Judge, CheckEngine, BeginAttempt, AcquireMega, TransferEnds, Verify,
           ReportError, Backoff, WorkerExit
    <2>2. CASE HandleQueueAdd
      <3>1. ASSUME NEW f \in Files, AddAccepted(f) PROVE remote'[j] = remote[j]
        <4>1. j # created + 1
          BY <1>1, <3>1 DEF AddAccepted, TypeInv, TypeOK
        <4> QED
          BY <3>1, <4>1 DEF AddAccepted, TypeInv, TypeOK
      <3> QED
        BY <2>2, <3>1 DEF HandleQueueAdd, AddFindsDuplicate, AddNeedsReview
    <2>3. CASE HandleQueueAction
      BY <2>3 DEF HandleQueueAction, Pause, Resume, Cancel, Remove, ClearCompleted, Forget,
                  ChangePriority
    <2>4. CASE ChangeConcurrency \/ Shutdown \/ Restart
      BY <2>4 DEF ChangeConcurrency, Shutdown, Restart
    <2>5. CASE UNCHANGED vars
      BY <2>5 DEF vars
    <2> QED
      BY <2>1, <2>2, <2>3, <2>4, <2>5 DEF Next
  <1> QED
    BY <1>1, <1>2

LEMMA TickStarts ==
  ASSUME SchedulerTick
  PROVE  /\ WithStatus({"running"})' = WithStatus({"running"}) \cup Chosen
         /\ UNCHANGED remote
  BY ChosenIsQueued DEF SchedulerTick, Becomes, WithStatus

(* No two jobs of one tick outrank each other. *)
LEMMA RankIsStrict ==
  ASSUME QueueAssumption, TypeInv, NEW j \in Jobs, NEW k \in Jobs, Outranks(j, k)
  PROVE  ~Outranks(k, j) /\ j # k
  BY DEF TypeInv, TypeOK, Outranks, Jobs, QueueAssumption

LEMMA RankIsTotal ==
  ASSUME TypeInv, QueueAssumption, NEW j \in Jobs, NEW k \in Jobs, j # k
  PROVE  Outranks(j, k) \/ Outranks(k, j)
  BY DEF TypeInv, TypeOK, Outranks, Jobs, QueueAssumption

LEMMA RankIsTransitive ==
  ASSUME TypeInv, QueueAssumption, NEW i \in Jobs, NEW j \in Jobs, NEW k \in Jobs,
         Outranks(i, j), Outranks(j, k)
  PROVE  Outranks(i, k)
  BY DEF TypeInv, TypeOK, Outranks, Jobs, QueueAssumption

(* At most one MEGA job is running: the rule of the scheduler is enough,   *)
(* whatever the users and the workers do between two ticks.                *)
THEOREM SingleMega == Spec => []OneMegaJob
  <1>1. Init => OneMegaJob
    BY DEF Init, OneMegaJob, WithStatus
  <1>2. ASSUME QueueAssumption, Inv, OneMegaJob, [Next]_vars PROVE OneMegaJob'
    <2>1. CASE SchedulerTick
      <3> SUFFICES ASSUME NEW j \in WithStatus({"running"}) \cup Chosen,
                          NEW k \in WithStatus({"running"}) \cup Chosen,
                          IsMega(j), IsMega(k)
                   PROVE  j = k
        BY <2>1, TickStarts DEF OneMegaJob, IsMega
      <3>1. CASE j \in WithStatus({"running"}) /\ k \in WithStatus({"running"})
        BY <1>2, <3>1 DEF OneMegaJob
      <3>2. CASE j \in Chosen /\ k \in Chosen
        BY <1>2, <3>2, RankIsStrict DEF Chosen, Candidates, Inv, WithStatus
      <3> QED
        BY <3>1, <3>2 DEF Chosen, Candidates
    <2>2. CASE ~SchedulerTick
      BY <1>2, <2>2, RunningIsKept DEF OneMegaJob, WithStatus, IsMega
    <2> QED
      BY <2>1, <2>2
  <1> QED
    BY <1>1, <1>2, InvHolds, QueueAssumption, PTL DEF Spec

(* The jobs a tick starts fit in its free slots: the number of candidates  *)
(* that outrank a job tells the jobs of a tick apart.                      *)
LEMMA ChosenFits ==
  ASSUME QueueAssumption, TypeInv, Chosen # {}
  PROVE  /\ IsFiniteSet(Chosen)
         /\ Cardinality(Chosen) <= Limit - Cardinality(WithStatus({"running"}))
  <1> DEFINE Above(j) == {k \in Candidates : Outranks(k, j)}
             slots == Limit - Cardinality(WithStatus({"running"}))
  <1>1. IsFiniteSet(Jobs)
    BY FS_Interval DEF Jobs, QueueAssumption
  <1>2. Candidates \subseteq Jobs /\ IsFiniteSet(Candidates)
    BY <1>1, FS_Subset DEF Candidates, WithStatus
  <1>3. slots \in Int
    <2>1. WithStatus({"running"}) \in SUBSET Jobs
      BY DEF WithStatus
    <2>2. Cardinality(WithStatus({"running"})) \in Nat
      BY <1>1, <2>1, FS_Subset, FS_CardinalityType
    <2>3. Limit \in Int
      BY DEF Limit, QueueAssumption, TypeInv, TypeOK
    <2> QED
      BY <2>2, <2>3
  <1>4. \A j \in Jobs : IsFiniteSet(Above(j)) /\ Cardinality(Above(j)) \in Nat
    <2> SUFFICES ASSUME NEW j \in Jobs
                 PROVE  IsFiniteSet(Above(j)) /\ Cardinality(Above(j)) \in Nat
      OBVIOUS
    <2>1. Above(j) \in SUBSET Candidates
      OBVIOUS
    <2> QED
      BY <1>2, <2>1, FS_Subset, FS_CardinalityType
  <1>5. \A j \in Chosen : j \in Candidates /\ Cardinality(Above(j)) < slots
    BY DEF Chosen
  <1>6. ASSUME NEW j \in Candidates, NEW k \in Candidates, Outranks(j, k)
        PROVE  Cardinality(Above(j)) # Cardinality(Above(k))
    <2>1. Above(j) \in SUBSET Above(k)
      BY <1>2, <1>6, RankIsTransitive
    <2>2. j \in Above(k) /\ j \notin Above(j)
      BY <1>2, <1>6, RankIsStrict
    <2>3. IsFiniteSet(Above(k))
      BY <1>2, <1>4
    <2> QED
      BY <2>1, <2>2, <2>3, FS_Subset
  <1> DEFINE place == [j \in Chosen |-> Cardinality(Above(j))]
  <1> HIDE DEF slots, Above
  <1>7. place \in [Chosen -> 0 .. slots - 1]
    BY <1>2, <1>3, <1>4, <1>5
  <1>8. \A j, k \in Chosen : place[j] = place[k] => j = k
    BY <1>2, <1>5, <1>6, RankIsTotal
  <1>9. place \in Injection(Chosen, 0 .. slots - 1)
    BY <1>7, <1>8 DEF Injection, IsInjective
  <1>10. slots > 0
    BY <1>2, <1>3, <1>4, <1>5
  <1>11. IsFiniteSet(0 .. slots - 1) /\ Cardinality(0 .. slots - 1) = slots
    BY <1>3, <1>10, FS_Interval
  <1>12. IsFiniteSet(Chosen) /\ Cardinality(Chosen) <= slots
    BY <1>9, <1>11, FS_Injection
  <1> QED
    BY <1>12 DEF slots

(* A tick never takes the number of running jobs above the configured      *)
(* concurrency, and nothing else starts a job.                             *)
THEOREM ConcurrencyRespected == Spec => RespectsConcurrency
  <1>1. ASSUME QueueAssumption, Inv, [Next]_vars
        PROVE  [WithStatus({"running"})' \subseteq WithStatus({"running"})
                \/ Cardinality(WithStatus({"running"})') <= Limit]_vars
    <2> DEFINE running == WithStatus({"running"})
    <2>1. CASE SchedulerTick
      <3>1. running' = running \cup Chosen
        BY <2>1, TickStarts
      <3>2. IsFiniteSet(running) /\ Cardinality(running) \in Nat
        <4>1. running \in SUBSET Jobs
          BY DEF WithStatus
        <4>2. IsFiniteSet(Jobs)
          BY <1>1, FS_Interval DEF Jobs, QueueAssumption
        <4> QED
          BY <4>1, <4>2, FS_Subset, FS_CardinalityType
      <3>3. IsFiniteSet(Chosen) /\ Cardinality(Chosen) <= Limit - Cardinality(running)
        BY <1>1, <2>1, ChosenFits DEF SchedulerTick, Inv
      <3>4. Cardinality(running \cup Chosen) =
              Cardinality(running) + Cardinality(Chosen) - Cardinality(running \cap Chosen)
        BY <3>2, <3>3, FS_Union
      <3>5. Cardinality(Chosen) \in Nat /\ Cardinality(running \cap Chosen) \in Nat
        <4>1. IsFiniteSet(running \cap Chosen)
          BY <3>2, FS_Subset
        <4> QED
          BY <3>3, <4>1, FS_CardinalityType
      <3>6. Limit \in Int
        BY <1>1 DEF Limit, QueueAssumption, Inv, TypeInv, TypeOK
      <3>7. Cardinality(running \cup Chosen) <= Limit
        <4> HIDE DEF running
        <4> QED
          BY <3>2, <3>3, <3>4, <3>5, <3>6
      <3> QED
        BY <3>1, <3>7
    <2>2. CASE ~SchedulerTick
      BY <1>1, <2>2, RunningIsKept DEF WithStatus
    <2> QED
      BY <2>1, <2>2
  <1> QED
    BY <1>1, InvHolds, QueueAssumption, PTL DEF Spec, RespectsConcurrency

=============================================================================
