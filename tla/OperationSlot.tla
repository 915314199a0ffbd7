---------------------------- MODULE OperationSlot ----------------------------
(***************************************************************************)
(* The operation slot (App.opRunning and App.cancel, main.go) and the      *)
(* worker that applies a change of the local folders                       *)
(* (local_folder_refresh_v857.go).  Foreground operations test the slot and*)
(* take it in separate steps, and give it back twice: in endOp or failOp,  *)
(* and again in a deferred function.  The heartbeats of the page notice    *)
(* that the folders have changed and start one worker, which waits for the *)
(* slot, prunes what was under removed folders and walks the others.       *)
(***************************************************************************)
EXTENDS Naturals, FiniteSets

CONSTANTS
    Roots,       \* local folders
    Operations,  \* among "index", "scan", "tools", "download"
    MaxEvents,   \* bound on the operations begun and the changes of the folders, together
    MaxErrors,   \* bound on the refreshes that fail
    MaxBeats     \* bound on the heartbeats handled at the same time

VARIABLES
    slot,      \* opRunning
    cancel,    \* the operation whose context a.cancel cancels, or "none"
    opAt,      \* where each operation is
    cancelled,   \* operations whose context is cancelled
    events,    \* the operations begun and the changes of the folders so far
    guardMu,   \* who holds it: "free", "worker" or "download"
    config,    \* cfg.LocalPaths
    touched, wavered,   \* history: the folders added or removed, and more than once
    beat,      \* the heartbeats in flight: the folders each has read
    ready,     \* initialized
    observed,  \* observedSig and observedRoots
    applied,   \* appliedSig and appliedRoots
    queued,    \* a worker has been started
    wAt,       \* where the worker is
    target,    \* targetRoots
    failed,    \* its refresh ended in an error
    errors,
    covered    \* the folders whose files the refreshes have in the index

ops == <<opAt, cancelled>>
watched == <<ready, observed, applied, queued>>
worker == <<wAt, target, failed, errors, covered>>
folders == <<config, touched, wavered, events>>
slotVars == <<slot, cancel, ops, guardMu, folders, beat, watched, worker>>

SlotTypeOK ==
    /\ slot \in BOOLEAN
    /\ cancel \in Operations \cup {"none"}
    /\ opAt \in [Operations -> {"idle", "looked", "guard", "asked", "armed",
                                "running", "ended", "again", "clearing"}]
    /\ cancelled \subseteq Operations
    /\ events \in Nat
    /\ guardMu \in {"free", "worker", "download"}
    /\ config \subseteq Roots
    /\ wavered \subseteq touched /\ touched \subseteq Roots /\ covered \subseteq Roots
    /\ beat \subseteq SUBSET Roots
    /\ ready \in BOOLEAN /\ queued \in BOOLEAN /\ failed \in BOOLEAN
    /\ observed \subseteq Roots /\ applied \subseteq Roots
    /\ wAt \in {"off", "top", "wait", "lock", "try", "refresh", "walk", "ended",
               "apply"}
    /\ target \subseteq Roots
    /\ errors \in Nat

SlotInit ==
    /\ slot = FALSE /\ cancel = "none"
    /\ opAt = [o \in Operations |-> "idle"] /\ cancelled = {}
    /\ guardMu = "free"
    /\ config = {CHOOSE r \in Roots : TRUE} /\ events = 0
    /\ touched = {} /\ wavered = {}
    /\ beat = {}
    /\ ready = FALSE /\ observed = {} /\ applied = {} /\ queued = FALSE
    /\ wAt = "off" /\ target = {} /\ failed = FALSE /\ errors = 0
    /\ covered = config

-----------------------------------------------------------------------------
(* Operations *)

Happens == events < MaxEvents /\ events' = events + 1

Step(o, from, to) ==
    /\ opAt[o] = from
    /\ opAt' = [opAt EXCEPT ![o] = to]

(* A handler finds the slot free; otherwise it answers 409. *)
Look(o) ==
    /\ ~slot
    /\ Happens
    /\ Step(o, "idle", IF o = "download" THEN "guard" ELSE "looked")
    /\ UNCHANGED <<slot, cancel, cancelled, guardMu, config, touched, wavered, beat,
                   watched, worker>>

(* A download is judged by ExactGuard, under guardMu, before it goes on;   *)
(* if nothing is to be downloaded it is over.                              *)
TakeGuard ==
    /\ guardMu = "free"
    /\ guardMu' = "download"
    /\ Step("download", "guard", "asked")
    /\ UNCHANGED <<slot, cancel, cancelled, folders, beat, watched, worker>>

Judged ==
    /\ guardMu' = "free"
    /\ \E to \in {"looked", "idle"} : Step("download", "asked", to)
    /\ UNCHANGED <<slot, cancel, cancelled, folders, beat, watched, worker>>

(* The context is made and a.cancel set, before the slot is taken. *)
Arm(o) ==
    /\ Step(o, "looked", "armed")
    /\ cancel' = o
    /\ cancelled' = cancelled \ {o}
    /\ UNCHANGED <<slot, guardMu, folders, beat, watched, worker>>

(* Indexing takes the slot by compare-and-swap and gives way to whoever was*)
(* faster, whose a.cancel it has overwritten; the others just store true.  *)
Claim(o) ==
    /\ IF o = "index" /\ slot THEN Step(o, "armed", "idle") /\ UNCHANGED slot
       ELSE Step(o, "armed", "running") /\ slot' = TRUE
    /\ UNCHANGED <<cancel, cancelled, guardMu, folders, beat, watched, worker>>

(* Done, failed or cancelled: endOp or failOp frees the slot, and then     *)
(* clears a.cancel.                                                        *)
Finish(o) ==
    /\ Step(o, "running", "ended")
    /\ slot' = FALSE
    /\ UNCHANGED <<cancel, cancelled, guardMu, folders, beat, watched, worker>>

EndOp(o) ==
    /\ Step(o, "ended", "again")
    /\ cancel' = "none"
    /\ UNCHANGED <<slot, cancelled, guardMu, folders, beat, watched, worker>>

(* The deferred function releases what may be another's by now. *)
Again(o) ==
    /\ Step(o, "again", "clearing")
    /\ slot' = FALSE
    /\ UNCHANGED <<cancel, cancelled, guardMu, folders, beat, watched, worker>>

Gone(o) ==
    /\ Step(o, "clearing", "idle")
    /\ cancel' = "none"
    /\ cancelled' = cancelled \ {o}
    /\ UNCHANGED <<slot, guardMu, folders, beat, watched, worker>>

(* handleCancel *)
Cancel ==
    /\ cancel # "none"
    /\ cancelled' = cancelled \cup {cancel}
    /\ UNCHANGED <<slot, cancel, opAt, guardMu, folders, beat, watched, worker>>

-----------------------------------------------------------------------------
(* Noticing a change of the folders *)

(* The user changes the folders on the page, which sends its first heartbeat*)
(* when it is loaded; what that one reads counts as applied.                *)
Configure(roots) ==
    /\ ready
    /\ Happens
    /\ roots # config
    /\ config' = roots
    /\ LET changed == (config \ roots) \cup (roots \ config) IN
       touched' = touched \cup changed /\ wavered' = wavered \cup (touched \cap changed)
    /\ UNCHANGED <<slot, cancel, ops, guardMu, beat, watched, worker>>

(* A heartbeat reads the folders and then, under the state's mutex, notes  *)
(* them; two pages may do so at the same time.                             *)
Heartbeat ==
    /\ Cardinality(beat) < MaxBeats
    /\ beat' = beat \cup {config}
    /\ UNCHANGED <<slot, cancel, ops, guardMu, folders, watched, worker>>

Note(roots) ==
    /\ roots \in beat
    /\ beat' = beat \ {roots}
    /\ ready' = TRUE
    /\ observed' = roots
    /\ applied' = IF ready THEN applied ELSE roots
    /\ queued' = (ready /\ (queued \/ roots # applied))
    /\ wAt' = IF queued' /\ ~queued THEN "top" ELSE wAt
    /\ UNCHANGED <<slot, cancel, ops, guardMu, folders, target, failed, errors, covered>>

-----------------------------------------------------------------------------
(* The worker *)

WorkerStep(from, to) ==
    /\ wAt = from
    /\ wAt' = to
    /\ UNCHANGED <<ops, folders, beat>>

Top ==
    /\ WorkerStep("top", "wait")
    /\ target' = observed
    /\ UNCHANGED <<slot, cancel, guardMu, watched, failed, errors, covered>>

Wait ==
    /\ ~slot
    /\ WorkerStep("wait", "lock")
    /\ UNCHANGED <<slot, cancel, guardMu, watched, target, failed, errors, covered>>

Lock ==
    /\ guardMu = "free"
    /\ guardMu' = "worker"
    /\ WorkerStep("lock", "try")
    /\ UNCHANGED <<slot, cancel, watched, target, failed, errors, covered>>

(* The slot is taken by compare-and-swap; when that fails all begins anew. *)
Try ==
    /\ IF slot THEN WorkerStep("try", "top") /\ guardMu' = "free"
       ELSE WorkerStep("try", "refresh") /\ UNCHANGED guardMu
    /\ slot' = TRUE
    /\ UNCHANGED <<cancel, watched, target, failed, errors, covered>>

Fails ==
    /\ errors < MaxErrors
    /\ failed' = TRUE /\ errors' = errors + 1

(* What was under removed folders goes, unless the folder is configured    *)
(* again by now; then the index is saved, which may fail, and failOp frees *)
(* the slot.                                                               *)
Prune ==
    LET removed == (applied \ target) \ config IN
    /\ covered' = covered \ removed
    /\ \/ WorkerStep("refresh", "walk") /\ UNCHANGED <<slot, failed, errors>>
       \/ /\ removed \cap covered # {}
          /\ WorkerStep("refresh", "ended") /\ Fails /\ slot' = FALSE
    /\ UNCHANGED <<cancel, guardMu, watched, target>>

(* Faulty variant: the worker returns on an error without failOp. *)
Walk_KeepsSlot ==
    /\ WorkerStep("walk", "ended")
    /\ covered' = covered \cup config
    /\ \/ failed' = FALSE /\ slot' = FALSE /\ UNCHANGED errors
       \/ Fails /\ UNCHANGED slot
    /\ UNCHANGED <<cancel, guardMu, watched, target>>

(* The folders that are configured by now are walked.  The index is saved  *)
(* again, and endOp or failOp frees the slot; inside compareRemote a save  *)
(* that fails is not an error.                                             *)
Walk ==
    /\ WorkerStep("walk", "ended")
    /\ covered' = covered \cup config
    /\ Fails \/ (failed' = FALSE /\ UNCHANGED errors)
    /\ slot' = FALSE
    /\ UNCHANGED <<cancel, guardMu, watched, target>>

Unlock ==
    /\ WorkerStep("ended", "apply")
    /\ cancel' = "none"
    /\ guardMu' = "free"
    /\ UNCHANGED <<slot, watched, target, failed, errors, covered>>

(* Faulty variant: the worker leaves with the mark that it is there when   *)
(* the folders have changed once more.                                     *)
Apply_Leaves ==
    /\ WorkerStep("apply", "off")
    /\ applied' = IF failed THEN applied ELSE target
    /\ queued' = (~failed /\ observed # applied')
    /\ target' = {} /\ failed' = FALSE
    /\ UNCHANGED <<slot, cancel, guardMu, ready, observed, errors, covered>>

(* After an error the worker leaves, and the next heartbeat starts another.*)
(* After a success it leaves unless the folders changed once more.         *)
Apply ==
    /\ applied' = IF failed THEN applied ELSE target
    /\ IF failed \/ observed = applied'
       THEN WorkerStep("apply", "off") /\ queued' = FALSE
       ELSE WorkerStep("apply", "top") /\ UNCHANGED queued
    /\ target' = {} /\ failed' = FALSE
    /\ UNCHANGED <<slot, cancel, guardMu, ready, observed, errors, covered>>

-----------------------------------------------------------------------------

Operate(o) ==
    Arm(o) \/ Claim(o) \/ Finish(o) \/ EndOp(o) \/ Again(o) \/ Gone(o)
Work == Top \/ Wait \/ Lock \/ Try \/ Prune \/ Walk \/ Unlock \/ Apply

SlotNext ==
    \/ \E o \in Operations : Look(o) \/ Operate(o)
    \/ TakeGuard
    \/ Judged
    \/ Cancel
    \/ \E roots \in SUBSET Roots : Configure(roots) \/ Note(roots)
    \/ Heartbeat
    \/ Work

SlotSpec == SlotInit /\ [][SlotNext]_slotVars

(* Operations come to an end, the page keeps sending heartbeats, and the   *)
(* goroutines run: that of each operation, of the heartbeats and of the    *)
(* worker.                                                                 *)
Goes(o) == Operate(o) \/ (o = "download" /\ (TakeGuard \/ Judged))
Notes == \E roots \in beat : Note(roots)

SlotFairness ==
    /\ \A o \in Operations : WF_slotVars(Goes(o))
    /\ WF_slotVars(Heartbeat) /\ WF_slotVars(Notes)
    /\ WF_slotVars(Work)

SlotFairSpec == SlotSpec /\ SlotFairness

-----------------------------------------------------------------------------
(* Properties *)

(* Although it is tested and taken in two steps and given back twice, the  *)
(* slot never stays taken when nobody is left to give it back: as long as  *)
(* it is taken, an operation or the worker has its release before it.      *)
SlotIsOwed ==
    slot => \/ wAt \in {"refresh", "walk"}
            \/ \E o \in Operations : opAt[o] \in {"running", "ended", "again"}

(* Once the folders are left alone, the worker comes to rest at them (its  *)
(* signature is theirs), however often they were changed while operations, *)
(* ExactGuard or an earlier refresh were running and whatever refreshes    *)
(* failed; and a folder that was added, or removed, once is in the index   *)
(* exactly if it is configured.  Of a folder that went and came back this  *)
(* is not said: it may be missed (README, section 12).                     *)
FoldersApplied ==
    <>[](/\ ready /\ applied = config
         /\ \A r \in Roots \ wavered : r \in covered <=> r \in config)

=============================================================================
