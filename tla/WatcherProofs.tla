--------------------------- MODULE WatcherProofs ---------------------------
(***************************************************************************)
(* Proofs about what runs in the background on timers: the refresh of the  *)
(* index in the operation slot (OperationSlot) and the watchdog of the     *)
(* window (UIWatchdog).                                                    *)
(***************************************************************************)
EXTENDS OperationSlot, UIWatchdog, TLAPS

-----------------------------------------------------------------------------
(***************************************************************************)
(* SlotIsOwed is proved for any folders, operations and bounds.  Whoever   *)
(* takes the slot has its release before it, and whoever stops owing it has*)
(* just released it, whether or not the slot was its own by then; and no   *)
(* heartbeat starts a second worker in the place of the one whose refresh  *)
(* holds the slot (SingleWorker).                                          *)
(***************************************************************************)
Places == {"idle", "looked", "guard", "asked", "armed", "running", "ended",
           "again", "clearing"}

Owing == {"running", "ended", "again"}

(* A worker that is there is marked, so that no second one is started. *)
SingleWorker == wAt # "off" => ready /\ queued

(* Where each operation is remains one of the places of the code, and the  *)
(* slot is owed.                                                           *)
SlotInv ==
    /\ opAt \in [Operations -> Places]
    /\ SingleWorker
    /\ SlotIsOwed

(* Initially nobody holds the slot. *)
LEMMA SlotInitInv == SlotInit => SlotInv
BY DEF SlotInit, SlotInv, Places, SingleWorker, SlotIsOwed

(* A step that frees the slot leaves it to nobody. *)
LEMMA FreeingKeeps ==
    ASSUME opAt' \in [Operations -> Places], slot' = FALSE, SingleWorker'
    PROVE  SlotInv'
BY DEF SlotInv, SlotIsOwed

(* An operation that moves without touching the slot, from a place that    *)
(* owes nothing or to one that does, keeps it owed.                        *)
LEMMA MoveKeeps ==
    ASSUME NEW o \in Operations, NEW from \in Places, NEW to \in Places,
           SlotInv, Step(o, from, to), slot' = slot,
           UNCHANGED <<wAt, ready, queued>>,
           from \in Owing => to \in Owing
    PROVE  SlotInv'
<1>1. opAt' \in [Operations -> Places]
  BY DEF SlotInv, Step
<1>2. ASSUME NEW p \in Operations, opAt[p] \in Owing
      PROVE  opAt'[p] \in Owing
  BY <1>2 DEF SlotInv, Step
<1> QED
  BY <1>1, <1>2 DEF SlotInv, SingleWorker, SlotIsOwed, Owing

(* A step of the worker that leaves the slot alone, outside its refresh and*)
(* its walk, keeps it owed.                                                *)
LEMMA WorkerKeeps ==
    ASSUME SlotInv, UNCHANGED opAt, slot' = slot, wAt \notin {"refresh", "walk"},
           SingleWorker'
    PROVE  SlotInv'
BY DEF SlotInv, SlotIsOwed

(* Each step of an operation. *)
LEMMA OperateInv ==
    ASSUME SlotInv, NEW o \in Operations, Look(o) \/ Operate(o)
    PROVE  SlotInv'
<1> USE DEF worker, watched
<1>1. CASE Look(o)
  <2>1. PICK to \in {"guard", "looked"} : Step(o, "idle", to)
    BY <1>1 DEF Look
  <2> QED
    BY <1>1, <2>1, MoveKeeps DEF Look, Places, Owing
<1>2. CASE Arm(o)
  BY <1>2, MoveKeeps DEF Arm, Places, Owing
<1>3. CASE Claim(o)
  <2>1. CASE Step(o, "armed", "idle") /\ UNCHANGED slot
    BY <1>3, <2>1, MoveKeeps DEF Claim, Places, Owing
  <2>2. CASE Step(o, "armed", "running") /\ slot' = TRUE
    BY <1>3, <2>2 DEF Claim, Step, SlotInv, SingleWorker, SlotIsOwed, Places
  <2> QED
    BY <1>3, <2>1, <2>2 DEF Claim
<1>4. CASE Finish(o)
  BY <1>4, FreeingKeeps DEF Finish, Step, SlotInv, SingleWorker, Places
<1>5. CASE EndOp(o)
  BY <1>5, MoveKeeps DEF EndOp, Places, Owing
<1>6. CASE Again(o)
  BY <1>6, FreeingKeeps DEF Again, Step, SlotInv, SingleWorker, Places
<1>7. CASE Gone(o)
  BY <1>7, MoveKeeps DEF Gone, Places, Owing
<1> QED
  BY <1>1, <1>2, <1>3, <1>4, <1>5, <1>6, <1>7 DEF Operate

(* Each step of the worker. *)
LEMMA WorkInv ==
    ASSUME SlotInv, Work
    PROVE  SlotInv'
<1> USE DEF WorkerStep, ops, watched, SingleWorker
<1>1. CASE Top
  BY <1>1, WorkerKeeps DEF Top, SlotInv
<1>2. CASE Wait
  BY <1>2, WorkerKeeps DEF Wait, SlotInv
<1>3. CASE Lock
  BY <1>3, WorkerKeeps DEF Lock, SlotInv
<1>4. CASE Try
  <2>1. CASE slot
    BY <1>4, <2>1, WorkerKeeps DEF Try, SlotInv, SlotIsOwed
  <2>2. CASE ~slot
    BY <1>4, <2>2 DEF Try, SlotInv, SlotIsOwed
  <2> QED
    BY <2>1, <2>2
<1>5. CASE Prune
  <2>1. CASE WorkerStep("refresh", "walk") /\ UNCHANGED slot
    BY <1>5, <2>1 DEF Prune, SlotInv, SlotIsOwed
  <2>2. CASE WorkerStep("refresh", "ended") /\ slot' = FALSE
    BY <1>5, <2>2, FreeingKeeps DEF Prune, SlotInv
  <2> QED
    BY <1>5, <2>1, <2>2 DEF Prune
<1>6. CASE Walk
  BY <1>6, FreeingKeeps DEF Walk, SlotInv
<1>7. CASE Unlock
  BY <1>7, WorkerKeeps DEF Unlock, SlotInv
<1>8. CASE Apply
  BY <1>8, WorkerKeeps DEF Apply, SlotInv
<1> QED
  BY <1>1, <1>2, <1>3, <1>4, <1>5, <1>6, <1>7, <1>8 DEF Work

(* A heartbeat that starts a worker finds none. *)
LEMMA NoteInv ==
    ASSUME SlotInv, NEW roots, Note(roots)
    PROVE  SlotInv'
<1>1. UNCHANGED <<slot, opAt>>
  BY DEF Note, ops
<1>2. CASE wAt' = wAt
  <2>1. SingleWorker'
    BY <1>2 DEF Note, SlotInv, SingleWorker
  <2> QED
    BY <1>1, <1>2, <2>1 DEF SlotInv, SlotIsOwed
<1>3. CASE queued' /\ ~queued
  <2>1. SingleWorker'
    BY <1>3 DEF Note, SlotInv, SingleWorker
  <2>2. wAt = "off"
    BY <1>3 DEF SlotInv, SingleWorker
  <2> QED
    BY <1>1, <2>1, <2>2 DEF SlotInv, SlotIsOwed
<1> QED
  BY <1>2, <1>3 DEF Note

(* What moves neither an operation nor the worker nor the slot. *)
LEMMA SlotRestKeeps ==
    ASSUME SlotInv, UNCHANGED <<slot, opAt, wAt, ready, queued>>
    PROVE  SlotInv'
BY DEF SlotInv, SingleWorker, SlotIsOwed

(* Every step keeps the invariant. *)
LEMMA SlotNextInv == SlotInv /\ [SlotNext]_slotVars => SlotInv'
<1> SUFFICES ASSUME SlotInv, [SlotNext]_slotVars PROVE SlotInv'
  OBVIOUS
<1> USE DEF ops, watched, worker
<1>1. CASE \E o \in Operations : Look(o) \/ Operate(o)
  BY <1>1, OperateInv
<1>2. CASE TakeGuard
  <2>1. CASE "download" \in Operations
    BY <1>2, <2>1, MoveKeeps DEF TakeGuard, Places, Owing
  <2>2. CASE "download" \notin Operations
    BY <1>2, <2>2, SlotRestKeeps DEF TakeGuard, Step, SlotInv
  <2> QED
    BY <2>1, <2>2
<1>3. CASE Judged
  <2>1. PICK to \in {"looked", "idle"} : Step("download", "asked", to)
    BY <1>3 DEF Judged
  <2>2. CASE "download" \in Operations
    BY <1>3, <2>1, <2>2, MoveKeeps DEF Judged, Places, Owing
  <2>3. CASE "download" \notin Operations
    BY <1>3, <2>1, <2>3, SlotRestKeeps DEF Judged, Step, SlotInv
  <2> QED
    BY <2>2, <2>3
<1>4. CASE Cancel
  BY <1>4, SlotRestKeeps DEF Cancel
<1>5. CASE \E roots \in SUBSET Roots : Configure(roots) \/ Note(roots)
  BY <1>5, NoteInv, SlotRestKeeps DEF Configure
<1>6. CASE Heartbeat
  BY <1>6, SlotRestKeeps DEF Heartbeat
<1>7. CASE Work
  BY <1>7, WorkInv
<1>8. CASE UNCHANGED slotVars
  BY <1>8, SlotRestKeeps DEF slotVars
<1> QED
  BY <1>1, <1>2, <1>3, <1>4, <1>5, <1>6, <1>7, <1>8 DEF SlotNext

(* A slot that is taken has its release before it (endOp, failOp or the    *)
(* deferred function), however the operations and the refresh interleave.  *)
THEOREM SlotOwed == SlotSpec => []SlotIsOwed
<1>1. SlotInv => SlotIsOwed
  BY DEF SlotInv
<1> QED
  BY SlotInitInv, SlotNextInv, <1>1, PTL DEF SlotSpec

(* The heartbeats never start a second worker beside one that is there. *)
THEOREM OneRefresher == SlotSpec => []SingleWorker
<1>1. SlotInv => SingleWorker
  BY DEF SlotInv
<1> QED
  BY SlotInitInv, SlotNextInv, <1>1, PTL DEF SlotSpec

-----------------------------------------------------------------------------
(***************************************************************************)
(* StopIsJustified is proved for any handles and any graces the assumption *)
(* admits.  A tick has two looks at the window, and a step of the desktop, *)
(* of the page or of the guard, which looks too, may come between any two  *)
(* of its steps.  What it knows when it decides:                           *)
(*   - a window that was there throughout is found, by its latched handle  *)
(*     when its title cannot be read (SteadyIsFound, SteadyIsPresent);     *)
(*   - neither counter is ahead of the ticks in a row that missed the      *)
(*     window, and a tick that misses it is one of them (Counted, Missed). *)
(***************************************************************************)
ThereAndFindable == window # NoWindow /\ (findable \/ hwnd = window)

SteadyIsFound == steady => ThereAndFindable
SteadyIsPresent == steady /\ tick = "decide" => present
Counted ==
    unseen < GoneTicks => missingTicks <= unseen /\ goneTicks <= unseen
Missed == tick = "decide" /\ ~present => unseen > 0

Ticks ==
    /\ missingTicks \in 0 .. Missing /\ goneTicks \in 0 .. missingTicks
    /\ unseen \in 0 .. GoneTicks

WatchInv == Ticks /\ SteadyIsFound /\ SteadyIsPresent /\ Counted /\ Missed

(* Nothing has been seen or missed in the beginning. *)
LEMMA WatchInit == Init => WatchInv
BY WatchdogAssumption
DEF Init, WatchInv, Ticks, SteadyIsFound, SteadyIsPresent, Counted, Missed

(* A look finds the window that is there and can be found, and latches it. *)
LEMMA LookFinds ==
    ASSUME observe, ThereAndFindable
    PROVE  Found /\ hwnd' = window
BY DEF observe, ThereAndFindable, Found, Valid, Replacement

(* A look leaves a window that can be found findable. *)
LEMMA LookKeeps ==
    ASSUME WatchInv, observe, UNCHANGED <<desktop, steady>>
    PROVE  SteadyIsFound'
BY LookFinds DEF WatchInv, SteadyIsFound, ThereAndFindable, desktop

(* The steps of the watchdog. *)
LEMMA WatchdogKeeps ==
    ASSUME WatchInv, WatchdogStep
    PROVE  WatchInv'
<1> USE WatchdogAssumption DEF watchdog
<1>1. CASE BeginTick
  <2>1. SteadyIsFound'
    BY <1>1 DEF BeginTick, SteadyIsFound, ThereAndFindable, Valid, desktop, latch
  <2> QED
    BY <1>1, <2>1 DEF BeginTick, WatchInv, Ticks, SteadyIsPresent, Counted, Missed
<1>2. CASE LookClosed
  <2>1. SteadyIsFound'
    BY <1>2, LookKeeps DEF LookClosed
  <2> QED
    BY <1>2, <2>1 DEF LookClosed, WatchInv, Ticks, SteadyIsPresent, Counted, Missed
<1>3. CASE LookPresent
  <2>1. SteadyIsFound'
    BY <1>3, LookKeeps DEF LookPresent
  <2>2. SteadyIsPresent'
    BY <1>3, LookFinds DEF LookPresent, WatchInv, SteadyIsFound, SteadyIsPresent
  <2>3. CASE Found
    BY <1>3, <2>1, <2>2, <2>3 DEF LookPresent, WatchInv, Ticks, Counted, Missed
  <2>4. CASE ~Found
    <3>1. Ticks'
      BY <1>3, <2>4 DEF LookPresent, WatchInv, Ticks
    <3>2. Counted'
      BY <1>3, <2>4 DEF LookPresent, WatchInv, Ticks, Counted
    <3>3. Missed'
      BY <1>3, <2>4 DEF LookPresent, WatchInv, Ticks, Missed
    <3> QED
      BY <2>1, <2>2, <3>1, <3>2, <3>3 DEF WatchInv
  <2> QED
    BY <2>3, <2>4
<1>4. CASE Decide
  BY <1>4 DEF Decide, WatchInv, Ticks, SteadyIsFound, ThereAndFindable,
     SteadyIsPresent, Counted, Missed, desktop, latch
<1> QED
  BY <1>1, <1>2, <1>3, <1>4 DEF WatchdogStep

(* Every step keeps the invariant: a look of the guard is like one of the  *)
(* watchdog, and a desktop that takes the window or its title away ends    *)
(* what was steady.                                                        *)
LEMMA WatchNext == WatchInv /\ [Next]_vars => WatchInv'
<1> SUFFICES ASSUME WatchInv, [Next]_vars PROVE WatchInv'
  OBVIOUS
<1> DEFINE Counters == UNCHANGED <<missingTicks, goneTicks, unseen, steady, present>>
<1>1. ASSUME Counters, UNCHANGED <<desktop, latch>>, tick' # "decide" \/ UNCHANGED tick
      PROVE  WatchInv'
  BY <1>1 DEF WatchInv, Ticks, SteadyIsFound, ThereAndFindable, SteadyIsPresent,
     Counted, Missed, desktop, latch
<1>2. CASE WatchdogStep
  BY <1>2, WatchdogKeeps
<1>3. CASE GuardLoad \/ Second \/ Beat \/ ExitHint \/ UNCHANGED vars
  <2>1. Counters /\ UNCHANGED <<desktop, latch>> /\ (tick' = "due" \/ UNCHANGED tick)
    BY <1>3 DEF GuardLoad, Second, Beat, ExitHint, vars, watchdog
  <2> QED
    BY <1>1, <2>1
<1>4. CASE GuardClears
  <2>1. SteadyIsFound'
    BY <1>4, LookKeeps DEF GuardClears, desktop
  <2> QED
    BY <1>4, <2>1 DEF GuardClears, watchdog, WatchInv, Ticks, SteadyIsPresent,
       Counted, Missed
<1>5. CASE Desktop
  <2>1. SteadyIsFound'
    BY <1>5 DEF Desktop, WatchInv, SteadyIsFound, ThereAndFindable, latch
  <2> QED
    BY <1>5, <2>1 DEF Desktop, watchdog, WatchInv, Ticks, SteadyIsPresent,
       Counted, Missed
<1> QED
  BY <1>2, <1>3, <1>4, <1>5 DEF Next

(* The backend stops only in a tick that did not find a window which could *)
(* have been found throughout, and, when the page has not said goodbye,    *)
(* after GoneTicks such ticks in a row.                                    *)
THEOREM StopJustified == Spec => StopIsJustified
<1>1. ASSUME WatchInv, [Next]_vars, stopped' /\ ~stopped
      PROVE  ~steady /\ (unseen >= GoneTicks
                           \/ (unseen > 0 /\ SaidGoodbye(NativeGrace)))
  <2>1. Decide
    BY <1>1 DEF Next, vars, watchdog, WatchdogStep, BeginTick, LookClosed,
       LookPresent, GuardLoad, GuardClears, Second, Beat, ExitHint, Desktop
  <2>2. ~present
    BY <1>1, <2>1 DEF Decide, shouldStopNativeWindowGone, shouldStopNativeClose,
       shouldStopUIWatchdog
  <2>3. ~steady /\ unseen > 0
    BY <1>1, <2>1, <2>2 DEF Decide, WatchInv, SteadyIsPresent, Missed
  <2>4. \/ goneTicks >= GoneTicks
        \/ SaidGoodbye(NativeGrace)
        \/ missingTicks >= Missing
    BY <1>1, <2>1 DEF Decide, shouldStopNativeWindowGone, shouldStopNativeClose,
       shouldStopUIWatchdog
  <2>5. ASSUME goneTicks >= GoneTicks \/ missingTicks >= Missing
        PROVE  unseen >= GoneTicks
    BY <1>1, <2>5, WatchdogAssumption DEF WatchInv, Ticks, Counted
  <2> QED
    BY <2>3, <2>4, <2>5
<1>2. WatchInv /\ [Next]_vars =>
        [stopped' /\ ~stopped =>
            /\ ~steady
            /\ unseen >= GoneTicks \/ (unseen > 0 /\ SaidGoodbye(NativeGrace))]_vars
  BY <1>1
<1> QED
  BY WatchInit, WatchNext, <1>2, PTL DEF Spec, StopIsJustified

=============================================================================
