----------------------------- MODULE UIWatchdog -----------------------------
(***************************************************************************)
(* When the backend stops because its window was closed (lifecycle.go,     *)
(* lifecycle_false_hint_guard, ui_window_cleanup).  The page reports a     *)
(* heartbeat and, when it is hidden, an exit hint; both handlers write     *)
(* atomics that the watchdog and the false-hint guard read, once a second  *)
(* each, while they look for the native window.  The handle of a window    *)
(* that was found is latched: IsWindow answers for it reliably, while the  *)
(* search by title, used when no valid handle is latched, may miss.        *)
(***************************************************************************)
EXTENDS Naturals

CONSTANTS
    Windows,      \* handles of the windows Edge opens for the program
    NoWindow,
    NativeGrace,  \* uiNativeCloseGraceV85122, in seconds
    GoneTicks,    \* uiNativeWindowGoneTicksV85132
    FalseGrace,   \* uiFalseExitHintGraceV85117
    HintAge,      \* the 30 s of the slow fallback
    Missing       \* uiWatchdogMissingWindowTicksV85112

(* What the values in the code have in common. *)
ASSUME WatchdogAssumption ==
    /\ NoWindow \notin Windows
    /\ NativeGrace \in Nat \ {0} /\ GoneTicks \in Nat \ {0}
    /\ FalseGrace \in Nat /\ HintAge \in Nat /\ Missing \in Nat
    /\ NativeGrace < FalseGrace /\ FalseGrace < HintAge
    /\ GoneTicks < Missing

NoHint == HintAge + 2

VARIABLES
    (* the desktop *)
    window,       \* the program's window, if there is one
    findable,     \* whether the search by title finds it
    (* the atomics of the page *)
    uiSeen,
    hint,         \* age of uiExitHintNS, or NoHint; ages stop at HintAge + 1
    newerBeat,    \* uiHeartbeatNS > uiExitHintNS
    beating,      \* how far a heartbeat handler has come
    (* the latch *)
    hwnd, latched, destroyed,
    (* the watchdog *)
    tick,
    sawNewerBeat, \* newerBeat when the tick loaded uiHeartbeatNS
    gone,         \* exactWindowDestroyed
    present,      \* windowPresent
    missingTicks, goneTicks,
    stopped,      \* appStopOnce has fired
    (* the false-hint guard *)
    guard,        \* the hint it loaded: none, the present one, or one since replaced
    (* history *)
    steady,       \* the window was there, for whom it was latched or findable, since the tick began
    unseen        \* ticks in a row that did not find the window, up to GoneTicks

desktop == <<window, findable>>
page == <<uiSeen, hint, newerBeat, beating>>
latch == <<hwnd, latched, destroyed>>
watchdog == <<tick, sawNewerBeat, gone, present, missingTicks, goneTicks, stopped>>
vars == <<desktop, page, latch, watchdog, guard, steady, unseen>>

TypeOK ==
    /\ window \in Windows \cup {NoWindow}
    /\ findable \in BOOLEAN
    /\ uiSeen \in BOOLEAN /\ hint \in 0 .. NoHint /\ newerBeat \in BOOLEAN
    /\ beating \in {"idle", "stored", "seen"}
    /\ hwnd \in Windows \cup {NoWindow}
    /\ latched \in BOOLEAN /\ destroyed \in BOOLEAN
    /\ tick \in {"due", "closed", "present", "decide", "wait"}
    /\ sawNewerBeat \in BOOLEAN /\ gone \in BOOLEAN /\ present \in BOOLEAN
    /\ missingTicks \in 0 .. Missing /\ goneTicks \in 0 .. Missing
    /\ stopped \in BOOLEAN
    /\ guard \in {"due", "same", "replaced", "wait"}
    /\ steady \in BOOLEAN /\ unseen \in 0 .. GoneTicks

Init ==
    /\ window = NoWindow /\ findable = FALSE
    /\ uiSeen = FALSE /\ hint = NoHint /\ newerBeat = FALSE /\ beating = "idle"
    /\ hwnd = NoWindow /\ latched = FALSE /\ destroyed = FALSE
    /\ tick = "wait" /\ sawNewerBeat = FALSE /\ gone = FALSE /\ present = FALSE
    /\ missingTicks = 0 /\ goneTicks = 0 /\ stopped = FALSE
    /\ guard = "wait" /\ steady = FALSE /\ unseen = 0

-----------------------------------------------------------------------------
(* The latch: every look at the window is one call of observe under mu. *)

Valid == hwnd # NoWindow /\ hwnd = window
Replacement == IF ~Valid /\ findable THEN window ELSE NoWindow
Found == Valid \/ Replacement # NoWindow

(* Faulty variant: the destruction is forgotten with the handle. *)
observe_Forgets ==
    /\ hwnd' = IF Valid THEN hwnd ELSE Replacement
    /\ latched' = (latched \/ hwnd # NoWindow \/ Found)
    /\ destroyed' = (hwnd # NoWindow /\ ~Found)

observe ==
    /\ hwnd' = IF Valid THEN hwnd ELSE Replacement
    /\ latched' = (latched \/ hwnd # NoWindow \/ Found)
    /\ destroyed' = IF Found THEN FALSE ELSE destroyed \/ hwnd # NoWindow

DefinitelyClosed == latched' /\ hwnd' = NoWindow /\ destroyed'

-----------------------------------------------------------------------------
(* The watchdog *)

BeginTick ==
    /\ tick = "due"
    /\ ~stopped
    /\ tick' = IF uiSeen THEN "closed" ELSE "wait"
    /\ sawNewerBeat' = newerBeat
    /\ steady' = (window # NoWindow /\ (Valid \/ findable))
    /\ UNCHANGED <<desktop, page, latch, gone, present, missingTicks, goneTicks,
                   stopped, guard, unseen>>

LookClosed ==
    /\ tick = "closed"
    /\ observe
    /\ gone' = DefinitelyClosed
    /\ tick' = "present"
    /\ UNCHANGED <<desktop, page, sawNewerBeat, present, missingTicks, goneTicks,
                   stopped, guard, steady, unseen>>

(* Faulty variant: a tick that finds the window leaves its counter alone. *)
LookPresent_KeepsCount ==
    /\ tick = "present"
    /\ observe
    /\ present' = Found
    /\ IF Found
       THEN missingTicks' = 0 /\ UNCHANGED goneTicks
       ELSE IF missingTicks < Missing
            THEN /\ missingTicks' = missingTicks + 1
                 /\ goneTicks' = IF gone THEN goneTicks + 1 ELSE 0
            ELSE UNCHANGED <<missingTicks, goneTicks>>
    /\ unseen' = IF Found THEN 0 ELSE IF unseen < GoneTicks THEN unseen + 1 ELSE unseen
    /\ tick' = "decide"
    /\ UNCHANGED <<desktop, page, sawNewerBeat, gone, stopped, guard, steady>>

LookPresent ==
    /\ tick = "present"
    /\ observe
    /\ present' = Found
    /\ IF Found
       THEN missingTicks' = 0 /\ goneTicks' = 0
       ELSE IF missingTicks < Missing
            THEN /\ missingTicks' = missingTicks + 1
                 /\ goneTicks' = IF gone THEN goneTicks + 1 ELSE 0
            ELSE UNCHANGED <<missingTicks, goneTicks>>
    /\ unseen' = IF Found THEN 0 ELSE IF unseen < GoneTicks THEN unseen + 1 ELSE unseen
    /\ tick' = "decide"
    /\ UNCHANGED <<desktop, page, sawNewerBeat, gone, stopped, guard, steady>>

(* The page said goodbye, and its last heartbeat is older. *)
SaidGoodbye(age) == hint # NoHint /\ ~sawNewerBeat /\ hint >= age

shouldStopNativeWindowGone == ~present /\ gone /\ goneTicks >= GoneTicks
shouldStopNativeClose == ~present /\ gone /\ SaidGoodbye(NativeGrace)
shouldStopUIWatchdog ==
    ~present /\ missingTicks >= Missing /\ SaidGoodbye(HintAge + 1)

Decide ==
    /\ tick = "decide"
    /\ stopped' = (\/ shouldStopNativeWindowGone
                   \/ shouldStopNativeClose
                   \/ shouldStopUIWatchdog)
    /\ tick' = "wait"
    /\ UNCHANGED <<desktop, page, latch, sawNewerBeat, gone, present, missingTicks,
                   goneTicks, guard, steady, unseen>>

WatchdogStep == BeginTick \/ LookClosed \/ LookPresent \/ Decide

-----------------------------------------------------------------------------
(* The false-hint guard: load, look, compare and swap. *)

GuardLoad ==
    /\ guard = "due"
    /\ guard' = IF hint = NoHint THEN "wait" ELSE "same"
    /\ UNCHANGED <<desktop, page, latch, watchdog, steady, unseen>>

GuardClears ==
    /\ guard \in {"same", "replaced"}
    /\ observe
    /\ hint' = IF Found /\ guard = "same" /\ hint >= FalseGrace THEN NoHint ELSE hint
    /\ guard' = "wait"
    /\ UNCHANGED <<desktop, uiSeen, newerBeat, beating, watchdog, steady, unseen>>

(* A second passes when both loops have done their tick. *)
Second ==
    /\ tick = "wait" /\ guard = "wait"
    /\ tick' = "due" /\ guard' = "due"
    /\ hint' = IF hint <= HintAge THEN hint + 1 ELSE hint
    /\ UNCHANGED <<desktop, uiSeen, newerBeat, beating, latch, sawNewerBeat, gone,
                   present, missingTicks, goneTicks, stopped, steady, unseen>>

-----------------------------------------------------------------------------
(* The page *)

(* A heartbeat stores its time, then that a page was seen, and takes the   *)
(* hint back.                                                              *)
Beat ==
    /\ beating' = CASE beating = "idle" -> "stored"
                    [] beating = "stored" -> "seen"
                    [] beating = "seen" -> "idle"
    /\ newerBeat' = (newerBeat \/ beating = "idle")
    /\ uiSeen' = (uiSeen \/ beating = "stored")
    /\ hint' = IF beating = "seen" THEN NoHint ELSE hint
    /\ guard' = IF beating = "seen" /\ guard = "same" THEN "replaced" ELSE guard
    /\ UNCHANGED <<desktop, latch, watchdog, steady, unseen>>

ExitHint ==
    /\ uiSeen
    /\ hint' = 0
    /\ newerBeat' = FALSE
    /\ sawNewerBeat' = FALSE
    /\ guard' = IF guard = "same" THEN "replaced" ELSE guard
    /\ UNCHANGED <<desktop, uiSeen, beating, latch, tick, gone, present, missingTicks,
                   goneTicks, stopped, steady, unseen>>

(* The desktop: Edge opens, retitles, and destroys windows. *)
Desktop ==
    /\ \/ window = NoWindow /\ window' \in Windows /\ findable' \in BOOLEAN
       \/ window # NoWindow /\ window' = NoWindow /\ findable' = FALSE
       \/ window # NoWindow /\ UNCHANGED window /\ findable' = ~findable
    /\ steady' = (steady /\ window' = window /\ (findable' \/ hwnd = window))
    /\ UNCHANGED <<page, latch, watchdog, guard, unseen>>

Next ==
    /\ ~stopped
    /\ \/ WatchdogStep
       \/ GuardLoad \/ GuardClears
       \/ Second
       \/ Beat \/ ExitHint
       \/ Desktop

(* Time passes, and the loops and a handler that has begun get their turn. *)
Fairness ==
    /\ WF_vars(~stopped /\ WatchdogStep)
    /\ WF_vars(~stopped /\ (GuardLoad \/ GuardClears))
    /\ WF_vars(~stopped /\ Second)

Spec == Init /\ [][Next]_vars /\ Fairness

-----------------------------------------------------------------------------
(* Properties *)

(* The backend is stopped neither by a renderer that went quiet, reloaded  *)
(* or left a hint behind, nor by a title that could not be read now and    *)
(* then: not in a tick throughout which the window could be found, and,    *)
(* unless the page has said goodbye, only after the window was missed for  *)
(* GoneTicks ticks in a row, none of which found it.                       *)
StopIsJustified ==
    [][stopped' /\ ~stopped =>
        /\ ~steady
        /\ unseen >= GoneTicks \/ (unseen > 0 /\ SaidGoodbye(NativeGrace))]_vars

(* A window the watchdog has found and that is closed for good stops the   *)
(* backend, beacon or no beacon, whatever heartbeats other pages send.     *)
ClosedWindowStops ==
    (present /\ tick = "wait" /\ uiSeen) ~> (stopped \/ window # NoWindow)

=============================================================================
