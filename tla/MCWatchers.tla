----------------------------- MODULE MCWatchers -----------------------------
(***************************************************************************)
(* The model-checking instance of the two specifications of what runs in   *)
(* the background on timers: the watchdog of the window, and the refresh of*)
(* the index in the operation slot.  They share no state: each behaviour is*)
(* one of one of them, which "of" names, and the variables of the other    *)
(* stay as they begin.  The fairness is that of the two.                   *)
(***************************************************************************)
EXTENDS UIWatchdog, OperationSlot

VARIABLE of

Watchdog(A) == of = "watchdog" /\ A /\ UNCHANGED <<of, slotVars>>
Slot(A) == of = "slot" /\ A /\ UNCHANGED <<of, vars>>

MCInit == Init /\ SlotInit /\ of \in {"watchdog", "slot"}

MCNext == Watchdog(Next) \/ Slot(SlotNext)

all == <<vars, slotVars, of>>

(* A behaviour takes no steps of the other specification, so that one      *)
(* condition of fairness can stand for two.                                *)
MCFairness ==
    /\ WF_all(Watchdog(~stopped /\ WatchdogStep) \/ Slot(Work))
    /\ WF_all(Watchdog(~stopped /\ (GuardLoad \/ GuardClears)) \/ Slot(Heartbeat))
    /\ WF_all(Watchdog(~stopped /\ Second) \/ Slot(Notes))
    /\ \A o \in Operations : WF_all(Slot(Goes(o)))

MCSpec == MCInit /\ [][MCNext]_all /\ MCFairness

FoldersAreApplied == of = "slot" => FoldersApplied

=============================================================================
