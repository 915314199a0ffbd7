---------------------------- MODULE DurableValue ----------------------------
(***************************************************************************)
(* What a cache with a file behind it promises.  The value in memory       *)
(* changes; now and then the stored copy catches up with some value the    *)
(* memory has had, never with an older one than it holds.  While the value *)
(* is clean the copy is the value.  The copy may be lost altogether while  *)
(* the value is not clean; it is never damaged.                            *)
(***************************************************************************)
EXTENDS Integers

CONSTANTS
    MaxVersion,  \* bound on the values
    None         \* nothing is stored

VARIABLES
    value,   \* the value in memory
    newest,  \* the last value produced
    stored,  \* what a restart would find
    clean    \* the value is known to be stored

vars == <<value, newest, stored, clean>>

Reload(c) == IF c = None THEN 0 ELSE c

Init ==
    /\ value = 0
    /\ newest = 0
    /\ stored = None
    /\ clean = TRUE

Change ==
    /\ newest < MaxVersion
    /\ newest' = newest + 1
    /\ value' = newest'
    /\ clean' = FALSE
    /\ UNCHANGED stored

Commit ==
    /\ ~clean
    /\ stored' \in 1 .. value
    /\ stored # None => stored < stored'
    /\ UNCHANGED <<value, newest, clean>>

Acknowledge ==
    /\ stored = value
    /\ clean' = TRUE
    /\ UNCHANGED <<value, newest, stored>>

Lose ==
    /\ ~clean
    /\ stored' = None
    /\ UNCHANGED <<value, newest, clean>>

Restart ==
    /\ stored' = stored \/ (~clean /\ stored' = None)
    /\ value' = Reload(stored')
    /\ clean' = TRUE
    /\ UNCHANGED newest

Next == Change \/ Commit \/ Acknowledge \/ Lose \/ Restart

Spec == Init /\ [][Next]_vars

=============================================================================
