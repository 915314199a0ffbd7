-------------------------- MODULE ExclusiveSession --------------------------
(***************************************************************************)
(* What megaSessionGate promises (mega_session.go, README.md:24): MEGAcmd  *)
(* has one session, it changes hands only when free, and nobody but the    *)
(* operation that holds the gate logs in or out.                           *)
(***************************************************************************)
CONSTANTS
    Procs,     \* the operations that use MEGAcmd
    Free,      \* nobody holds the gate
    Sessions   \* what MEGAcmd can be logged in to

VARIABLES
    gate,      \* who holds the gate
    session    \* what MEGAcmd is logged in to

Init == gate = Free /\ session \in Sessions

Take(p) == gate = Free /\ gate' = p /\ UNCHANGED session
Command(p) == gate = p /\ session' \in Sessions /\ UNCHANGED gate
GiveBack(p) == gate = p /\ gate' = Free /\ UNCHANGED session

Next == \E p \in Procs : Take(p) \/ Command(p) \/ GiveBack(p)

Spec == Init /\ [][Next]_<<gate, session>>

=============================================================================
