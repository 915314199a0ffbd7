-------------------------- MODULE MCPersistedState --------------------------
(* The model-checking instance of PersistedState. *)
EXTENDS PersistedState

(* Once they have become true, intruded and defeated stay so, and what the *)
(* passing runs check is not claimed any more: such states are not         *)
(* explored further.                                                       *)
Undisturbed == ~intruded /\ ~defeated

=============================================================================
