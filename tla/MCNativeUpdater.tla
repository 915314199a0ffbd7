-------------------------- MODULE MCNativeUpdater ---------------------------
(* Model-checking module for NativeUpdater. *)
EXTENDS NativeUpdater
=============================================================================
