--------------------------- MODULE MCDownloadQueue ---------------------------
(* Model-checking definitions for DownloadQueue. *)
EXTENDS DownloadQueue, TLC

(* Workers are interchangeable: they differ only in what they are doing. *)
WorkerSymmetry == Permutations(Workers)

=============================================================================
