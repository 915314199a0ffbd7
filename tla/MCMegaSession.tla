--------------------------- MODULE MCMegaSession ---------------------------
(* The model-checking instance of MegaSession.  Each folder has one file,  *)
(* which goes by the folder's name, so that folders can be exchanged.      *)
EXTENDS MegaSession, FiniteSets, TLC

CONSTANTS A, B

MCUrlOf == [i \in Items |-> i]
Exchange == Permutations(Urls)

(* At most MaxBegun of the selections, the scan, the download, the stop, the*)
(* preview started outside the controller and the shutdown take part in one *)
(* behaviour: any of them, in any order.                                    *)
CONSTANT MaxBegun
Few == Cardinality({p \in Procs : pc[p] # "idle"}) <= MaxBegun

=============================================================================
