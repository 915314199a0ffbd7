---------------------------- MODULE FileContents ----------------------------
(***************************************************************************)
(* What a JSON file of the program can hold, as far as replacing and       *)
(* loading it tell contents apart.                                         *)
(***************************************************************************)
EXTENDS Integers

CONSTANTS
    Savers,      \* goroutines that save the file
    MaxVersion,  \* bound on the contents ever produced
    Missing,     \* there is no such file
    Empty,       \* truncated by an open, not written yet
    Torn         \* not what any saver meant to write

ASSUME ReplaceAssumption ==
    /\ MaxVersion \in Nat
    /\ {Missing, Empty, Torn} \cap Nat = {}
    /\ Missing # Empty /\ Missing # Torn /\ Empty # Torn

(* A version stands for the contents of the file after one more change;    *)
(* version 0 is the empty table.                                           *)
Versions == 0 .. MaxVersion
Contents == Versions \cup {Missing, Empty, Torn}

(* What a load makes of the file: a missing file, or one that does not     *)
(* decode, is an empty table.  <path>.tmp and <path>.old are not looked at.*)
Loaded(c) == IF c \in Versions THEN c ELSE 0

=============================================================================
