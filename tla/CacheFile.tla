----------------------------- MODULE CacheFile -----------------------------
(***************************************************************************)
(* A media cache and its file: the local media metadata, image signature,  *)
(* audio segment and video fingerprint caches all keep Entries, Dirty and  *)
(* Generation under one mutex and save under a second one, SaveMu, with the*)
(* same code.  Generation is bumped by every change, so the version of the *)
(* entries stands for it.                                                  *)
(***************************************************************************)
EXTENDS ReplaceFile

VARIABLES
    entries,  \* the version of Entries, and their Generation
    dirty     \* Dirty

vars == <<fileVars, entries, dirty>>

TypeOK ==
    /\ FileTypeOK
    /\ entries \in Versions
    /\ dirty \in BOOLEAN

Init ==
    /\ FileInit
    /\ entries = 0
    /\ dirty = FALSE

(* cacheLocal...: an entry is added or pruned while savers are at work.    *)
Change ==
    /\ latest < MaxVersion
    /\ latest' = latest + 1
    /\ entries' = latest'
    /\ dirty' = TRUE
    /\ UNCHANGED <<disk, step, held>>

(* Faulty variant: SaveMu is not taken. *)
BeginSave_Unserialised(s) ==
    /\ Idle(s)
    /\ dirty
    /\ held' = [held EXCEPT ![s] = entries]
    /\ Goto(s, "open")
    /\ UNCHANGED <<disk, latest, entries, dirty>>

(* Faulty variant: entries that are clean are written all the same.        *)
BeginSave_CleanToo(s) ==
    /\ \A t \in Savers : Idle(t)
    /\ held' = [held EXCEPT ![s] = entries]
    /\ Goto(s, "open")
    /\ UNCHANGED <<disk, latest, entries, dirty>>

(* SaveMu is taken and the entries are copied; clean entries are not saved.*)
BeginSave(s) ==
    /\ \A t \in Savers : Idle(t)
    /\ dirty
    /\ held' = [held EXCEPT ![s] = entries]
    /\ Goto(s, "open")
    /\ UNCHANGED <<disk, latest, entries, dirty>>

SaveStep(s) == FileStep(s) /\ UNCHANGED <<entries, dirty>>

(* Faulty variant: a change made during the save is forgotten. *)
EndSave_AlwaysClean(s) ==
    /\ step[s] = "replaced"
    /\ dirty' = FALSE
    /\ Goto(s, "idle")
    /\ UNCHANGED <<disk, held, latest, entries>>

(* Only the generation that was copied is marked clean. *)
EndSave(s) ==
    /\ step[s] = "replaced"
    /\ dirty' = (dirty /\ entries # held[s])
    /\ Goto(s, "idle")
    /\ UNCHANGED <<disk, held, latest, entries>>

(* The process ends, at any point of a save, and the next one loads. *)
Restart ==
    /\ SaversDie
    /\ entries' = Loaded(disk["path"])
    /\ dirty' = FALSE
    /\ UNCHANGED latest

Next ==
    \/ Change
    \/ \E s \in Savers : BeginSave(s) \/ SaveStep(s) \/ EndSave(s)
    \/ Restart

Spec == Init /\ [][Next]_vars

-----------------------------------------------------------------------------
(* Properties *)

(* Whatever fails and whenever the process dies, the cache file is never   *)
(* half written: it is absent or decodes to entries the cache has held.    *)
FileIsIntact == disk["path"] \in Versions \cup {Missing}

(* A cache that is not dirty is exactly what a restart would load, even    *)
(* when entries were added while a save was under way.                     *)
CleanIsStored == ~dirty => Loaded(disk["path"]) = entries

(* What the file, or the copy set aside in the middle of a replacement,    *)
(* still holds.                                                            *)
Stored ==
    IF disk["path"] # Missing THEN disk["path"]
    ELSE IF \E s \in Savers : step[s] \in {"swap", "rollback"} THEN disk["old"]
    ELSE Missing

(* The cache and its file implement a durable value: the file never goes   *)
(* back to older entries, and is only ever lost while the cache is dirty.  *)
Value == INSTANCE DurableValue WITH
            None <- Missing, value <- entries, newest <- latest,
            stored <- Stored, clean <- ~dirty
ImplementsDurableValue == Value!Spec

=============================================================================
