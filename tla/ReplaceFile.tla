---------------------------- MODULE ReplaceFile ----------------------------
(***************************************************************************)
(* How the program replaces a JSON file: os.WriteFile into <path>.tmp and  *)
(* then replaceCacheFileV85 (media_meta_cache.go).  Every file system call *)
(* is one step and may fail; a failure changes nothing unless said.  The   *)
(* savers of one file share its .tmp and its .old.  Who may save, and when,*)
(* is the business of the modules that use this one: CacheFile (savers     *)
(* serialised by SaveMu) and QueueFile (savers that are not).              *)
(***************************************************************************)
EXTENDS FileContents

VARIABLES
    disk,    \* what <path>, <path>.tmp and <path>.old hold
    step,    \* where a saver is
    held,    \* the version a saver serialised
    latest   \* the last version produced

fileVars == <<disk, step, held, latest>>

Steps == {"idle", "snapshot", "open", "write", "rename", "backup", "stat", "aside",
          "swap", "rollback", "cleanup", "last", "replaced"}

FileTypeOK ==
    /\ disk \in [{"path", "tmp", "old"} -> Contents]
    /\ step \in [Savers -> Steps]
    /\ held \in [Savers -> Versions]
    /\ latest \in Versions

FileInit ==
    /\ disk = [f \in {"path", "tmp", "old"} |-> Missing]
    /\ step = [s \in Savers |-> "idle"]
    /\ held = [s \in Savers |-> 0]
    /\ latest = 0

Goto(s, l) == step' = [step EXCEPT ![s] = l]
Idle(s) == step[s] = "idle"

(* A saver at "write" has the temporary file open, which Go opens on       *)
(* Windows without FILE_SHARE_DELETE: it cannot be renamed then.           *)
Renamable(f) ==
    /\ disk[f] # Missing
    /\ f = "tmp" => \A s \in Savers : step[s] # "write"

Rename(f, g) ==
    /\ Renamable(f)
    /\ disk' = [disk EXCEPT ![g] = disk[f], ![f] = Missing]

Unlink(f) == disk' = [disk EXCEPT ![f] = Missing]

(* One call with its two outcomes: it succeeds and the saver goes on at    *)
(* yes, or it fails and the saver goes on at no.                           *)
Try(s, at, Call, yes, no) ==
    /\ step[s] = at
    /\ \/ Call /\ Goto(s, yes)
       \/ Goto(s, no) /\ UNCHANGED disk
    /\ UNCHANGED <<held, latest>>

-----------------------------------------------------------------------------
(* os.WriteFile: an error ends the save. *)

OpenTmp(s) == Try(s, "open", disk' = [disk EXCEPT !["tmp"] = Empty], "write", "idle")

(* Two savers that have the file open both write from its start: the one   *)
(* that comes second leaves a mixture unless it covers the first.  A write *)
(* that fails half way leaves the file torn.                               *)
WriteTmp(s) ==
    /\ step[s] = "write"
    /\ \/ /\ \E c \in IF disk["tmp"] = Empty THEN {held[s]} ELSE {held[s], Torn} :
                disk' = [disk EXCEPT !["tmp"] = c]
          /\ Goto(s, "rename")
       \/ disk' = [disk EXCEPT !["tmp"] = Torn] /\ Goto(s, "idle")
    /\ UNCHANGED <<held, latest>>

-----------------------------------------------------------------------------
(* replaceCacheFileV85 *)

RenameTmp(s) == Try(s, "rename", Rename("tmp", "path"), "replaced", "backup")

RemoveBackup(s) == Try(s, "backup", Unlink("old"), "stat", "stat")

StatPath(s) ==
    /\ step[s] = "stat"
    /\ Goto(s, IF disk["path"] = Missing THEN "last" ELSE "aside")
    /\ UNCHANGED <<disk, held, latest>>

MoveAside(s) == Try(s, "aside", Rename("path", "old"), "swap", "idle")

SwapIn(s) == Try(s, "swap", Rename("tmp", "path"), "cleanup", "rollback")

RollBack(s) == Try(s, "rollback", Rename("old", "path"), "idle", "idle")

DropBackup(s) == Try(s, "cleanup", Unlink("old"), "replaced", "replaced")

RenameLast(s) == Try(s, "last", Rename("tmp", "path"), "replaced", "idle")

FileStep(s) ==
    \/ OpenTmp(s) \/ WriteTmp(s) \/ RenameTmp(s) \/ RemoveBackup(s) \/ StatPath(s)
    \/ MoveAside(s) \/ SwapIn(s) \/ RollBack(s) \/ DropBackup(s) \/ RenameLast(s)

(* The process ends: its savers are gone, the files stay.                  *)
SaversDie ==
    /\ step' = [s \in Savers |-> "idle"]
    /\ held' = [s \in Savers |-> 0]
    /\ UNCHANGED disk

=============================================================================
