----------------------------- MODULE FileProofs -----------------------------
(***************************************************************************)
(* Proofs about what the program keeps in files: the media caches          *)
(* (CacheFile), the queue (QueueFile) and the history of downloads         *)
(* (HistoryRegistry).                                                      *)
(***************************************************************************)
EXTENDS CacheFile, QueueFile, HistoryRegistry, TLAPS

-----------------------------------------------------------------------------
(***************************************************************************)
(* The media caches, for any number of savers and of versions: the cache   *)
(* file is never torn, a clean cache is stored, and the cache with its file*)
(* implements DurableValue.  The argument: SaveMu leaves at most one saver *)
(* between "open" and "replaced" (Serialised), so what the shared files    *)
(* hold is known from where that one saver is (Progress).                  *)
(***************************************************************************)
Serialised == \A s, t \in Savers : ~Idle(s) /\ ~Idle(t) => s = t

(* Nothing is newer than the last version produced.                        *)
Bounds ==
    /\ entries <= latest
    /\ disk["path"] \in Versions => disk["path"] <= latest

(* A saver at work saves entries the cache has or had, of a dirty cache.   *)
Work ==
    \A s \in Savers : ~Idle(s) =>
        /\ dirty
        /\ 1 <= held[s] /\ held[s] <= entries
        /\ step[s] # "snapshot"

(* What each step of a save finds in the files.                            *)
Progress ==
    \A s \in Savers :
        /\ step[s] = "write" => disk["tmp"] = Empty
        /\ step[s] \in {"rename", "backup", "stat", "aside", "swap", "last"}
                => disk["tmp"] = held[s]
        /\ step[s] = "aside" => disk["path"] # Missing
        /\ step[s] \in {"swap", "rollback"}
                => disk["path"] = Missing /\ disk["old"] \in Versions /\ disk["old"] < held[s]
        /\ step[s] = "last" => disk["path"] = Missing
        /\ step[s] \in {"cleanup", "replaced"} => disk["path"] = held[s]
        /\ step[s] \in {"open", "write", "rename", "backup", "stat", "aside"}
                => (disk["path"] \in Versions => disk["path"] < held[s])

(* A dirty cache is ahead of its file, unless a saver has just replaced it.*)
DirtyIsAhead ==
    dirty => /\ 1 <= entries
             /\ disk["path"] \in Versions =>
                    \/ disk["path"] < entries
                    \/ \E s \in Savers : step[s] \in {"cleanup", "replaced"}

Inv ==
    /\ TypeOK
    /\ Serialised
    /\ Bounds
    /\ FileIsIntact
    /\ CleanIsStored
    /\ Work
    /\ Progress
    /\ DirtyIsAhead

-----------------------------------------------------------------------------
(* The invariant holds *)

(* A state of the file and of the savers is well typed. *)
USE DEF Steps, Contents, Versions

(* What is not a version. *)
LEMMA NotVersions ==
    /\ Missing \notin Versions /\ Empty \notin Versions /\ Torn \notin Versions
    /\ 0 \in Versions
  BY ReplaceAssumption

(* Where nobody saves nothing is asked of a saver.                         *)
LEMMA AllIdle ==
    ASSUME \A s \in Savers : step[s] = "idle"
    PROVE  Serialised /\ Work /\ Progress
  BY DEF Serialised, Work, Progress, Idle

(* At the start nothing is stored and nobody saves. *)
LEMMA InvInit == Init => Inv
<1>. SUFFICES ASSUME Init PROVE Inv
  OBVIOUS
<1>. USE DEF Init, FileInit
<1>1. TypeOK
  <2>1. disk \in [{"path", "tmp", "old"} -> Contents] /\ step \in [Savers -> Steps]
    OBVIOUS
  <2>2. held \in [Savers -> Versions] /\ latest \in Versions /\ entries \in Versions
    BY NotVersions
  <2>. QED
    BY <2>1, <2>2 DEF TypeOK, FileTypeOK
<1>2. FileIsIntact /\ CleanIsStored
  BY NotVersions DEF FileIsIntact, CleanIsStored, Loaded
<1>3. Serialised /\ Work /\ Progress
  BY AllIdle
<1>4. Bounds /\ DirtyIsAhead
  BY NotVersions DEF Bounds, DirtyIsAhead
<1>. QED
  BY <1>1, <1>2, <1>3, <1>4 DEF Inv

(* While one saver works all the others are idle. *)
LEMMA OneSaver ==
    ASSUME Serialised, NEW s \in Savers, ~Idle(s)
    PROVE  \A t \in Savers : t # s => Idle(t)
  BY DEF Serialised

(* A file step keeps the types and the bounds that speak of no other saver.*)
LEMMA FileSteps ==
    ASSUME Inv, NEW s \in Savers, SaveStep(s)
    PROVE  Inv'
<1>1. ~Idle(s)
  BY DEF SaveStep, FileStep, OpenTmp, WriteTmp, RenameTmp, RemoveBackup, StatPath, MoveAside,
     SwapIn, RollBack, DropBackup, RenameLast, Try, Idle
<1>2. \A t \in Savers : t # s => Idle(t)
  BY <1>1, OneSaver DEF Inv
<1>. USE ReplaceAssumption DEF Inv, TypeOK, FileTypeOK, Serialised, Idle, Bounds, FileIsIntact,
     CleanIsStored, Loaded, Work, Progress, DirtyIsAhead, SaveStep, Goto
<1>3. CASE OpenTmp(s)
  BY <1>1, <1>2, <1>3 DEF OpenTmp, Try
<1>4. CASE WriteTmp(s)
  BY <1>1, <1>2, <1>4 DEF WriteTmp
<1>5. CASE RenameTmp(s)
  BY <1>1, <1>2, <1>5 DEF RenameTmp, Try, Rename, Renamable
<1>6. CASE RemoveBackup(s)
  BY <1>1, <1>2, <1>6 DEF RemoveBackup, Try, Unlink
<1>7. CASE StatPath(s)
  BY <1>1, <1>2, <1>7 DEF StatPath
<1>8. CASE MoveAside(s)
  BY <1>1, <1>2, <1>8 DEF MoveAside, Try, Rename, Renamable
<1>9. CASE SwapIn(s)
  BY <1>1, <1>2, <1>9 DEF SwapIn, Try, Rename, Renamable
<1>10. CASE RollBack(s)
  BY <1>1, <1>2, <1>10 DEF RollBack, Try, Rename, Renamable
<1>11. CASE DropBackup(s)
  BY <1>1, <1>2, <1>11 DEF DropBackup, Try, Unlink
<1>12. CASE RenameLast(s)
  BY <1>1, <1>2, <1>12 DEF RenameLast, Try, Rename, Renamable
<1>. QED
  BY <1>3, <1>4, <1>5, <1>6, <1>7, <1>8, <1>9, <1>10, <1>11, <1>12 DEF FileStep

(* Every step keeps the invariant. *)
LEMMA InvStep == Inv /\ [Next]_vars => Inv'
<1>. SUFFICES ASSUME Inv, [Next]_vars PROVE Inv'
  OBVIOUS
<1>1. CASE Change
  BY <1>1, ReplaceAssumption DEF Change, Inv, TypeOK, FileTypeOK, Serialised, Idle, Bounds,
     FileIsIntact, CleanIsStored, Loaded, Work, Progress, DirtyIsAhead
<1>2. ASSUME NEW s \in Savers, BeginSave(s) PROVE Inv'
  BY <1>2, ReplaceAssumption DEF BeginSave, Goto, Inv, TypeOK, FileTypeOK, Serialised, Idle,
     Bounds, FileIsIntact, CleanIsStored, Loaded, Work, Progress, DirtyIsAhead
<1>3. ASSUME NEW s \in Savers, SaveStep(s) PROVE Inv'
  BY <1>3, FileSteps
<1>4. ASSUME NEW s \in Savers, EndSave(s) PROVE Inv'
  <2>. USE <1>4 DEF EndSave, Goto
  <2>1. \A t \in Savers : t # s => step[t] = "idle"
    BY OneSaver DEF Inv, Idle
  <2>2. \A t \in Savers : step'[t] = "idle"
    BY <2>1 DEF Inv, TypeOK, FileTypeOK
  <2>3. /\ dirty /\ disk["path"] = held[s]
        /\ 1 <= held[s] /\ held[s] <= entries
        /\ held[s] \in Versions /\ entries \in Versions
    BY DEF Inv, TypeOK, FileTypeOK, Work, Progress, Idle
  <2>4. (Serialised /\ Work /\ Progress)'
    BY <2>2 DEF Serialised, Work, Progress, Idle
  <2>5. (TypeOK /\ Bounds /\ FileIsIntact)'
    BY DEF Inv, TypeOK, FileTypeOK, Bounds, FileIsIntact
  <2>6. CleanIsStored'
    BY <2>3 DEF CleanIsStored, Loaded
  <2>7. dirty' => 1 <= entries' /\ disk'["path"] < entries'
    <3>1. entries # held[s] => 1 <= entries /\ disk["path"] < entries
      BY <2>3
    <3>2. dirty' => entries # held[s]
      OBVIOUS
    <3>. QED
      BY <3>1, <3>2
  <2>8. DirtyIsAhead'
    BY <2>7 DEF DirtyIsAhead
  <2>. QED
    BY <2>4, <2>5, <2>6, <2>8 DEF Inv
<1>5. CASE Restart
  <2>. USE <1>5 DEF Restart, SaversDie
  <2>1. \A s \in Savers : step'[s] = "idle"
    OBVIOUS
  <2>2. (Serialised /\ Work /\ Progress)'
    BY <2>1 DEF Serialised, Work, Progress, Idle
  <2>3. entries' \in Versions
    BY NotVersions DEF Loaded
  <2>4. TypeOK'
    BY <2>3, NotVersions DEF Inv, TypeOK, FileTypeOK
  <2>5. (FileIsIntact /\ CleanIsStored /\ DirtyIsAhead)'
    BY DEF Inv, FileIsIntact, CleanIsStored, DirtyIsAhead, Loaded
  <2>6. Bounds'
    BY NotVersions DEF Inv, TypeOK, FileTypeOK, Bounds, Loaded
  <2>. QED
    BY <2>2, <2>4, <2>5, <2>6 DEF Inv
<1>6. CASE UNCHANGED vars
  BY <1>6 DEF vars, fileVars, Inv, TypeOK, FileTypeOK, Serialised, Idle, Bounds,
     FileIsIntact, CleanIsStored, Loaded, Work, Progress, DirtyIsAhead
<1>. QED
  BY <1>1, <1>2, <1>3, <1>4, <1>5, <1>6 DEF Next

LEMMA Invariance == Spec => []Inv
  BY InvInit, InvStep, PTL DEF Spec

(* The variables of the cache and of its file keep their types. *)
THEOREM TypeCorrectness == Spec => []TypeOK
<1>1. Inv => TypeOK
  BY DEF Inv
<1>. QED
  BY <1>1, Invariance, PTL

(* Whatever call fails and whenever the process dies, the cache file is    *)
(* absent or decodes to entries the cache has held.                        *)
THEOREM Intact == Spec => []FileIsIntact
<1>1. Inv => FileIsIntact
  BY DEF Inv
<1>. QED
  BY <1>1, Invariance, PTL

(* A cache that is not dirty is what a restart would load, whatever was    *)
(* added to it while a saver was writing.                                  *)
THEOREM CleanStored == Spec => []CleanIsStored
<1>1. Inv => CleanIsStored
  BY DEF Inv
<1>. QED
  BY <1>1, Invariance, PTL

-----------------------------------------------------------------------------
(* The refinement *)

(* Where the only saver is decides what is stored.                         *)
LEMMA StoredIs ==
    ASSUME Inv
    PROVE  /\ disk["path"] # Missing => Stored = disk["path"]
           /\ (\A s \in Savers : step[s] \notin {"swap", "rollback"}) => Stored = disk["path"]
           /\ \A s \in Savers : step[s] \in {"swap", "rollback"} => Stored = disk["old"]
  BY DEF Stored, Inv, Progress

(* The values the initial cache stands for. *)
LEMMA MapsInit == Init => Value!Init
  BY DEF Init, FileInit, Value!Init, Stored

(* A file step commits a newer version, loses the file or shows nothing.   *)
LEMMA MapsFileStep ==
    ASSUME Inv, Inv', NEW s \in Savers, SaveStep(s)
    PROVE  Value!Commit \/ Value!Lose \/ UNCHANGED Value!vars
<1>1. ~Idle(s)
  BY DEF SaveStep, FileStep, OpenTmp, WriteTmp, RenameTmp, RemoveBackup, StatPath, MoveAside,
     SwapIn, RollBack, DropBackup, RenameLast, Try, Idle
<1>2. \A t \in Savers : t # s => step[t] = "idle" /\ step'[t] = "idle"
  BY <1>1, OneSaver DEF Inv, Idle, SaveStep, FileStep, OpenTmp, WriteTmp, RenameTmp,
     RemoveBackup, StatPath, MoveAside, SwapIn, RollBack, DropBackup, RenameLast, Try, Goto,
     TypeOK, FileTypeOK
<1>3. /\ dirty
      /\ UNCHANGED <<entries, dirty, latest, held>>
      /\ held[s] \in 1 .. entries
      /\ disk["path"] \in Versions \cup {Missing}
      /\ step \in [Savers -> Steps]
      /\ disk \in [{"path", "tmp", "old"} -> Contents]
  BY <1>1 DEF Inv, Work, TypeOK, FileTypeOK, FileIsIntact, SaveStep, FileStep, OpenTmp,
     WriteTmp, RenameTmp, RemoveBackup, StatPath, MoveAside, SwapIn, RollBack, DropBackup,
     RenameLast, Try
<1>4. Stored = IF step[s] \in {"swap", "rollback"} THEN disk["old"] ELSE disk["path"]
  BY <1>2, StoredIs
<1>5. Stored' = IF step'[s] \in {"swap", "rollback"} THEN disk'["old"] ELSE disk'["path"]
  BY <1>2 DEF Stored, Inv, Progress
<1>6. CASE Stored' = Stored
  BY <1>3, <1>6 DEF Value!vars
<1>7. CASE Stored' = Missing
  BY <1>3, <1>7 DEF Value!Lose
<1>8. CASE Stored' = held[s] /\ (Stored # Missing => Stored < held[s])
  BY <1>3, <1>8 DEF Value!Commit
<1>9. \/ Stored' = Stored
      \/ Stored' = Missing
      \/ Stored' = held[s] /\ (Stored # Missing => Stored < held[s])
  <2>. USE DEF SaveStep, Goto, Inv, Progress
  <2>1. CASE OpenTmp(s)
    BY <1>3, <1>4, <1>5, <2>1 DEF OpenTmp, Try
  <2>2. CASE WriteTmp(s)
    BY <1>3, <1>4, <1>5, <2>2 DEF WriteTmp
  <2>3. CASE RenameTmp(s)
    BY <1>3, <1>4, <1>5, <2>3 DEF RenameTmp, Try, Rename, Renamable
  <2>4. CASE RemoveBackup(s)
    BY <1>3, <1>4, <1>5, <2>4 DEF RemoveBackup, Try, Unlink
  <2>5. CASE StatPath(s)
    BY <1>3, <1>4, <1>5, <2>5 DEF StatPath
  <2>6. CASE MoveAside(s)
    BY <1>3, <1>4, <1>5, <2>6 DEF MoveAside, Try, Rename, Renamable
  <2>7. CASE SwapIn(s)
    BY <1>3, <1>4, <1>5, <2>7 DEF SwapIn, Try, Rename, Renamable
  <2>8. CASE RollBack(s)
    BY <1>3, <1>4, <1>5, <2>8 DEF RollBack, Try, Rename, Renamable
  <2>9. CASE DropBackup(s)
    BY <1>3, <1>4, <1>5, <2>9 DEF DropBackup, Try, Unlink
  <2>10. CASE RenameLast(s)
    BY <1>3, <1>4, <1>5, <2>10 DEF RenameLast, Try, Rename, Renamable
  <2>. QED
    BY <2>1, <2>2, <2>3, <2>4, <2>5, <2>6, <2>7, <2>8, <2>9, <2>10 DEF FileStep
<1>. QED
  BY <1>6, <1>7, <1>8, <1>9

(* Every step of the cache is a step of the durable value, or none of it.  *)
LEMMA MapsStep == Inv /\ Inv' /\ [Next]_vars => [Value!Next]_(Value!vars)
<1>. SUFFICES ASSUME Inv, Inv', [Next]_vars
              PROVE  Value!Next \/ UNCHANGED Value!vars
  OBVIOUS
<1>1. CASE Change
  <2>1. Stored' = Stored
    BY <1>1 DEF Change, Stored
  <2>. QED
    BY <1>1, <2>1 DEF Change, Value!Change, Value!Next
<1>2. ASSUME NEW s \in Savers, BeginSave(s) PROVE UNCHANGED Value!vars
  <2>1. \A t \in Savers : step[t] \notin {"swap", "rollback"}
    BY <1>2 DEF BeginSave, Idle
  <2>2. \A t \in Savers : step'[t] \notin {"swap", "rollback"}
    BY <1>2, <2>1 DEF BeginSave, Goto, Inv, TypeOK, FileTypeOK
  <2>. QED
    BY <1>2, <2>1, <2>2 DEF BeginSave, Stored, Value!vars
<1>3. ASSUME NEW s \in Savers, SaveStep(s) PROVE Value!Next \/ UNCHANGED Value!vars
  BY <1>3, MapsFileStep DEF Value!Next
<1>4. ASSUME NEW s \in Savers, EndSave(s) PROVE Value!Next \/ UNCHANGED Value!vars
  <2>. USE <1>4 DEF EndSave, Goto
  <2>1. disk["path"] = held[s] /\ held[s] \in Versions /\ dirty
    BY DEF Inv, TypeOK, FileTypeOK, Work, Progress, Idle
  <2>2. Stored = held[s] /\ Stored' = held[s]
    BY <2>1, NotVersions DEF Stored
  <2>3. CASE entries = held[s]
    BY <2>1, <2>2, <2>3 DEF Value!Acknowledge, Value!Next
  <2>4. CASE entries # held[s]
    BY <2>1, <2>2, <2>4 DEF Value!vars
  <2>. QED
    BY <2>3, <2>4
<1>5. CASE Restart
  <2>. USE <1>5 DEF Restart, SaversDie
  <2>1. Stored' = disk["path"]
    BY DEF Stored
  <2>2. Stored' = Stored \/ (dirty /\ Stored' = Missing)
    BY <2>1 DEF Stored, Inv, Work, Idle
  <2>3. entries' = IF Stored' = Missing THEN 0 ELSE Stored'
    BY <2>1, NotVersions DEF Loaded, Inv, FileIsIntact
  <2>. QED
    BY <2>2, <2>3 DEF Value!Restart, Value!Reload, Value!Next
<1>6. CASE UNCHANGED vars
  BY <1>6 DEF vars, fileVars, Value!vars, Stored
<1>. QED
  BY <1>1, <1>2, <1>3, <1>4, <1>5, <1>6 DEF Next

(* The cache with its file implements a durable value: its copy on disk is *)
(* never damaged, never goes back, and is only lost while the cache is     *)
(* dirty.                                                                  *)
THEOREM Implementation == Spec => ImplementsDurableValue
<1>1. Spec => []Inv
  BY Invariance
<1>. QED
  BY <1>1, MapsInit, MapsStep, PTL DEF Spec, Value!Spec, ImplementsDurableValue


-----------------------------------------------------------------------------
(***************************************************************************)
(* The queue file, for any number of savers and of versions.  No lock      *)
(* keeps the savers apart, but as long as no two have overlapped since the *)
(* start (Alone) the one at work, unless a call of its has failed, writes  *)
(* the queue as it is (OnItsWay), and a queue that nobody saves is the one *)
(* in the file.                                                            *)
(***************************************************************************)
Alone == ~overlapped => \A s, t \in Savers : qStep[s] # "idle" /\ qStep[t] # "idle" => s = t

(* What the files hold for a saver that works alone.  At "rollback" a call *)
(* has failed for good: the queue will not have been saved.                *)
OnItsWay(s) ==
    /\ qStep[s] \notin {"idle", "snapshot"} => qHeld[s] = qJobs
    /\ qStep[s] = "write" => qDisk["tmp"] = Empty
    /\ qStep[s] \in {"rename", "backup", "stat", "aside", "swap", "last"}
            => qDisk["tmp"] = qJobs
    /\ qStep[s] \in {"cleanup", "replaced"} => qDisk["path"] = qJobs

QuietIsSaved ==
    (\A s \in Savers : qStep[s] = "idle") => Loaded(qDisk["path"]) = qJobs

QueueInv ==
    /\ QueueTypeOK
    /\ Alone
    /\ ~overlapped /\ ~failed => QuietIsSaved /\ \A s \in Savers : OnItsWay(s)

(* At the start the queue is empty and there is no file. *)
LEMMA QueueInvInit == QueueInit => QueueInv
<1> SUFFICES ASSUME QueueInit PROVE QueueInv
  OBVIOUS
<1> USE DEF QueueInit, Disk!FileInit
<1>1. QueueTypeOK
  <2>1. qHeld \in [Savers -> Versions] /\ qLatest \in Versions /\ qJobs \in Versions
    BY NotVersions
  <2>2. qDisk \in [{"path", "tmp", "old"} -> Contents] /\ qStep \in [Savers -> Disk!Steps]
    BY DEF Disk!Steps
  <2> QED
    BY <2>1, <2>2 DEF QueueTypeOK, Disk!FileTypeOK, Disk!Contents, Disk!Versions
<1>2. QuietIsSaved /\ \A s \in Savers : OnItsWay(s)
  BY NotVersions DEF QuietIsSaved, OnItsWay, Loaded
<1> QED
  BY <1>1, <1>2 DEF QueueInv, Alone

(* A call on the files moves one saver, which is not idle, and keeps types.*)
LEMMA CallIs ==
    ASSUME QueueInv, NEW s \in Savers, SaveJobs(s)
    PROVE  /\ qStep[s] # "idle"
           /\ \E l \in Disk!Steps : qStep' = [qStep EXCEPT ![s] = l]
           /\ qDisk' \in [{"path", "tmp", "old"} -> Contents]
           /\ UNCHANGED <<qHeld, qLatest, qJobs, overlapped>>
           /\ failed' = (failed \/ qStep'[s] = "idle")
<1> USE DEF QueueInv, QueueTypeOK, Disk!FileTypeOK, Disk!Contents, Disk!Versions
<1>1. /\ qDisk \in [{"path", "tmp", "old"} -> Contents] /\ qStep \in [Savers -> Disk!Steps]
      /\ Empty \in Contents
  BY DEF Contents
<1>2. \A f, g \in {"path", "tmp", "old"} :
        Disk!Rename(f, g) \/ Disk!Unlink(f) => qDisk' \in [{"path", "tmp", "old"} -> Contents]
  BY DEF Disk!Rename, Disk!Unlink
<1>3. UNCHANGED <<qJobs, overlapped>> /\ failed' = (failed \/ qStep'[s] = "idle")
  BY DEF SaveJobs
<1> USE DEF Disk!Steps
<1>4. CASE Disk!OpenTmp(s)
  BY <1>1, <1>3, <1>4 DEF Disk!OpenTmp, Disk!Try, Disk!Goto
<1>5. CASE Disk!WriteTmp(s)
  BY <1>3, <1>5 DEF Disk!WriteTmp, Disk!Goto
<1>6. CASE Disk!RenameTmp(s)
  BY <1>1, <1>2, <1>3, <1>6 DEF Disk!RenameTmp, Disk!Try, Disk!Goto
<1>7. CASE Disk!RemoveBackup(s)
  BY <1>1, <1>2, <1>3, <1>7 DEF Disk!RemoveBackup, Disk!Try, Disk!Goto
<1>8. CASE Disk!StatPath(s)
  BY <1>3, <1>8 DEF Disk!StatPath, Disk!Goto
<1>9. CASE Disk!MoveAside(s)
  BY <1>1, <1>2, <1>3, <1>9 DEF Disk!MoveAside, Disk!Try, Disk!Goto
<1>10. CASE Disk!SwapIn(s)
  BY <1>1, <1>2, <1>3, <1>10 DEF Disk!SwapIn, Disk!Try, Disk!Goto
<1>11. CASE Disk!RollBack(s)
  BY <1>1, <1>2, <1>3, <1>11 DEF Disk!RollBack, Disk!Try, Disk!Goto
<1>12. CASE Disk!DropBackup(s)
  BY <1>1, <1>2, <1>3, <1>12 DEF Disk!DropBackup, Disk!Try, Disk!Goto
<1>13. CASE Disk!RenameLast(s)
  BY <1>1, <1>2, <1>3, <1>13 DEF Disk!RenameLast, Disk!Try, Disk!Goto
<1> QED
  BY <1>4, <1>5, <1>6, <1>7, <1>8, <1>9, <1>10, <1>11, <1>12, <1>13
  DEF SaveJobs, Disk!FileStep

(* The call of a saver at work alone, if it has not failed for good, brings*)
(* the queue a step nearer to its file.                                    *)
LEMMA CallBringsNearer ==
    ASSUME QueueInv, NEW s \in Savers, SaveJobs(s), ~overlapped, ~failed'
    PROVE  OnItsWay(s)'
<1> USE DEF SaveJobs, OnItsWay, QueueInv, QueueTypeOK, Disk!FileTypeOK, Disk!Goto
<1>1. qStep[s] # "idle" /\ ~failed /\ qStep'[s] # "idle" /\ UNCHANGED <<qHeld, qJobs>>
  BY CallIs
<1>2. CASE Disk!OpenTmp(s)
  BY <1>1, <1>2 DEF Disk!OpenTmp, Disk!Try
<1>3. CASE Disk!WriteTmp(s)
  BY <1>1, <1>3 DEF Disk!WriteTmp
<1>4. CASE Disk!RenameTmp(s)
  BY <1>1, <1>4 DEF Disk!RenameTmp, Disk!Try, Disk!Rename
<1>5. CASE Disk!RemoveBackup(s)
  BY <1>1, <1>5 DEF Disk!RemoveBackup, Disk!Try, Disk!Unlink
<1>6. CASE Disk!StatPath(s)
  BY <1>1, <1>6 DEF Disk!StatPath
<1>7. CASE Disk!MoveAside(s)
  BY <1>1, <1>7 DEF Disk!MoveAside, Disk!Try, Disk!Rename
<1>8. CASE Disk!SwapIn(s)
  BY <1>1, <1>8 DEF Disk!SwapIn, Disk!Try, Disk!Rename
<1>9. CASE Disk!RollBack(s)
  BY <1>1, <1>9 DEF Disk!RollBack, Disk!Try
<1>10. CASE Disk!DropBackup(s)
  BY <1>1, <1>10 DEF Disk!DropBackup, Disk!Try, Disk!Unlink
<1>11. CASE Disk!RenameLast(s)
  BY <1>1, <1>11 DEF Disk!RenameLast, Disk!Try, Disk!Rename
<1> QED
  BY <1>2, <1>3, <1>4, <1>5, <1>6, <1>7, <1>8, <1>9, <1>10, <1>11 DEF Disk!FileStep

(* A saver that begins finds the others idle, or they overlap. *)
LEMMA BeginningIsAlone ==
    ASSUME QueueInv, NEW s \in Savers, qStep[s] = "idle",
           qStep' = [qStep EXCEPT ![s] = "snapshot"],
           overlapped' = (overlapped \/ \E t \in Savers : qStep[t] # "idle")
    PROVE  /\ Alone'
           /\ ~overlapped' => \A t \in Savers : qStep'[t] \in {"idle", "snapshot"}
           /\ qStep'[s] # "idle"
           /\ qStep' \in [Savers -> Disk!Steps]
           /\ overlapped' \in BOOLEAN
BY DEF QueueInv, QueueTypeOK, Disk!FileTypeOK, Disk!Steps, Alone

(* Every step keeps the invariant. *)
LEMMA QueueInvStep == QueueInv /\ [QueueNext]_queueVars => QueueInv'
<1> SUFFICES ASSUME QueueInv, [QueueNext]_queueVars PROVE QueueInv'
  OBVIOUS
<1> USE DEF Disk!Contents, Disk!Versions
<1>1. ASSUME NEW s \in Savers, ChangeJobs(s) \/ SaveAgain(s) PROVE QueueInv'
  <2> USE DEF ChangeJobs, SaveAgain, Disk!Idle, Disk!Goto
  <2>1. /\ Alone'
        /\ ~overlapped' => \A t \in Savers : qStep'[t] \in {"idle", "snapshot"}
        /\ qStep'[s] # "idle"
        /\ qStep' \in [Savers -> Disk!Steps]
        /\ overlapped' \in BOOLEAN
    BY <1>1, BeginningIsAlone
  <2>2. QueueTypeOK'
    BY <1>1, <2>1, ReplaceAssumption DEF QueueInv, QueueTypeOK, Disk!FileTypeOK
  <2> QED
    BY <2>1, <2>2 DEF QueueInv, QuietIsSaved, OnItsWay
<1>2. ASSUME NEW s \in Savers, SnapshotJobs(s) PROVE QueueInv'
  <2> USE DEF SnapshotJobs, Disk!Goto
  <2>1. QueueTypeOK' /\ Alone'
    BY <1>2 DEF QueueInv, QueueTypeOK, Disk!FileTypeOK, Disk!Steps, Alone
  <2>2. ASSUME ~overlapped' PROVE \A t \in Savers : OnItsWay(t)'
    BY <1>2, <2>2 DEF QueueInv, QueueTypeOK, Disk!FileTypeOK, Alone, OnItsWay
  <2>3. qStep'[s] # "idle"
    BY <1>2 DEF QueueInv, QueueTypeOK, Disk!FileTypeOK
  <2> QED
    BY <2>1, <2>2, <2>3 DEF QueueInv, QuietIsSaved
<1>3. ASSUME NEW s \in Savers, SaveJobs(s) PROVE QueueInv'
  <2>1. QueueTypeOK'
    <3>1. failed' \in BOOLEAN
      BY <1>3 DEF SaveJobs, QueueInv, QueueTypeOK
    <3> QED
      BY <1>3, <3>1, CallIs DEF QueueInv, QueueTypeOK, Disk!FileTypeOK
  <2>2. Alone'
    BY <1>3, CallIs DEF QueueInv, QueueTypeOK, Disk!FileTypeOK, Alone
  <2>3. ASSUME ~overlapped', ~failed'
        PROVE  QuietIsSaved' /\ \A t \in Savers : OnItsWay(t)'
    <3>1. OnItsWay(s)'
      BY <1>3, <2>3, CallIs, CallBringsNearer
    <3>2. qStep'[s] # "idle"
      BY <1>3, <2>3, CallIs
    <3>3. \A t \in Savers : t # s => qStep'[t] = "idle"
      BY <2>2, <2>3, <3>2 DEF Alone
    <3> QED
      BY <3>1, <3>2, <3>3 DEF QuietIsSaved, OnItsWay
  <2> QED
    BY <2>1, <2>2, <2>3 DEF QueueInv
<1>4. ASSUME NEW s \in Savers, EndSaveJobs(s) PROVE QueueInv'
  <2> USE DEF EndSaveJobs, Disk!Goto
  <2>1. QueueTypeOK' /\ Alone'
    BY <1>4 DEF QueueInv, QueueTypeOK, Disk!FileTypeOK, Disk!Steps, Alone
  <2>2. ASSUME ~overlapped', ~failed'
        PROVE  QuietIsSaved' /\ \A t \in Savers : OnItsWay(t)'
    <3>1. \A t \in Savers : qStep'[t] = "idle"
      BY <1>4, <2>2 DEF QueueInv, QueueTypeOK, Disk!FileTypeOK, Alone
    <3>2. Loaded(qDisk["path"]) = qJobs
      BY <1>4, <2>2 DEF QueueInv, QueueTypeOK, OnItsWay, Loaded
    <3> QED
      BY <1>4, <3>1, <3>2 DEF QuietIsSaved, OnItsWay, Loaded
  <2> QED
    BY <2>1, <2>2 DEF QueueInv
<1>5. CASE RestartQueue
  <2> USE DEF RestartQueue
  <2>1. qHeld' \in [Savers -> Versions] /\ qLatest' \in Versions /\ qJobs' \in Versions
    BY <1>5, NotVersions, ReplaceAssumption
    DEF QueueInv, QueueTypeOK, Disk!FileTypeOK, Loaded
  <2>2. qStep' \in [Savers -> Disk!Steps] /\ Alone'
    BY <1>5 DEF Disk!Steps, Alone
  <2>3. QueueTypeOK'
    BY <1>5, <2>1, <2>2 DEF QueueInv, QueueTypeOK, Disk!FileTypeOK
  <2>4. QuietIsSaved' /\ \A t \in Savers : OnItsWay(t)'
    BY <1>5 DEF QuietIsSaved, OnItsWay, Loaded
  <2> QED
    BY <2>2, <2>3, <2>4 DEF QueueInv
<1>6. CASE UNCHANGED queueVars
  BY <1>6 DEF queueVars, QueueInv, QueueTypeOK, Disk!FileTypeOK, Alone, QuietIsSaved,
     OnItsWay, Loaded
<1> QED
  BY <1>1, <1>2, <1>3, <1>4, <1>5, <1>6 DEF QueueNext

(* Unless a save has failed or two have overlapped since the start, a queue*)
(* that nobody is saving is the one a restart loads.                       *)
THEOREM QuietSaved == QueueSpec => []QuietMeansSaved
<1>1. QueueInv => QuietMeansSaved
  BY DEF QueueInv, QuietIsSaved, QuietMeansSaved, Disk!Idle
<1> QED
  BY QueueInvInit, QueueInvStep, <1>1, PTL DEF QueueSpec

-----------------------------------------------------------------------------
(***************************************************************************)
(* The history of downloads, for any files, rows, synchronisations, saves  *)
(* and restarts.  A synchronisation reads the queue's file after its time, *)
(* so that what it has read is at least what was saved at that time, and   *)
(* exactly that if nothing has been saved since (JobsRead).  No ID reused, *)
(* it enters every job under a key of its remote file, and under that of   *)
(* its row unless the row was missing (RowsRead, KeysFor), so that only    *)
(* the one job of a file downloaded once can stand for it (Good); an output*)
(* nobody has edited is as it was when it was looked at (Good); and what   *)
(* has once been entered is never without an entry again, unless the       *)
(* program restarts and goes through all of the queue's file anew          *)
(* (LookedAt, Covered).                                                    *)
(***************************************************************************)
Prefix(a, b) == \A i \in DOMAIN a : i \in DOMAIN b /\ a[i] = b[i]

(* Times of the queue's file are never repeated. *)
Times ==
    /\ qFile.mtime = saves /\ seen <= saves
    /\ \A s \in Syncs : sync[s].mtime <= saves
    /\ saves = 0 => qFile.jobs = << >>

(* The outputs of the jobs that completed are there, or were edited. *)
OutputsThere == \A i \in DOMAIN queue : file[queue[i].path] # "none" \/ queue[i].path \in edited

(* No row of the saved results gives a job another remote file, and a row  *)
(* that is missing is known to be.                                         *)
RowsAgree ==
    ~reused => \A i \in DOMAIN queue :
        /\ results[queue[i].id] \in {Unknown, queue[i].remote}
        /\ results[queue[i].id] = Unknown => queue[i].id \in lost

World == Prefix(qFile.jobs, queue) /\ Times /\ OutputsThere /\ RowsAgree

JobsRead ==
    \A s \in Syncs :
        /\ sync[s].at # "files" => sync[s].next = 1
        /\ sync[s].at \in {"rows", "files"} =>
            /\ Prefix(sync[s].jobs, qFile.jobs)
            /\ sync[s].mtime = qFile.mtime => sync[s].jobs = qFile.jobs

RowsRead ==
    ~reused => \A s \in Syncs : sync[s].at = "files" =>
        \A i \in DOMAIN sync[s].jobs :
            LET j == sync[s].jobs[i]
            IN /\ sync[s].rows[j.id] \in {Unknown, j.remote}
               /\ sync[s].rows[j.id] = Unknown => j.id \in lost

(* The keys a job may be entered under: its own if its row was missing. *)
KeysFor(j) == {RowKey(j.remote)} \cup {k \in {OwnKey(j.remote)} : j.id \in lost}

(* An entry is one of a job, under a key of its remote file; an output that*)
(* was not edited has the content entered.                                 *)
GoodEntry(k, e) ==
    e # NotEntered =>
        /\ ~reused => \E i \in DOMAIN qFile.jobs :
                        qFile.jobs[i].remote = k[1] /\ qFile.jobs[i].path = e.path
        /\ e.path \notin edited => e.hash = file[e.path]

Good(E) == \A k \in Keys : GoodEntry(k, E[k])

AllGood == Good(registry) /\ Good(stored) /\ \A s \in Syncs : Good(sync[s].updates)

(* What a synchronisation has looked at is in the registry or will be. *)
LookedAt ==
    ~reused => \A s \in Syncs : sync[s].at = "files" =>
        \A i \in DOMAIN sync[s].jobs : i < sync[s].next =>
            LET j == sync[s].jobs[i]
            IN \/ j.path \in edited
               \/ \E k \in KeysFor(j) : sync[s].updates[k] # NotEntered
                                      \/ registry[k] # NotEntered

(* What was in the file when it was last dealt with is in the registry. *)
Covered ==
    ~reused /\ seen = qFile.mtime =>
        \A i \in DOMAIN qFile.jobs :
            \/ qFile.jobs[i].path \in edited
            \/ \E k \in KeysFor(qFile.jobs[i]) : registry[k] # NotEntered

HistoryInv ==
    HistoryTypeOK /\ World /\ JobsRead /\ RowsRead /\ AllGood /\ LookedAt /\ Covered

(* The state of one synchronisation. *)
Sync == [at : {"idle", "read", "rows", "files", "save"}, mtime : Nat,
         jobs : Seq(Job), next : Nat \ {0}, rows : [Ids -> Sources \cup {Unknown}],
         updates : [Keys -> HistoryEntry]]

(* What the types say of a sequence of jobs and of a synchronisation. *)
LEMMA JobIs ==
    ASSUME NEW a \in Seq(Job)
    PROVE  /\ Len(a) \in Nat /\ DOMAIN a = 1 .. Len(a)
           /\ \A i \in DOMAIN a : /\ i \in Nat /\ a[i] \in Job /\ a[i].id \in Ids
                                 /\ a[i].remote \in Sources /\ a[i].path \in Outputs
<1>1. \A j \in Job : j.id \in Ids /\ j.remote \in Sources /\ j.path \in Outputs
  BY DEF Job
<1>2. Len(a) \in Nat /\ DOMAIN a = 1 .. Len(a) /\ \A i \in DOMAIN a : i \in Nat /\ a[i] \in Job
  OBVIOUS
<1> QED
  BY <1>1, <1>2

LEMMA SyncIs ==
    ASSUME HistoryTypeOK
    PROVE  /\ sync \in [Syncs -> Sync]
           /\ \A s \in Syncs : /\ sync[s] \in Sync /\ sync[s].mtime \in Nat
                              /\ sync[s].jobs \in Seq(Job) /\ sync[s].next \in Nat
                              /\ sync[s].rows \in [Ids -> Sources \cup {Unknown}]
                              /\ sync[s].updates \in [Keys -> HistoryEntry]
<1>1. sync \in [Syncs -> Sync]
  BY DEF HistoryTypeOK, Sync
<1>2. \A x \in Sync : /\ x.mtime \in Nat /\ x.jobs \in Seq(Job) /\ x.next \in Nat
                     /\ x.rows \in [Ids -> Sources \cup {Unknown}]
                     /\ x.updates \in [Keys -> HistoryEntry]
  BY DEF Sync
<1> QED
  BY <1>1, <1>2

(* The keys of a job are keys of its remote file. *)
LEMMA KeysAre ==
    ASSUME NEW j \in Job, NEW k \in KeysFor(j)
    PROVE  k \in Keys /\ k[1] = j.remote
BY DEF KeysFor, RowKey, OwnKey, Keys, Job

(* One that is idle has read nothing. *)
LEMMA NoSyncIs ==
    NoSync \in Sync /\ Good(NoSync.updates) /\ NoSync.at = "idle" /\ NoSync.next = 1
BY DEF NoSync, Sync, HistoryEntry, Good, GoodEntry

(* Nothing has been downloaded in the beginning. *)
LEMMA HistoryInvInit == HistoryInit => HistoryInv
<1> SUFFICES ASSUME HistoryInit PROVE HistoryInv
  OBVIOUS
<1> USE DEF HistoryInit
<1>1. HistoryTypeOK
  <2>1. registry \in [Keys -> HistoryEntry] /\ stored \in [Keys -> HistoryEntry]
    BY DEF HistoryEntry
  <2>2. sync \in [Syncs -> Sync]
    BY NoSyncIs
  <2>3. qFile.jobs \in Seq(Job) /\ queue \in Seq(Job) /\ qFile.mtime \in Nat
    OBVIOUS
  <2>4. file \in [Outputs -> FileContent \cup {"none"}] /\ stamp \in [Outputs -> Nat]
    OBVIOUS
  <2>5. edited \subseteq Outputs /\ saves \in Nat /\ times \in Nat /\ starts \in Nat
        /\ seen \in Nat /\ reused \in BOOLEAN /\ lost \subseteq Ids
    OBVIOUS
  <2>6. results \in [Ids -> Sources \cup {Unknown}]
    OBVIOUS
  <2> QED
    BY <2>1, <2>2, <2>3, <2>4, <2>5, <2>6 DEF HistoryTypeOK, Sync
<1>2. World
  BY DEF World, Prefix, Times, OutputsThere, RowsAgree, NoSync
<1>3. JobsRead /\ RowsRead /\ LookedAt
  BY DEF JobsRead, RowsRead, LookedAt, NoSync
<1>4. AllGood
  BY NoSyncIs DEF AllGood, Good, GoodEntry
<1>5. Covered
  BY DEF Covered
<1> QED
  BY <1>1, <1>2, <1>3, <1>4, <1>5 DEF HistoryInv

(* Entries that are good stay so while the file of the queue grows, no     *)
(* output changes that was not edited, and an ID that was reused stays so. *)
LEMMA StaysGood ==
    ASSUME HistoryTypeOK, NEW E \in [Keys -> HistoryEntry], Good(E),
           Prefix(qFile.jobs, qFile'.jobs), reused => reused', edited \subseteq edited',
           \A p \in Outputs : p \notin edited' /\ file[p] # "none" => file'[p] = file[p]
    PROVE  Good(E)'
<1> SUFFICES ASSUME NEW k \in Keys, E[k] # NotEntered
             PROVE  /\ ~reused' => \E i \in DOMAIN qFile'.jobs : /\ qFile'.jobs[i].remote = k[1]
                                                               /\ qFile'.jobs[i].path = E[k].path
                    /\ E[k].path \notin edited' => E[k].hash = file'[E[k].path]
  BY DEF Good, GoodEntry
<1>1. E[k].path \in Outputs /\ E[k].hash # "none"
  BY HistoryAssumption DEF HistoryEntry, FileContent
<1>2. GoodEntry(k, E[k])
  BY DEF Good
<1> QED
  BY <1>1, <1>2 DEF GoodEntry, Prefix

(* A change outside the registry that keeps what StaysGood asks for keeps  *)
(* what the entries and the synchronisations say.                          *)
LEMMA OutsideKeeps ==
    ASSUME HistoryInv, HistoryTypeOK', World', UNCHANGED <<registry, stored, seen, sync>>,
           Prefix(qFile.jobs, qFile'.jobs), reused => reused', edited \subseteq edited',
           lost \subseteq lost', qFile' # qFile => qFile'.mtime > saves,
           \A p \in Outputs : p \notin edited' /\ file[p] # "none" => file'[p] = file[p]
    PROVE  HistoryInv'
<1> USE DEF HistoryInv
<1>1. JobsRead'
  BY DEF JobsRead, Prefix, World, Times, HistoryTypeOK
<1>2. \A j : KeysFor(j) \subseteq KeysFor(j)'
  BY DEF KeysFor, RowKey, OwnKey
<1>3. RowsRead' /\ LookedAt'
  BY <1>2 DEF RowsRead, LookedAt
<1>4. AllGood'
  BY StaysGood DEF AllGood, HistoryTypeOK
<1>5. Covered'
  BY <1>2 DEF Covered, World, Times, HistoryTypeOK
<1> QED
  BY <1>1, <1>3, <1>4, <1>5

(* A job that completes. *)
LEMMA CompleteKeeps ==
    ASSUME HistoryInv, NEW id \in Ids, NEW r \in Sources, NEW p \in Outputs, Complete(id, r, p)
    PROVE  HistoryInv'
<1> USE DEF Complete, HistoryInv, HistoryTypeOK
<1> DEFINE j == [id |-> id, remote |-> r, path |-> p]
<1>1. j \in Job /\ queue' = Append(queue, j)
  BY DEF Job
<1>2. queue' \in Seq(Job)
  BY <1>1
<1>3. /\ DOMAIN queue' = 1 .. Len(queue) + 1
      /\ \A i \in DOMAIN queue : queue'[i] = queue[i]
      /\ queue'[Len(queue) + 1] = j
      /\ DOMAIN queue = 1 .. Len(queue) /\ Len(queue) \in Nat
  BY <1>1
<1>4. HistoryTypeOK'
  <2>1. file' \in [Outputs -> FileContent \cup {"none"}] /\ stamp' \in [Outputs -> Nat]
    BY DEF FileContent
  <2>2. reused' \in BOOLEAN /\ lost' \subseteq Ids
    OBVIOUS
  <2> QED
    BY <1>2, <2>1, <2>2
<1>5. World'
  <2>1. Prefix(qFile.jobs, queue')
    BY <1>3 DEF World, Prefix
  <2>2. OutputsThere'
    BY <1>3, HistoryAssumption DEF World, OutputsThere, Job
  <2>3. ASSUME ~reused', NEW i \in DOMAIN queue'
        PROVE  /\ results[queue'[i].id] \in {Unknown, queue'[i].remote}
               /\ results[queue'[i].id] = Unknown => queue'[i].id \in lost'
    <3>1. ~reused /\ results[id] \in {Unknown, r} /\ lost \subseteq lost'
          /\ (results[id] = Unknown => id \in lost')
      BY <2>3
    <3>2. CASE i \in DOMAIN queue
      BY <1>3, <3>1, <3>2 DEF World, RowsAgree
    <3>3. CASE i = Len(queue) + 1
      BY <1>3, <3>1, <3>3
    <3> QED
      BY <1>3, <3>2, <3>3
  <2> QED
    BY <2>1, <2>2, <2>3 DEF World, Times, RowsAgree
<1> QED
  BY <1>4, <1>5, OutsideKeeps DEF Prefix

(* The queue is saved, under a new time. *)
LEMMA SaveQueueKeeps ==
    ASSUME HistoryInv, SaveQueue
    PROVE  HistoryInv'
<1> USE DEF SaveQueue, world, HistoryInv
<1>1. HistoryTypeOK'
  BY DEF HistoryTypeOK
<1>2. World'
  BY DEF World, Prefix, Times, OutputsThere, RowsAgree, HistoryTypeOK
<1>3. Prefix(qFile.jobs, qFile'.jobs) /\ qFile'.mtime > saves
  BY DEF World, HistoryTypeOK
<1> QED
  BY <1>1, <1>2, <1>3, OutsideKeeps

(* A scan. *)
LEMMA ScanKeeps ==
    ASSUME HistoryInv, NEW rows \in [Ids -> Sources \cup {Unknown}], Scan(rows)
    PROVE  HistoryInv'
<1> USE DEF Scan, HistoryInv
<1>1. HistoryTypeOK'
  <2>1. reused' \in BOOLEAN /\ lost' \subseteq Ids
    BY DEF HistoryTypeOK
  <2> QED
    BY <2>1 DEF HistoryTypeOK
<1>2. World'
  <2>1. RowsAgree'
    BY JobIs DEF HistoryTypeOK, World, RowsAgree
  <2> QED
    BY <2>1 DEF World, Prefix, Times, OutputsThere
<1> QED
  BY <1>1, <1>2, OutsideKeeps DEF Prefix

(* An edit of an output. *)
LEMMA EditKeeps ==
    ASSUME HistoryInv, NEW p \in Outputs, Edit(p)
    PROVE  HistoryInv'
<1> USE DEF Edit, HistoryInv, HistoryTypeOK
<1>1. PICK c \in Edits \cup {"none"} : file' = [file EXCEPT ![p] = c]
  OBVIOUS
<1>2. HistoryTypeOK'
  <2>1. file' \in [Outputs -> FileContent \cup {"none"}]
    BY <1>1 DEF FileContent
  <2>2. stamp' \in [Outputs -> Nat]
    <3>1. stamp \in [Outputs -> Nat] /\ times + 1 \in Nat
      OBVIOUS
    <3>2. [stamp EXCEPT ![p] = times + 1] \in [Outputs -> Nat]
      BY <3>1
    <3> QED
      BY <3>1, <3>2
  <2> QED
    BY <2>1, <2>2
<1>3. \A q \in Outputs : q # p => file'[q] = file[q]
  BY <1>1
<1>4. World'
  <2>1. OutputsThere'
    BY <1>3, JobIs DEF World, OutputsThere
  <2> QED
    BY <2>1 DEF World, Prefix, Times, RowsAgree
<1> QED
  BY <1>2, <1>3, <1>4, OutsideKeeps DEF Prefix

(* A restart, which forgets the time. *)
LEMMA RestartHistoryKeeps ==
    ASSUME HistoryInv, RestartHistory
    PROVE  HistoryInv'
<1> USE DEF RestartHistory, HistoryInv
<1>1. HistoryTypeOK'
  <2>1. sync' \in [Syncs -> Sync]
    BY NoSyncIs
  <2> QED
    BY <2>1 DEF HistoryTypeOK, Sync
<1>2. World'
  <2>1. Times'
    BY DEF World, Times, NoSync, HistoryTypeOK
  <2>2. OutputsThere' /\ RowsAgree'
    BY DEF World, Prefix, OutputsThere, RowsAgree
  <2> QED
    BY <2>1, <2>2 DEF World, Prefix
<1>3. JobsRead' /\ RowsRead' /\ LookedAt'
  BY NoSyncIs DEF JobsRead, RowsRead, LookedAt
<1>4. AllGood'
  BY NoSyncIs DEF AllGood, Good, GoodEntry
<1>5. Covered'
  BY DEF Covered, World, Times
<1> QED
  BY <1>1, <1>2, <1>3, <1>4, <1>5

(* A step of a synchronisation that leaves the registry alone: it only has *)
(* to keep what is said of that one.                                       *)
LEMMA SyncKeeps ==
    ASSUME HistoryInv, NEW s \in Syncs, NEW x \in Sync, sync' = [sync EXCEPT ![s] = x],
           x.mtime <= saves, x.at # "files" => x.next = 1,
           x.at \in {"rows", "files"} =>
              /\ Prefix(x.jobs, qFile.jobs)
              /\ x.mtime = qFile.mtime => x.jobs = qFile.jobs,
           ~reused /\ x.at = "files" =>
              \A i \in DOMAIN x.jobs :
                /\ x.rows[x.jobs[i].id] \in {Unknown, x.jobs[i].remote}
                /\ x.rows[x.jobs[i].id] = Unknown => x.jobs[i].id \in lost
                /\ i < x.next => \/ x.jobs[i].path \in edited
                                 \/ \E k \in KeysFor(x.jobs[i]) : \/ x.updates[k] # NotEntered
                                                                \/ registry[k] # NotEntered,
           Good(x.updates),
           UNCHANGED <<registry, stored, seen>>, Keep
    PROVE  HistoryInv'
<1> USE DEF Keep, world, HistoryInv
<1>1. sync \in [Syncs -> Sync] /\ sync' \in [Syncs -> Sync]
  BY DEF HistoryTypeOK, Sync
<1>2. \A t \in Syncs : sync'[t] = IF t = s THEN x ELSE sync[t]
  BY <1>1
<1>3. HistoryTypeOK'
  BY <1>1 DEF HistoryTypeOK, Sync
<1>4. World'
  BY <1>2 DEF World, Prefix, Times, OutputsThere, RowsAgree
<1>5. JobsRead'
  BY <1>2 DEF JobsRead, Prefix
<1>6. RowsRead' /\ LookedAt'
  BY <1>2 DEF RowsRead, LookedAt, KeysFor
<1>7. AllGood' /\ Covered'
  BY <1>2 DEF AllGood, Good, GoodEntry, Covered, KeysFor
<1> QED
  BY <1>3, <1>4, <1>5, <1>6, <1>7

(* The steps of a synchronisation up to the registry. *)
LEMMA ReadKeeps ==
    ASSUME HistoryInv, NEW s \in Syncs, StatQueue(s) \/ ReadQueue(s) \/ ReadRows(s)
    PROVE  HistoryInv'
<1>1. sync[s] \in Sync /\ sync \in [Syncs -> Sync] /\ sync[s].next \in Nat
      /\ qFile.mtime \in Nat /\ qFile.jobs \in Seq(Job) /\ qFile.mtime <= saves
  BY SyncIs DEF HistoryInv, HistoryTypeOK, World, Times
<1>2. /\ sync[s].mtime <= saves /\ Good(sync[s].updates)
      /\ sync[s].at # "files" => sync[s].next = 1
  BY DEF HistoryInv, World, Times, AllGood, JobsRead
<1>3. CASE StatQueue(s)
  <2> DEFINE x == [sync[s] EXCEPT !.at = "read", !.mtime = qFile.mtime]
  <2>1. sync' = [sync EXCEPT ![s] = x]
    BY <1>1, <1>3 DEF StatQueue, BeginSync, Sync
  <2>2. /\ x \in Sync /\ x.mtime <= saves /\ x.at = "read" /\ x.updates = sync[s].updates
        /\ x.next = sync[s].next
    BY <1>1 DEF Sync
  <2> HIDE DEF x
  <2> QED
    BY <1>2, <1>3, <2>1, <2>2, SyncKeeps DEF StatQueue, BeginSync, Keep
<1>4. CASE ReadQueue(s)
  <2> DEFINE x == [sync[s] EXCEPT !.at = "rows", !.jobs = qFile.jobs]
  <2>1. sync' = [sync EXCEPT ![s] = x]
    BY <1>1, <1>4 DEF ReadQueue, Sync
  <2>2. /\ x \in Sync /\ x.mtime <= saves /\ x.at = "rows" /\ x.updates = sync[s].updates
        /\ x.jobs = qFile.jobs /\ x.next = sync[s].next
    BY <1>1, <1>2 DEF Sync
  <2> HIDE DEF x
  <2> QED
    BY <1>2, <1>4, <2>1, <2>2, SyncKeeps DEF ReadQueue, Prefix
<1>5. CASE ReadRows(s)
  <2> DEFINE x == [sync[s] EXCEPT !.at = "files", !.rows = results]
  <2>1. sync' = [sync EXCEPT ![s] = x]
    BY <1>1, <1>5 DEF ReadRows, Sync
  <2>2. /\ x \in Sync /\ x.mtime = sync[s].mtime /\ x.at = "files"
        /\ x.updates = sync[s].updates /\ x.jobs = sync[s].jobs /\ x.rows = results
        /\ x.next = sync[s].next
    BY <1>1 DEF Sync, HistoryInv, HistoryTypeOK
  <2>3. /\ Prefix(x.jobs, qFile.jobs)
        /\ x.mtime = qFile.mtime => x.jobs = qFile.jobs
    BY <1>5, <2>2 DEF ReadRows, HistoryInv, JobsRead
  <2>4. ~reused => \A i \in DOMAIN x.jobs :
            /\ x.rows[x.jobs[i].id] \in {Unknown, x.jobs[i].remote}
            /\ x.rows[x.jobs[i].id] = Unknown => x.jobs[i].id \in lost
    BY <2>2, <2>3 DEF HistoryInv, World, RowsAgree, Prefix
  <2>5. \A i \in DOMAIN x.jobs : ~(i < x.next)
    <3>1. x.next = 1
      BY <1>2, <1>5, <2>2 DEF ReadRows
    <3> QED
      BY <1>1, <2>2, <3>1, JobIs, SyncIs DEF HistoryInv
  <2> QED
    BY <1>2, <1>5, <2>1, <2>2, <2>3, <2>4, <2>5, SyncKeeps DEF ReadRows
<1> QED
  BY <1>3, <1>4, <1>5

(* A synchronisation looks at the next job. *)
LEMMA LookKeepsHistory ==
    ASSUME HistoryInv, NEW s \in Syncs, LookAt(s)
    PROVE  HistoryInv'
<1> DEFINE j == sync[s].jobs[sync[s].next]
           e == [path |-> j.path, stamp |-> stamp[j.path], hash |-> file[j.path]]
           new == ~(file[j.path] = "none" \/ Current(s, j))
           u == IF new THEN [sync[s].updates EXCEPT ![KeyOf(s, j)] = e] ELSE sync[s].updates
           x == [sync[s] EXCEPT !.next = sync[s].next + 1, !.updates = u]
<1>1. /\ sync[s] \in Sync /\ sync \in [Syncs -> Sync]
      /\ sync[s].at = "files" /\ sync[s].next \in DOMAIN sync[s].jobs
      /\ sync[s].mtime <= saves /\ Good(sync[s].updates)
      /\ Prefix(sync[s].jobs, qFile.jobs)
      /\ sync[s].mtime = qFile.mtime => sync[s].jobs = qFile.jobs
  <2>1. sync[s].next \in DOMAIN sync[s].jobs
    <3>1. sync[s].next \in Nat \ {0} /\ sync[s].jobs \in Seq(Job)
      BY DEF HistoryInv, HistoryTypeOK
    <3> QED
      BY <3>1 DEF LookAt
  <2> QED
    BY <2>1, SyncIs DEF LookAt, HistoryInv, World, Times, AllGood, JobsRead
<1>2. j \in Job /\ j.path \in Outputs /\ j.remote \in Sources /\ KeyOf(s, j) \in Keys
  <2>1. j \in Job /\ j.path \in Outputs /\ j.remote \in Sources /\ j.id \in Ids
    BY <1>1, JobIs, SyncIs DEF HistoryInv
  <2>2. sync[s].rows[j.id] \in Sources \cup {Unknown}
    BY <2>1, SyncIs DEF HistoryInv
  <2> QED
    BY <2>1, <2>2 DEF KeyOf, RowKey, OwnKey, Keys
<1>3. file[j.path] # "none" \/ j.path \in edited
  BY <1>1 DEF HistoryInv, World, OutputsThere, Prefix
<1>4. ~reused => KeyOf(s, j) \in KeysFor(j)
  BY <1>1 DEF HistoryInv, RowsRead, KeyOf, KeysFor
<1>5. new => e \in HistoryEntry /\ e # NotEntered
  <2>1. new => file[j.path] \in FileContent /\ stamp[j.path] \in Nat
    BY <1>2 DEF HistoryInv, HistoryTypeOK
  <2> QED
    BY <1>2, <2>1, HistoryAssumption DEF HistoryEntry, NotEntered
<1>6. u \in [Keys -> HistoryEntry]
  BY <1>1, <1>2, <1>5 DEF Sync
<1>7. \A k \in Keys : sync[s].updates[k] # NotEntered => u[k] # NotEntered
  BY <1>1, <1>2, <1>5 DEF Sync
<1>8. Good(u)
  <2> SUFFICES ASSUME NEW k \in Keys PROVE GoodEntry(k, u[k])
    BY DEF Good
  <2>1. CASE new /\ k = KeyOf(s, j)
    <3>1. u[k] = e
      BY <1>1, <2>1 DEF Sync
    <3>2. ~reused => \E i \in DOMAIN qFile.jobs :
                        qFile.jobs[i].remote = k[1] /\ qFile.jobs[i].path = e.path
      BY <1>1, <1>2, <1>4, <2>1, KeysAre DEF Prefix
    <3>3. e.hash = file[e.path]
      OBVIOUS
    <3> QED
      BY <3>1, <3>2, <3>3 DEF GoodEntry
  <2>2. CASE ~(new /\ k = KeyOf(s, j))
    BY <1>1, <2>2 DEF Good, Sync
  <2> QED
    BY <2>1, <2>2
<1>9. ~reused => \/ j.path \in edited
                 \/ \E k \in KeysFor(j) : u[k] # NotEntered \/ registry[k] # NotEntered
  <2>1. CASE new
    BY <1>1, <1>2, <1>4, <1>5, <2>1 DEF Sync
  <2>2. CASE file[j.path] = "none"
    BY <1>3, <2>2
  <2>3. CASE Current(s, j)
    BY <1>2, <1>4, <2>3, HistoryAssumption DEF Current, NotEntered
  <2> QED
    BY <2>1, <2>2, <2>3
<1>10. sync' = [sync EXCEPT ![s] = x]
  BY <1>1 DEF LookAt, Sync
<1> HIDE DEF u, new, e
<1>11. /\ x \in Sync /\ x.mtime = sync[s].mtime /\ x.at = "files" /\ x.jobs = sync[s].jobs
       /\ x.rows = sync[s].rows /\ x.next = sync[s].next + 1 /\ x.updates = u
  <2>1. sync[s].next + 1 \in Nat \ {0}
    BY <1>1 DEF Sync
  <2> QED
    BY <1>1, <1>6, <2>1 DEF Sync
<1>12. ~reused => \A i \in DOMAIN x.jobs :
            /\ x.rows[x.jobs[i].id] \in {Unknown, x.jobs[i].remote}
            /\ x.rows[x.jobs[i].id] = Unknown => x.jobs[i].id \in lost
            /\ i < x.next => \/ x.jobs[i].path \in edited
                             \/ \E k \in KeysFor(x.jobs[i]) : \/ x.updates[k] # NotEntered
                                                            \/ registry[k] # NotEntered
  <2> SUFFICES ASSUME ~reused, NEW i \in DOMAIN sync[s].jobs
               PROVE  /\ sync[s].rows[sync[s].jobs[i].id] \in {Unknown, sync[s].jobs[i].remote}
                      /\ sync[s].rows[sync[s].jobs[i].id] = Unknown => sync[s].jobs[i].id \in lost
                      /\ i < sync[s].next + 1 =>
                            \/ sync[s].jobs[i].path \in edited
                            \/ \E k \in KeysFor(sync[s].jobs[i]) : \/ u[k] # NotEntered
                                                                 \/ registry[k] # NotEntered
    BY <1>11
  <2>1. /\ sync[s].rows[sync[s].jobs[i].id] \in {Unknown, sync[s].jobs[i].remote}
        /\ sync[s].rows[sync[s].jobs[i].id] = Unknown => sync[s].jobs[i].id \in lost
    BY <1>1 DEF HistoryInv, RowsRead
  <2>2. i \in Nat /\ sync[s].next \in Nat /\ KeysFor(sync[s].jobs[i]) \subseteq Keys
    BY JobIs, SyncIs, KeysAre DEF HistoryInv
  <2>3. CASE i < sync[s].next
    <3>1. \/ sync[s].jobs[i].path \in edited
          \/ \E k \in KeysFor(sync[s].jobs[i]) : \/ sync[s].updates[k] # NotEntered
                                               \/ registry[k] # NotEntered
      BY <1>1, <2>3 DEF HistoryInv, LookedAt
    <3> QED
      BY <1>7, <2>1, <2>2, <3>1
  <2>4. CASE i = sync[s].next
    BY <1>9, <2>1, <2>4
  <2> QED
    BY <2>1, <2>2, <2>3, <2>4
<1> HIDE DEF x
<1> QED
  BY <1>1, <1>8, <1>10, <1>11, <1>12, SyncKeeps DEF LookAt

(* A synchronisation enters its updates. *)
LEMMA EnterKeeps ==
    ASSUME HistoryInv, NEW s \in Syncs, Enter(s)
    PROVE  HistoryInv'
<1> USE DEF Enter, Keep, world
<1>1. PICK x \in Sync : /\ sync' = [sync EXCEPT ![s] = x]
                        /\ x.at \notin {"rows", "files"} /\ x.next = 1 /\ x.mtime = 0
                        /\ x.updates = NoSync.updates
  <2>1. \A at \in {"idle", "save"} :
            LET x == [NoSync EXCEPT !.at = at]
            IN /\ x \in Sync
               /\ x.at = at /\ x.next = 1 /\ x.mtime = 0 /\ x.updates = NoSync.updates
    BY NoSyncIs DEF NoSync, Sync
  <2> DEFINE at == IF registry' = registry THEN "idle" ELSE "save"
  <2>2. at \in {"idle", "save"} /\ sync' = [sync EXCEPT ![s] = [NoSync EXCEPT !.at = at]]
    OBVIOUS
  <2> HIDE DEF at
  <2> QED
    BY <2>1, <2>2
<1>2. sync \in [Syncs -> Sync]
  BY DEF HistoryInv, HistoryTypeOK, Sync
<1>3. \A t \in Syncs : sync'[t] = IF t = s THEN x ELSE sync[t]
  BY <1>1, <1>2
<1>4. \A k \in Keys : registry'[k] = IF sync[s].updates[k] = NotEntered THEN registry[k]
                                     ELSE sync[s].updates[k]
  BY DEF Entered
<1>5. registry' \in [Keys -> HistoryEntry]
  BY <1>2 DEF Entered, Sync, HistoryInv, HistoryTypeOK
<1>6. HistoryTypeOK'
  <2>1. sync' \in [Syncs -> Sync] /\ seen' \in Nat
    BY <1>1, <1>2, SyncIs DEF HistoryInv
  <2> QED
    BY <1>5, <2>1 DEF HistoryInv, HistoryTypeOK, Sync
<1>7. World'
  <2>1. \A t \in Syncs : sync'[t].mtime <= saves
    <3>1. 0 <= saves
      BY DEF HistoryInv, HistoryTypeOK
    <3> QED
      BY <1>1, <1>3, <3>1 DEF HistoryInv, World, Times
  <2> QED
    BY <2>1 DEF HistoryInv, World, Prefix, Times, OutputsThere, RowsAgree
<1>8. JobsRead' /\ RowsRead'
  <2>1. ASSUME NEW t \in Syncs
        PROVE  \/ sync'[t].at \notin {"rows", "files"} /\ sync'[t].next = 1
               \/ sync'[t] = sync[t]
    BY <1>1, <1>3
  <2>2. JobsRead'
    <3> SUFFICES ASSUME NEW t \in Syncs
                 PROVE  /\ sync'[t].at # "files" => sync'[t].next = 1
                        /\ sync'[t].at \in {"rows", "files"} =>
                            /\ Prefix(sync'[t].jobs, qFile.jobs)
                            /\ sync'[t].mtime = qFile.mtime => sync'[t].jobs = qFile.jobs
      BY DEF JobsRead, Prefix
    <3>1. CASE sync'[t] = sync[t]
      BY <3>1 DEF HistoryInv, JobsRead
    <3>2. CASE sync'[t].at \notin {"rows", "files"} /\ sync'[t].next = 1
      BY <3>2
    <3> QED
      BY <2>1, <3>1, <3>2
  <2>3. RowsRead'
    BY <2>1 DEF HistoryInv, RowsRead
  <2> QED
    BY <2>2, <2>3
<1>9. LookedAt'
  <2> SUFFICES ASSUME ~reused, NEW t \in Syncs, t # s, sync[t].at = "files",
                      NEW i \in DOMAIN sync[t].jobs, i < sync[t].next,
                      sync[t].jobs[i].path \notin edited
               PROVE  \E k \in KeysFor(sync[t].jobs[i]) : \/ sync[t].updates[k] # NotEntered
                                                       \/ registry'[k] # NotEntered
    <3>1. \A t \in Syncs : sync'[t].at = "files" => t # s /\ sync'[t] = sync[t]
      BY <1>1, <1>3
    <3>2. UNCHANGED <<reused, lost, edited>>
      OBVIOUS
    <3> HIDE DEF Enter, Keep, world
    <3> QED
      BY <3>1, <3>2 DEF LookedAt, KeysFor
  <2>1. \E k \in KeysFor(sync[t].jobs[i]) : sync[t].updates[k] # NotEntered
                                         \/ registry[k] # NotEntered
    BY DEF HistoryInv, LookedAt
  <2>2. KeysFor(sync[t].jobs[i]) \subseteq Keys
    BY JobIs, SyncIs, KeysAre DEF HistoryInv
  <2> QED
    BY <1>4, <2>1, <2>2
<1>10. AllGood'
  <2>1. Good(registry)'
    BY <1>4 DEF HistoryInv, AllGood, Good, GoodEntry
  <2>2. Good(stored)'
    BY DEF HistoryInv, AllGood, Good, GoodEntry
  <2>3. \A t \in Syncs : Good(sync'[t].updates)
    BY <1>1, <1>3, NoSyncIs DEF HistoryInv, AllGood
  <2> QED
    BY <2>1, <2>2, <2>3 DEF AllGood, Good, GoodEntry
<1>11. Covered'
  <2> SUFFICES ASSUME ~reused, sync[s].mtime = qFile.mtime, NEW i \in DOMAIN qFile.jobs,
                      qFile.jobs[i].path \notin edited
               PROVE  \E k \in KeysFor(qFile.jobs[i]) : registry'[k] # NotEntered
    BY DEF Covered, KeysFor
  <2>1. sync[s].jobs = qFile.jobs
    BY DEF HistoryInv, JobsRead
  <2>2. /\ i \in Nat /\ i <= Len(sync[s].jobs) /\ sync[s].next \in Nat
        /\ Len(sync[s].jobs) \in Nat /\ KeysFor(qFile.jobs[i]) \subseteq Keys
    BY <2>1, JobIs, SyncIs, KeysAre DEF HistoryInv
  <2>3. i < sync[s].next
    BY <2>2
  <2>4. \E k \in KeysFor(qFile.jobs[i]) : \/ sync[s].updates[k] # NotEntered
                                       \/ registry[k] # NotEntered
    BY <2>1, <2>3 DEF HistoryInv, LookedAt
  <2> QED
    BY <1>4, <2>2, <2>4
<1> QED
  BY <1>6, <1>7, <1>8, <1>9, <1>10, <1>11 DEF HistoryInv

(* The registry is saved. *)
LEMMA SaveKeeps ==
    ASSUME HistoryInv, NEW s \in Syncs, Save(s)
    PROVE  HistoryInv'
<1> USE DEF Save, Keep, world
<1>1. sync \in [Syncs -> Sync] /\ sync' = [sync EXCEPT ![s] = NoSync] /\ NoSync \in Sync
  BY NoSyncIs DEF HistoryInv, HistoryTypeOK, Sync
<1>2. \A t \in Syncs : sync'[t] = IF t = s THEN NoSync ELSE sync[t]
  BY <1>1
<1>3. HistoryTypeOK'
  <2>1. sync' \in [Syncs -> Sync] /\ stored' \in [Keys -> HistoryEntry]
    BY <1>1 DEF HistoryInv, HistoryTypeOK
  <2> QED
    BY <2>1 DEF HistoryInv, HistoryTypeOK, Sync
<1>4. NoSync.at = "idle" /\ NoSync.mtime = 0 /\ NoSync.next = 1
  BY DEF NoSync
<1>5. World'
  BY <1>2, <1>4 DEF HistoryInv, HistoryTypeOK, World, Prefix, Times, OutputsThere, RowsAgree
<1>6. JobsRead' /\ RowsRead' /\ LookedAt'
  BY <1>2, <1>4 DEF HistoryInv, JobsRead, RowsRead, LookedAt, Prefix, KeysFor
<1>7. AllGood'
  <2>1. Good(registry)' /\ Good(stored)'
    BY DEF HistoryInv, AllGood, Good, GoodEntry
  <2>2. \A t \in Syncs : Good(sync'[t].updates)
    BY <1>2, NoSyncIs DEF HistoryInv, AllGood
  <2> QED
    BY <2>1, <2>2 DEF AllGood, Good, GoodEntry
<1>8. Covered'
  BY DEF HistoryInv, Covered, KeysFor
<1> QED
  BY <1>3, <1>5, <1>6, <1>7, <1>8 DEF HistoryInv

(* Every step keeps the invariant. *)
LEMMA HistoryInvStep == HistoryInv /\ [HistoryNext]_historyVars => HistoryInv'
<1> SUFFICES ASSUME HistoryInv, [HistoryNext]_historyVars PROVE HistoryInv'
  OBVIOUS
<1>1. CASE UNCHANGED historyVars
  <2>1. HistoryTypeOK' /\ World'
    BY <1>1 DEF historyVars, world, HistoryInv, HistoryTypeOK, World, Prefix, Times,
       OutputsThere, RowsAgree
  <2> QED
    BY <1>1, <2>1, OutsideKeeps DEF historyVars, world, Prefix
<1> QED
  BY <1>1, CompleteKeeps, SaveQueueKeeps, ScanKeeps, EditKeeps, RestartHistoryKeeps, ReadKeeps,
     LookKeepsHistory, EnterKeeps, SaveKeeps
  DEF HistoryNext

(* The history and its synchronisations keep their types. *)
THEOREM HistoryTypes == HistorySpec => []HistoryTypeOK
<1>1. HistoryInv => HistoryTypeOK
  BY DEF HistoryInv
<1> QED
  BY HistoryInvInit, HistoryInvStep, <1>1, PTL DEF HistorySpec

(* Once the last save of the queue has been dealt with, a file that was    *)
(* downloaded once, and is as it was, is known by its own output, however  *)
(* synchronisations, saves, scans and restarts overlapped, as long as no   *)
(* scan gave a row's ID to another remote file: by the key of its row or,  *)
(* if the row was missing or does not tell the size, by a key of its own.  *)
THEOREM DownloadsKnown == HistorySpec => []DownloadsAreKnown
<1>1. HistoryInv => DownloadsAreKnown
  <2> SUFFICES ASSUME HistoryInv, ~reused, seen = qFile.mtime, NEW i \in DOMAIN qFile.jobs,
                      \A k \in DOMAIN qFile.jobs :
                        qFile.jobs[k].remote = qFile.jobs[i].remote => k = i,
                      qFile.jobs[i].path \notin edited
               PROVE  LET j == qFile.jobs[i]
                      IN \/ Known(LookupKey(j.remote), j.path)
                         \/ /\ j.id \in lost \/ j.remote \in Unsized
                            /\ Known(OwnKey(j.remote), j.path)
    BY DEF DownloadsAreKnown
  <2> DEFINE j == qFile.jobs[i]
  <2>1. PICK k \in KeysFor(j) : registry[k] # NotEntered
    BY DEF HistoryInv, Covered
  <2>2. k \in Keys /\ k[1] = j.remote
    BY JobIs, KeysAre DEF HistoryInv, HistoryTypeOK
  <2>3. GoodEntry(k, registry[k])
    BY <2>2 DEF HistoryInv, AllGood, Good
  <2>4. registry[k].path = j.path
    BY <2>1, <2>2, <2>3 DEF GoodEntry
  <2>5. Known(k, j.path)
    BY <2>1, <2>3, <2>4 DEF GoodEntry, Known
  <2>6. CASE k = RowKey(j.remote)
    BY <2>5, <2>6 DEF RowKey, OwnKey, LookupKey
  <2>7. CASE k = OwnKey(j.remote) /\ j.id \in lost
    BY <2>5, <2>7
  <2> QED
    BY <2>1, <2>6, <2>7 DEF KeysFor
<1> QED
  BY HistoryInvInit, HistoryInvStep, <1>1, PTL DEF HistorySpec

=============================================================================
