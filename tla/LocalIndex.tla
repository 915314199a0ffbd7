----------------------------- MODULE LocalIndex -----------------------------
(***************************************************************************)
(* The index of local files (App.index, main.go) and the exact comparison  *)
(* of ExactGuard (download_guard.go), which relies on it.                  *)
(*                                                                         *)
(* Three goroutines rebuild the index: runIndex, which holds the operation *)
(* slot; the walk before a comparison, which may hold nothing; and the walk*)
(* of a download's preflight, under guardMu.  They copy the index, walk the*)
(* folders and replace the index as a whole.  Meanwhile ensureHash hashes a*)
(* file and puts the hash into the index, the programs around DDG write and*)
(* delete files, and a preflight within five minutes of a walk uses what   *)
(* that walk found (download_guard_fresh_cache.go).                        *)
(*                                                                         *)
(* A file is its version: every write at a path makes a new one, with a new*)
(* modification time, which never comes back, and a content of its own.    *)
(* All files have the size of the remote file that is looked for.          *)
(***************************************************************************)
EXTENDS Integers

CONSTANTS
    Paths,       \* local files
    Wanted,      \* the one a wanted content is at, if it is anywhere
    Listed,      \* those that pass cfg.Extensions and cfg.MinSize
    Temporary,   \* those isGuardTemporaryFile refuses
    Outside,     \* those under no configured root
    MaxChanges,  \* bound on the changes of files and finished downloads
    MaxWalks     \* bound on the walks begun

VARIABLES
    files,      \* the version of each file, 0 when there is none
    last,      \* the last version it had
    changes,   \* changes so far
    index,     \* App.index: the version an entry was made for, and its hash
    wAt,       \* what each walk is doing
    wOld,      \* the index it has copied
    wTodo,     \* what it has not come to yet
    wFound,    \* the version it found, 0 for none or a file passed over
    walks,     \* walks begun
    snapshot,  \* guardRefreshSnapshots: what the last refresh found
    fresh,     \* it may be reused: the same roots, and less than five minutes
    jAt,       \* where each caller of ensureHash is
    jPath,     \* the file it asks for
    jEntry,    \* the entry it has read
    jGot,      \* the hash: the version whose content was read
    gAt,       \* what ExactGuard is doing, or its verdict
    gRemote,   \* the remote content: that of this version of Wanted
    gSeen,     \* the entries it goes by
    gLeft,     \* candidates it has not compared
    gSure      \* history: those it compared by an entry of the version seen

diskVars == <<files, last, changes>>
walkers == <<wAt, wOld, wTodo, wFound, walks>>
jobs == <<jAt, jPath, jEntry, jGot>>
guarding == <<gAt, gRemote, gSeen, gLeft, gSure>>
indexVars == <<diskVars, index, walkers, snapshot, fresh, jobs, guarding>>

Walks == {"runIndex", "compare", "preflight"}
Callers == {"verify", "guard"}
Entry == [stamp : Nat, hash : Nat]
NoEntry == [stamp |-> 0, hash |-> 0]
Nothing == [p \in Paths |-> 0]
NoEntries == [p \in Paths |-> NoEntry]

IndexTypeOK ==
    /\ files \in [Paths -> Nat]
    /\ last \in [Paths -> Nat]
    /\ changes \in Nat
    /\ index \in [Paths -> Entry]
    /\ wAt \in [Walks -> {"idle", "walk"}]
    /\ wOld \in [Walks -> [Paths -> Entry]]
    /\ wTodo \in [Walks -> SUBSET Paths]
    /\ wFound \in [Walks -> [Paths -> Nat]]
    /\ walks \in Nat
    /\ snapshot \in [Paths -> Nat]
    /\ fresh \in BOOLEAN
    /\ jAt \in [Callers -> {"idle", "read", "store", "done", "failed"}]
    /\ jPath \in [Callers -> Paths \cup {Wanted}]
    /\ jEntry \in [Callers -> Entry]
    /\ jGot \in [Callers -> Nat]
    /\ gAt \in {"idle", "judge", "DOWNLOAD", "DUPLICATE"}
    /\ gRemote \in Nat
    /\ gSeen \in [Paths -> Nat]
    /\ gLeft \subseteq Paths
    /\ gSure \subseteq Paths

IndexInit ==
    /\ files = [p \in Paths |-> 1]
    /\ last = files
    /\ changes = 0
    /\ index = NoEntries
    /\ wAt = [w \in Walks |-> "idle"]
    /\ wOld = [w \in Walks |-> NoEntries]
    /\ wTodo = [w \in Walks |-> {}]
    /\ wFound = [w \in Walks |-> Nothing]
    /\ walks = 0
    /\ snapshot = Nothing
    /\ fresh = FALSE
    /\ jAt = [c \in Callers |-> "idle"]
    /\ jPath = [c \in Callers |-> Wanted]
    /\ jEntry = [c \in Callers |-> NoEntry]
    /\ jGot = [c \in Callers |-> 0]
    /\ gAt = "idle"
    /\ gRemote = 0
    /\ gSeen = Nothing
    /\ gLeft = {}
    /\ gSure = {}

-----------------------------------------------------------------------------
(* The files *)

Alter ==
    /\ changes < MaxChanges
    /\ changes' = changes + 1
    /\ UNCHANGED <<index, walkers, snapshot, fresh, jobs, guarding>>

Write(p) ==
    /\ Alter
    /\ last' = [last EXCEPT ![p] = @ + 1]
    /\ files' = [files EXCEPT ![p] = last[p] + 1]

Delete(p) ==
    /\ Alter
    /\ files[p] # 0
    /\ files' = [files EXCEPT ![p] = 0]
    /\ UNCHANGED last

-----------------------------------------------------------------------------
(* Rebuilding the index *)

(* runIndex walks the configured folders for what it is to list; the others*)
(* walk them for everything but unfinished downloads, and then look at what*)
(* the index has from elsewhere.                                           *)
Covered(w) ==
    IF w = "runIndex" THEN Paths \ Outside
    ELSE {p \in Paths : p \in Outside => index[p] # NoEntry}
Passes(w, p) == IF w = "runIndex" THEN p \in Listed ELSE p \notin Temporary

StartWalk(w) ==
    /\ wAt[w] = "idle"
    /\ walks < MaxWalks
    /\ w = "preflight" => ~fresh /\ gAt = "idle"
    /\ walks' = walks + 1
    /\ wAt' = [wAt EXCEPT ![w] = "walk"]
    /\ wOld' = [wOld EXCEPT ![w] = index]
    /\ wTodo' = [wTodo EXCEPT ![w] = Covered(w)]
    /\ wFound' = [wFound EXCEPT ![w] = Nothing]
    /\ UNCHANGED <<diskVars, index, snapshot, fresh, jobs, guarding>>

Visit(w, p) ==
    /\ wAt[w] = "walk"
    /\ p \in wTodo[w]
    /\ wTodo' = [wTodo EXCEPT ![w] = @ \ {p}]
    /\ wFound' = [wFound EXCEPT ![w][p] = IF Passes(w, p) THEN files[p] ELSE 0]
    /\ UNCHANGED <<diskVars, index, wAt, wOld, walks, snapshot, fresh, jobs, guarding>>

EndWalk(w) ==
    /\ wAt[w] = "walk"
    /\ wAt' = [wAt EXCEPT ![w] = "idle"]
    /\ wOld' = [wOld EXCEPT ![w] = NoEntries]
    /\ wTodo' = [wTodo EXCEPT ![w] = {}]
    /\ wFound' = [wFound EXCEPT ![w] = Nothing]
    /\ UNCHANGED <<diskVars, walks, jobs>>

(* The context of the walk is cancelled: nothing it found is kept. *)
CancelWalk(w) ==
    /\ EndWalk(w)
    /\ UNCHANGED <<index, snapshot, fresh, guarding>>

(* A hash is kept for a file whose size and time are those of the entry.   *)
Rebuilt(w) ==
    [p \in Paths |->
        IF w = "runIndex" /\ p \in Outside THEN wOld[w][p]
        ELSE IF wFound[w][p] = 0 THEN NoEntry
        ELSE [stamp |-> wFound[w][p],
              hash |-> IF wOld[w][p].stamp = wFound[w][p]
                       THEN wOld[w][p].hash ELSE 0]]

(* ExactGuard compares a remote file with the files in seen. *)
Begin(seen) ==
    /\ gAt = "idle"
    /\ gAt' = "judge"
    /\ gSeen' = seen
    /\ gLeft' = {p \in Paths : seen[p] # 0}
    /\ gSure' = {}
    /\ gRemote' \in 0 .. last[Wanted]

(* The index is replaced.  A refresh is remembered for the next preflight; *)
(* a preflight goes on with what its walk found.                           *)
Publish(w) ==
    /\ EndWalk(w)
    /\ wTodo[w] = {}
    /\ index' = Rebuilt(w)
    /\ IF w = "runIndex" THEN UNCHANGED <<snapshot, fresh>>
       ELSE snapshot' = wFound[w] /\ fresh' = TRUE
    /\ IF w = "preflight" THEN Begin(wFound[w]) ELSE UNCHANGED guarding

(* Five minutes have passed, or the folders are configured differently. *)
Expire ==
    /\ fresh
    /\ fresh' = FALSE
    /\ snapshot' = Nothing
    /\ UNCHANGED <<diskVars, index, walkers, jobs, guarding>>

(* A finished download is put into the index without a hash. *)
AddDownloaded(p) ==
    /\ files[p] # 0
    /\ changes < MaxChanges
    /\ changes' = changes + 1
    /\ index' = [index EXCEPT ![p] = [stamp |-> files[p], hash |-> 0]]
    /\ UNCHANGED <<files, last, walkers, snapshot, fresh, jobs, guarding>>

(* pruneRemovedLocalRoots, under guardMu: a folder is configured no more.  *)
Prune ==
    /\ gAt = "idle" /\ wAt["preflight"] = "idle"
    /\ index' = [p \in Paths |-> IF p \in Outside THEN NoEntry ELSE index[p]]
    /\ UNCHANGED <<diskVars, walkers, snapshot, fresh, jobs, guarding>>

-----------------------------------------------------------------------------
(* ensureHash *)

(* The entry is looked up: without one it fails, with a hash it is done.   *)
Lookup(c, p) ==
    /\ jPath' = [jPath EXCEPT ![c] = p]
    /\ jEntry' = [jEntry EXCEPT ![c] = index[p]]
    /\ jGot' = [jGot EXCEPT ![c] = index[p].hash]
    /\ jAt' = [jAt EXCEPT ![c] =
                IF index[p].stamp = 0 THEN "failed"
                ELSE IF index[p].hash # 0 THEN "done" ELSE "read"]

(* A comparison or a verification asks for the hash of a file; only when   *)
(* the entry has none does that change anything here.                      *)
Verify(p) ==
    /\ jAt["verify"] = "idle"
    /\ index[p].stamp # 0 /\ index[p].hash = 0
    /\ Lookup("verify", p)
    /\ UNCHANGED <<diskVars, index, walkers, snapshot, fresh, guarding>>

(* ensureHash returns; who verifies is done with it, ExactGuard judges.    *)
Return(c, how) ==
    /\ jAt' = [jAt EXCEPT ![c] = IF c = "guard" THEN how ELSE "idle"]
    /\ jEntry' = [jEntry EXCEPT ![c] = IF c = "guard" THEN @ ELSE NoEntry]
    /\ jGot' = [jGot EXCEPT ![c] = IF c = "guard" THEN @ ELSE 0]
    /\ jPath' = [jPath EXCEPT ![c] = IF c = "guard" THEN @ ELSE Wanted]
    /\ UNCHANGED <<diskVars, walkers, snapshot, fresh, guarding>>

ReadFile(c) ==
    /\ jAt[c] = "read"
    /\ files[jPath[c]] # 0
    /\ jGot' = [jGot EXCEPT ![c] = files[jPath[c]]]
    /\ jAt' = [jAt EXCEPT ![c] = "store"]
    /\ UNCHANGED <<diskVars, index, walkers, snapshot, fresh, jPath, jEntry, guarding>>

(* The file is gone, locked, or cannot be read to its end. *)
ReadFails(c) ==
    /\ jAt[c] = "read"
    /\ Return(c, "failed")
    /\ UNCHANGED index

(* Faulty variant: the hash goes into the entry that is there by now. *)
Store_LatestEntry(c) ==
    /\ jAt[c] = "store"
    /\ index' = [index EXCEPT ![jPath[c]] =
                    [stamp |-> index[jPath[c]].stamp, hash |-> jGot[c]]]
    /\ Return(c, "done")

(* The entry read at the beginning goes back with the hash, over whatever  *)
(* a walk has put there.                                                   *)
Store(c) ==
    /\ jAt[c] = "store"
    /\ index' = [index EXCEPT ![jPath[c]] =
                    [stamp |-> jEntry[c].stamp, hash |-> jGot[c]]]
    /\ Return(c, "done")

-----------------------------------------------------------------------------
(* ExactGuard, for a remote file whose hash is known *)

(* A preflight soon after a walk goes by what that walk found. *)
Reuse ==
    /\ fresh
    /\ wAt["preflight"] = "idle"
    /\ Begin(snapshot)
    /\ UNCHANGED <<diskVars, index, walkers, snapshot, fresh, jobs>>

CompareHash(p) ==
    /\ gAt = "judge"
    /\ jAt["guard"] = "idle"
    /\ p \in gLeft
    /\ Lookup("guard", p)
    /\ UNCHANGED <<diskVars, index, walkers, snapshot, fresh, guarding>>

Differs == jPath["guard"] # Wanted \/ jGot["guard"] # gRemote

(* Faulty variant: an equal hash does not end the comparison. *)
Judge_KeepsLooking ==
    /\ gAt = "judge"
    /\ jAt["guard"] \in {"done", "failed"}
    /\ jAt' = [jAt EXCEPT !["guard"] = "idle"]
    /\ gLeft' = gLeft \ {jPath["guard"]}
    /\ gSure' = IF jAt["guard"] = "done"
                   /\ jEntry["guard"].stamp = gSeen[jPath["guard"]]
                THEN gSure \cup {jPath["guard"]} ELSE gSure
    /\ UNCHANGED <<diskVars, index, walkers, snapshot, fresh, jPath, jEntry, jGot,
                   gAt, gRemote, gSeen>>

(* An equal hash ends the comparison.  A candidate that could not be hashed*)
(* is passed over like one that differs.                                   *)
Judge ==
    /\ gAt = "judge"
    /\ jAt["guard"] \in {"done", "failed"}
    /\ jAt' = [jAt EXCEPT !["guard"] = "idle"]
    /\ gLeft' = gLeft \ {jPath["guard"]}
    /\ gSure' = IF jAt["guard"] = "done"
                   /\ jEntry["guard"].stamp = gSeen[jPath["guard"]]
                THEN gSure \cup {jPath["guard"]} ELSE gSure
    /\ gAt' = IF Differs \/ jAt["guard"] = "failed" THEN "judge" ELSE "DUPLICATE"
    /\ UNCHANGED <<diskVars, index, walkers, snapshot, fresh, jPath, jEntry, jGot,
                   gRemote, gSeen>>

Clear ==
    /\ gAt = "judge"
    /\ gLeft = {} /\ jAt["guard"] = "idle"
    /\ gAt' = "DOWNLOAD"
    /\ UNCHANGED <<diskVars, index, walkers, snapshot, fresh, jobs, gRemote, gSeen,
                   gLeft, gSure>>

(* The report is given and guardMu released. *)
Report ==
    /\ gAt \in {"DOWNLOAD", "DUPLICATE"}
    /\ gAt' = "idle"
    /\ gRemote' = 0
    /\ gSeen' = Nothing
    /\ gLeft' = {}
    /\ gSure' = {}
    /\ jEntry' = [jEntry EXCEPT !["guard"] = NoEntry]
    /\ jGot' = [jGot EXCEPT !["guard"] = 0]
    /\ jPath' = [jPath EXCEPT !["guard"] = Wanted]
    /\ UNCHANGED <<diskVars, index, walkers, snapshot, fresh, jAt>>

IndexNext ==
    \/ \E p \in Paths :
        \/ Write(p) \/ Delete(p)
        \/ AddDownloaded(p)
        \/ Verify(p)
        \/ CompareHash(p)
    \/ \E w \in Walks :
        \/ StartWalk(w)
        \/ \E p \in Paths : Visit(w, p)
        \/ CancelWalk(w)
        \/ Publish(w)
    \/ \E c \in Callers : ReadFile(c) \/ ReadFails(c) \/ Store(c)
    \/ Expire
    \/ Prune
    \/ Reuse
    \/ Judge
    \/ Clear
    \/ Report

IndexSpec == IndexInit /\ [][IndexNext]_indexVars

-----------------------------------------------------------------------------
(* Properties *)

(* Whatever walks, hashes and changes of the files overlap, an index entry *)
(* that is as new as its file has, if any, the hash of that file.  It is   *)
(* what makes an exact verdict from a cached hash exact.                   *)
HashIsCurrent ==
    \A p \in Paths :
        index[p].hash # 0 /\ index[p].stamp = files[p] => index[p].hash = files[p]

(* ExactGuard's verdicts, for the files it compared by an entry of the     *)
(* version it saw and that have stayed that version: it blocks a download  *)
(* only for the file that holds the remote content, and clears one only if *)
(* no such file holds it.                                                  *)
GuardVerdictHolds ==
    \A p \in gSure :
        files[p] = gSeen[p] =>
            /\ gAt = "DUPLICATE" /\ p = jPath["guard"]
                  => p = Wanted /\ gRemote = files[p]
            /\ gAt = "DOWNLOAD"
                  => ~(p = Wanted /\ gRemote = files[p])

=============================================================================
