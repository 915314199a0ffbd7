-------------------------- MODULE ComparisonProofs --------------------------
(***************************************************************************)
(* Proofs about what a comparison of remote with local files rests on: the *)
(* index of local files (LocalIndex), the verdict on one file (FileVerdict)*)
(* and the table that shows the verdicts (ResultsTable).                   *)
(***************************************************************************)
EXTENDS LocalIndex, FileVerdict, ResultsTable, TLAPS

-----------------------------------------------------------------------------
(***************************************************************************)
(* The index, for any files and any number of changes and walks: an entry  *)
(* as new as its file has the hash of that file, and ExactGuard's exact    *)
(* verdicts hold for the versions it compared.                             *)
(*                                                                         *)
(* The argument: versions only grow, a file is read after the entry that   *)
(* its hash goes into was made, and an entry is replaced as a whole. So    *)
(* every pair of a stamp and a hash, in the index, in the copy of a walk or*)
(* in the hands of a caller of ensureHash, has a hash of its stamp's       *)
(* version or of a later one (Sound). If the stamp is the version on the   *)
(* files, which is the last one, the hash is of that version too.          *)
(***************************************************************************)

Sound(p, stamp, hash) ==
    /\ stamp <= last[p]
    /\ hash # 0 => 1 <= stamp /\ stamp <= hash /\ hash <= last[p]

(* Nothing has been seen that never was. *)
Ages ==
    \A p \in Paths :
        /\ files[p] = 0 \/ files[p] = last[p]
        /\ gSeen[p] <= last[p]
        /\ snapshot[p] <= last[p]
        /\ \A w \in Walks : wFound[w][p] <= last[p]

Entries ==
    \A p \in Paths :
        /\ Sound(p, index[p].stamp, index[p].hash)
        /\ \A w \in Walks : Sound(p, wOld[w][p].stamp, wOld[w][p].hash)

(* What a caller of ensureHash holds. *)
Hashing ==
    \A c \in Callers : jAt[c] \in {"read", "store", "done"} =>
        /\ jPath[c] \in Paths
        /\ 1 <= jEntry[c].stamp /\ jEntry[c].stamp <= last[jPath[c]]
        /\ jAt[c] # "read" =>
               jEntry[c].stamp <= jGot[c] /\ jGot[c] <= last[jPath[c]]

(* What ExactGuard is doing. *)
Guarding ==
    /\ jAt["guard"] # "idle" => gAt = "judge" /\ jPath["guard"] \in gLeft
    /\ gSure \cap gLeft = {}
    /\ \A p \in gSure \cup gLeft : 1 <= gSeen[p]

(* What its comparisons have shown so far. *)
ShownHolds ==
    \A p \in gSure : files[p] = gSeen[p] =>
        /\ gAt \in {"judge", "DOWNLOAD"} => ~(p = Wanted /\ gRemote = files[p])
        /\ gAt = "DUPLICATE" /\ p = jPath["guard"] =>
               p = Wanted /\ gRemote = files[p]

IndexInv ==
    /\ IndexTypeOK
    /\ Ages
    /\ Entries
    /\ Hashing
    /\ Guarding
    /\ ShownHolds

-----------------------------------------------------------------------------
(* The types *)

LEMMA EntryType ==
    ASSUME NEW x \in Nat, NEW y \in Nat
    PROVE  /\ [stamp |-> x, hash |-> y] \in Entry
           /\ [stamp |-> x, hash |-> y].stamp = x
           /\ [stamp |-> x, hash |-> y].hash = y
BY DEF Entry

LEMMA NoEntryType ==
    /\ NoEntry \in Entry /\ NoEntry.stamp = 0 /\ NoEntry.hash = 0
BY DEF NoEntry, Entry

LEMMA EmptyType ==
    /\ NoEntries \in [Paths -> Entry] /\ Nothing \in [Paths -> Nat]
    /\ \A p \in Paths : NoEntries[p] = NoEntry /\ Nothing[p] = 0
BY NoEntryType DEF NoEntries, Nothing

LEMMA RebuiltType ==
    ASSUME IndexTypeOK, Ages, Entries, NEW w \in Walks
    PROVE  /\ Rebuilt(w) \in [Paths -> Entry]
           /\ \A p \in Paths : Sound(p, Rebuilt(w)[p].stamp, Rebuilt(w)[p].hash)
<1> SUFFICES ASSUME NEW p \in Paths
             PROVE  /\ Rebuilt(w)[p] \in Entry
                    /\ Sound(p, Rebuilt(w)[p].stamp, Rebuilt(w)[p].hash)
  BY DEF Rebuilt
<1>1. /\ wOld[w][p] \in Entry /\ wFound[w][p] \in Nat /\ last[p] \in Nat
      /\ Sound(p, wOld[w][p].stamp, wOld[w][p].hash)
      /\ wFound[w][p] <= last[p]
  BY DEF IndexTypeOK, Ages, Entries
<1>2. wOld[w][p].stamp \in Nat /\ wOld[w][p].hash \in Nat
  BY <1>1 DEF Entry
<1>3. CASE w = "runIndex" /\ p \in Outside
  BY <1>1, <1>3 DEF Rebuilt
<1>4. CASE ~(w = "runIndex" /\ p \in Outside) /\ wFound[w][p] = 0
  <2>1. Rebuilt(w)[p] = NoEntry
    BY <1>4 DEF Rebuilt
  <2> QED BY <1>1, <2>1, NoEntryType DEF Sound
<1>5. CASE ~(w = "runIndex" /\ p \in Outside) /\ wFound[w][p] # 0
  <2> DEFINE h == IF wOld[w][p].stamp = wFound[w][p] THEN wOld[w][p].hash ELSE 0
  <2>1. Rebuilt(w)[p] = [stamp |-> wFound[w][p], hash |-> h]
    BY <1>5 DEF Rebuilt
  <2>2. h \in Nat /\ (h # 0 => wOld[w][p].stamp = wFound[w][p] /\ h = wOld[w][p].hash)
    BY <1>2
  <2> HIDE DEF h
  <2>3. Sound(p, wFound[w][p], h)
    BY <1>1, <2>2 DEF Sound
  <2> QED BY <1>1, <2>1, <2>2, <2>3, EntryType
<1> QED BY <1>3, <1>4, <1>5

-----------------------------------------------------------------------------
LEMMA WriteStep ==
    ASSUME IndexInv, NEW p \in Paths, Write(p)
    PROVE  IndexInv'
<1> USE DEF IndexInv, diskVars, walkers, jobs, guarding
<1>1. IndexTypeOK'
  BY DEF IndexTypeOK, Write, Alter
<1>2. Ages'
  BY DEF IndexTypeOK, Ages, Write, Alter
<1>3. Entries'
  <2>1. \A q \in Paths :
            last[q] \in Nat /\ last'[q] \in Nat /\ last[q] <= last'[q]
    BY DEF IndexTypeOK, Write
  <2>2. index' = index /\ wOld' = wOld
    BY DEF Write, Alter
  <2>3. \A q \in Paths :
            /\ index[q].stamp \in Nat /\ index[q].hash \in Nat
            /\ \A w \in Walks : wOld[w][q].stamp \in Nat /\ wOld[w][q].hash \in Nat
    BY DEF IndexTypeOK, Entry
  <2> QED BY <2>1, <2>2, <2>3 DEF Entries, Sound
<1>4. Hashing'
  <2>1. \A q \in Paths :
            last[q] \in Nat /\ last'[q] \in Nat /\ last[q] <= last'[q]
    BY DEF IndexTypeOK, Write
  <2>2. jAt' = jAt /\ jPath' = jPath /\ jEntry' = jEntry /\ jGot' = jGot
    BY DEF Write, Alter
  <2>3. \A c \in Callers : jEntry[c].stamp \in Nat /\ jGot[c] \in Nat
    BY DEF IndexTypeOK, Entry
  <2> QED BY <2>1, <2>2, <2>3 DEF Hashing
<1>5. Guarding'
  BY DEF IndexTypeOK, Guarding, Write, Alter
<1>6. ShownHolds'
  <2>1. \A q \in gSure :
            /\ q \in Paths
            /\ files'[q] = gSeen[q] => files'[q] = files[q]
    BY DEF IndexTypeOK, Ages, Write
  <2>2. UNCHANGED guarding /\ jPath' = jPath
    BY DEF Write, Alter
  <2> QED BY <2>1, <2>2 DEF ShownHolds
<1> QED BY <1>1, <1>2, <1>3, <1>4, <1>5, <1>6

LEMMA DeleteStep ==
    ASSUME IndexInv, NEW p \in Paths, Delete(p)
    PROVE  IndexInv'
<1> USE DEF IndexInv, diskVars, walkers, jobs, guarding
<1>1. IndexTypeOK'
  BY DEF IndexTypeOK, Delete, Alter
<1>2. Ages'
  BY DEF IndexTypeOK, Ages, Delete, Alter
<1>3. Entries'
  BY DEF IndexTypeOK, Entries, Delete, Alter, Sound
<1>4. Hashing'
  BY DEF IndexTypeOK, Hashing, Delete, Alter
<1>5. Guarding'
  BY DEF IndexTypeOK, Guarding, Delete, Alter
<1>6. ShownHolds'
  <2>1. \A q \in gSure :
            /\ q \in Paths
            /\ files'[q] = gSeen[q] => files'[q] = files[q]
    BY DEF IndexTypeOK, Guarding, Delete
  <2>2. UNCHANGED guarding /\ jPath' = jPath
    BY DEF Delete, Alter
  <2> QED BY <2>1, <2>2 DEF ShownHolds
<1> QED BY <1>1, <1>2, <1>3, <1>4, <1>5, <1>6

LEMMA AddDownloadedStep ==
    ASSUME IndexInv, NEW p \in Paths, AddDownloaded(p)
    PROVE  IndexInv'
<1> USE DEF IndexInv, diskVars, walkers, jobs, guarding
<1>1. IndexTypeOK'
  BY EntryType DEF IndexTypeOK, AddDownloaded
<1>2. Ages'
  BY DEF IndexTypeOK, Ages, AddDownloaded
<1>3. Entries'
  <2>1. files[p] \in Nat /\ last[p] \in Nat /\ files[p] <= last[p]
    <3>1. files[p] \in Nat /\ last[p] \in Nat
      BY DEF IndexTypeOK
    <3>2. files[p] = 0 \/ files[p] = last[p]
      BY DEF Ages
    <3> QED BY <3>1, <3>2
  <2>2. /\ index'[p].stamp = files[p] /\ index'[p].hash = 0
        /\ \A q \in Paths : q # p => index'[q] = index[q]
        /\ wOld' = wOld /\ last' = last
    BY <2>1, EntryType DEF IndexTypeOK, AddDownloaded
  <2> QED BY <2>1, <2>2 DEF Entries, Sound
<1>4. Hashing'
  BY DEF IndexTypeOK, Hashing, AddDownloaded
<1>5. Guarding'
  BY DEF IndexTypeOK, Guarding, AddDownloaded
<1>6. ShownHolds'
  BY DEF IndexTypeOK, ShownHolds, AddDownloaded
<1> QED BY <1>1, <1>2, <1>3, <1>4, <1>5, <1>6

LEMMA VerifyStep ==
    ASSUME IndexInv, NEW p \in Paths, Verify(p)
    PROVE  IndexInv'
<1> USE DEF IndexInv, diskVars, walkers, jobs, guarding
<1>1. IndexTypeOK'
  <2>1. /\ index[p] \in Entry /\ last[p] \in Nat
        /\ index[p].stamp \in Nat /\ index[p].hash \in Nat
        /\ Sound(p, index[p].stamp, index[p].hash)
    BY DEF IndexTypeOK, Entries, Entry
  <2>2. /\ jPath' = [jPath EXCEPT !["verify"] = p]
        /\ jEntry' = [jEntry EXCEPT !["verify"] = index[p]]
        /\ jGot' = [jGot EXCEPT !["verify"] = index[p].hash]
        /\ jAt' = [jAt EXCEPT !["verify"] =
                    IF index[p].stamp = 0 THEN "failed"
                    ELSE IF index[p].hash # 0 THEN "done" ELSE "read"]
        /\ "verify" \in Callers
    BY DEF Verify, Lookup, Callers
  <2>3. /\ jPath' \in [Callers -> Paths \cup {Wanted}]
        /\ jEntry' \in [Callers -> Entry] /\ jGot' \in [Callers -> Nat]
    BY <2>1, <2>2 DEF IndexTypeOK
  <2>4. jAt' \in [Callers -> {"idle", "read", "store", "done", "failed"}]
    BY <2>1, <2>2 DEF IndexTypeOK
  <2> QED BY <2>3, <2>4 DEF IndexTypeOK, Verify
<1>2. Ages'
  BY DEF IndexTypeOK, Ages, Verify, Lookup
<1>3. Entries'
  BY DEF IndexTypeOK, Entries, Verify, Lookup, Sound
<1>4. Hashing'
  <2>1. /\ index[p] \in Entry /\ last[p] \in Nat
        /\ index[p].stamp \in Nat /\ index[p].hash \in Nat
        /\ Sound(p, index[p].stamp, index[p].hash)
    BY DEF IndexTypeOK, Entries, Entry
  <2>2. /\ jPath' = [jPath EXCEPT !["verify"] = p]
        /\ jEntry' = [jEntry EXCEPT !["verify"] = index[p]]
        /\ jGot' = [jGot EXCEPT !["verify"] = index[p].hash]
        /\ jAt' = [jAt EXCEPT !["verify"] =
                    IF index[p].stamp = 0 THEN "failed"
                    ELSE IF index[p].hash # 0 THEN "done" ELSE "read"]
        /\ "verify" \in Callers
    BY DEF Verify, Lookup, Callers
  <2>3. last' = last
    BY DEF Verify
  <2>4. /\ jPath'["verify"] = p /\ jEntry'["verify"] = index[p]
        /\ jGot'["verify"] = index[p].hash
        /\ jAt'["verify"] \in {"read", "store", "done"} => index[p].stamp # 0
        /\ jAt'["verify"] \in {"store", "done"} => index[p].hash # 0
    BY <2>2 DEF IndexTypeOK
  <2>5. \A c \in Callers : c # "verify" =>
            /\ jAt'[c] = jAt[c] /\ jPath'[c] = jPath[c]
            /\ jEntry'[c] = jEntry[c] /\ jGot'[c] = jGot[c]
    BY <2>2 DEF IndexTypeOK
  <2> QED BY <2>1, <2>3, <2>4, <2>5 DEF Hashing, Sound
<1>5. Guarding'
  BY DEF IndexTypeOK, Guarding, Verify, Lookup
<1>6. ShownHolds'
  BY DEF IndexTypeOK, ShownHolds, Verify, Lookup
<1> QED BY <1>1, <1>2, <1>3, <1>4, <1>5, <1>6

LEMMA GuardCompareStep ==
    ASSUME IndexInv, NEW p \in Paths, CompareHash(p)
    PROVE  IndexInv'
<1> USE DEF IndexInv, diskVars, walkers, jobs, guarding
<1>1. IndexTypeOK'
  <2>1. /\ index[p] \in Entry /\ last[p] \in Nat
        /\ index[p].stamp \in Nat /\ index[p].hash \in Nat
        /\ Sound(p, index[p].stamp, index[p].hash)
    BY DEF IndexTypeOK, Entries, Entry
  <2>2. /\ jPath' = [jPath EXCEPT !["guard"] = p]
        /\ jEntry' = [jEntry EXCEPT !["guard"] = index[p]]
        /\ jGot' = [jGot EXCEPT !["guard"] = index[p].hash]
        /\ jAt' = [jAt EXCEPT !["guard"] =
                    IF index[p].stamp = 0 THEN "failed"
                    ELSE IF index[p].hash # 0 THEN "done" ELSE "read"]
        /\ "guard" \in Callers
    BY DEF CompareHash, Lookup, Callers
  <2>3. /\ jPath' \in [Callers -> Paths \cup {Wanted}]
        /\ jEntry' \in [Callers -> Entry] /\ jGot' \in [Callers -> Nat]
    BY <2>1, <2>2 DEF IndexTypeOK
  <2>4. jAt' \in [Callers -> {"idle", "read", "store", "done", "failed"}]
    BY <2>1, <2>2 DEF IndexTypeOK
  <2> QED BY <2>3, <2>4 DEF IndexTypeOK, CompareHash
<1>2. Ages'
  BY DEF IndexTypeOK, Ages, CompareHash, Lookup
<1>3. Entries'
  BY DEF IndexTypeOK, Entries, CompareHash, Lookup, Sound
<1>4. Hashing'
  <2>1. /\ index[p] \in Entry /\ last[p] \in Nat
        /\ index[p].stamp \in Nat /\ index[p].hash \in Nat
        /\ Sound(p, index[p].stamp, index[p].hash)
    BY DEF IndexTypeOK, Entries, Entry
  <2>2. /\ jPath' = [jPath EXCEPT !["guard"] = p]
        /\ jEntry' = [jEntry EXCEPT !["guard"] = index[p]]
        /\ jGot' = [jGot EXCEPT !["guard"] = index[p].hash]
        /\ jAt' = [jAt EXCEPT !["guard"] =
                    IF index[p].stamp = 0 THEN "failed"
                    ELSE IF index[p].hash # 0 THEN "done" ELSE "read"]
        /\ "guard" \in Callers
    BY DEF CompareHash, Lookup, Callers
  <2>3. last' = last
    BY DEF CompareHash
  <2>4. /\ jPath'["guard"] = p /\ jEntry'["guard"] = index[p]
        /\ jGot'["guard"] = index[p].hash
        /\ jAt'["guard"] \in {"read", "store", "done"} => index[p].stamp # 0
        /\ jAt'["guard"] \in {"store", "done"} => index[p].hash # 0
    BY <2>2 DEF IndexTypeOK
  <2>5. \A c \in Callers : c # "guard" =>
            /\ jAt'[c] = jAt[c] /\ jPath'[c] = jPath[c]
            /\ jEntry'[c] = jEntry[c] /\ jGot'[c] = jGot[c]
    BY <2>2 DEF IndexTypeOK
  <2> QED BY <2>1, <2>3, <2>4, <2>5 DEF Hashing, Sound
<1>5. Guarding'
  BY DEF IndexTypeOK, Guarding, CompareHash, Lookup
<1>6. ShownHolds'
  BY DEF IndexTypeOK, ShownHolds, CompareHash, Lookup
<1> QED BY <1>1, <1>2, <1>3, <1>4, <1>5, <1>6

LEMMA StartWalkStep ==
    ASSUME IndexInv, NEW w \in Walks, StartWalk(w)
    PROVE  IndexInv'
<1> USE DEF IndexInv, diskVars, walkers, jobs, guarding
<1>1. IndexTypeOK'
  BY EmptyType DEF IndexTypeOK, StartWalk, Covered
<1>2. Ages'
  BY EmptyType DEF IndexTypeOK, Ages, StartWalk, Covered
<1>3. Entries'
  BY DEF IndexTypeOK, Entries, StartWalk, Covered, Sound
<1>4. Hashing'
  BY DEF IndexTypeOK, Hashing, StartWalk, Covered
<1>5. Guarding'
  BY DEF IndexTypeOK, Guarding, StartWalk, Covered
<1>6. ShownHolds'
  BY DEF IndexTypeOK, ShownHolds, StartWalk, Covered
<1> QED BY <1>1, <1>2, <1>3, <1>4, <1>5, <1>6

LEMMA VisitStep ==
    ASSUME IndexInv, NEW w \in Walks, NEW p \in Paths, Visit(w, p)
    PROVE  IndexInv'
<1> USE DEF IndexInv, diskVars, walkers, jobs, guarding
<1>1. IndexTypeOK'
  BY DEF IndexTypeOK, Visit
<1>2. Ages'
  BY DEF IndexTypeOK, Ages, Visit
<1>3. Entries'
  BY DEF IndexTypeOK, Entries, Visit, Sound
<1>4. Hashing'
  BY DEF IndexTypeOK, Hashing, Visit
<1>5. Guarding'
  BY DEF IndexTypeOK, Guarding, Visit
<1>6. ShownHolds'
  BY DEF IndexTypeOK, ShownHolds, Visit
<1> QED BY <1>1, <1>2, <1>3, <1>4, <1>5, <1>6

LEMMA CancelWalkStep ==
    ASSUME IndexInv, NEW w \in Walks, CancelWalk(w)
    PROVE  IndexInv'
<1> USE DEF IndexInv, diskVars, walkers, jobs, guarding
<1>1. IndexTypeOK'
  BY EmptyType DEF IndexTypeOK, CancelWalk, EndWalk
<1>2. Ages'
  BY EmptyType DEF IndexTypeOK, Ages, CancelWalk, EndWalk
<1>3. Entries'
  BY NoEntryType, EmptyType DEF IndexTypeOK, Entries, CancelWalk, EndWalk, Sound
<1>4. Hashing'
  BY DEF IndexTypeOK, Hashing, CancelWalk, EndWalk
<1>5. Guarding'
  BY DEF IndexTypeOK, Guarding, CancelWalk, EndWalk
<1>6. ShownHolds'
  BY DEF IndexTypeOK, ShownHolds, CancelWalk, EndWalk
<1> QED BY <1>1, <1>2, <1>3, <1>4, <1>5, <1>6

LEMMA PublishStep ==
    ASSUME IndexInv, NEW w \in Walks, Publish(w)
    PROVE  IndexInv'
<1> USE DEF IndexInv, diskVars, walkers, jobs, guarding
<1>1. IndexTypeOK'
  <2>1. /\ wAt' \in [Walks -> {"idle", "walk"}]
        /\ wOld' \in [Walks -> [Paths -> Entry]]
        /\ wTodo' \in [Walks -> SUBSET Paths]
        /\ wFound' \in [Walks -> [Paths -> Nat]]
        /\ walks' = walks
    BY EmptyType DEF IndexTypeOK, Publish, EndWalk
  <2>2. index' \in [Paths -> Entry]
    <3>1. IndexTypeOK /\ Ages /\ Entries
      OBVIOUS
    <3>2. index' = Rebuilt(w)
      BY DEF Publish
    <3> QED BY <3>1, <3>2, RebuiltType
  <2>3. snapshot' \in [Paths -> Nat] /\ fresh' \in BOOLEAN
    <3>1. wFound[w] \in [Paths -> Nat]
      BY DEF IndexTypeOK
    <3>2. \/ snapshot' = snapshot /\ fresh' = fresh
          \/ snapshot' = wFound[w] /\ fresh' = TRUE
      BY DEF Publish
    <3> QED BY <3>1, <3>2 DEF IndexTypeOK
  <2>4. /\ gAt' \in {"idle", "judge", "DOWNLOAD", "DUPLICATE"}
        /\ gSeen' \in [Paths -> Nat]
        /\ gLeft' \subseteq Paths /\ gSure' \subseteq Paths
    <3>1. wFound[w] \in [Paths -> Nat]
      BY DEF IndexTypeOK
    <3>2. CASE w = "preflight"
      <4>1. gAt' = "judge" /\ gSeen' = wFound[w] /\ gSure' = {}
        BY <3>2 DEF Publish, Begin
      <4>2. gLeft' = {p \in Paths : wFound[w][p] # 0}
        BY <3>2 DEF Publish, Begin
      <4> QED BY <3>1, <4>1, <4>2
    <3>3. CASE w # "preflight"
      BY <3>3 DEF IndexTypeOK, Publish
    <3> QED BY <3>2, <3>3
  <2>5. gRemote' \in Nat
    <3>1. CASE w = "preflight"
      <4>1. PICK n \in 0 .. last[Wanted] : gRemote' = n
        BY <3>1 DEF Publish, Begin
      <4> QED BY <4>1
    <3>2. CASE w # "preflight"
      BY <3>2 DEF IndexTypeOK, Publish
    <3> QED BY <3>1, <3>2
  <2>6. UNCHANGED <<files, last, changes, jAt, jPath, jEntry, jGot>>
    BY DEF Publish, EndWalk
  <2> QED BY <2>1, <2>2, <2>3, <2>4, <2>5, <2>6 DEF IndexTypeOK
<1>2. Ages'
  BY EmptyType DEF IndexTypeOK, Ages, Publish, EndWalk, Begin
<1>3. Entries'
  BY NoEntryType, EmptyType, RebuiltType DEF IndexTypeOK, Entries, Publish, EndWalk, Begin, Sound
<1>4. Hashing'
  BY DEF IndexTypeOK, Hashing, Publish, EndWalk, Begin
<1>5. Guarding'
  BY DEF IndexTypeOK, Guarding, Publish, EndWalk, Begin
<1>6. ShownHolds'
  BY DEF IndexTypeOK, ShownHolds, Publish, EndWalk, Begin
<1> QED BY <1>1, <1>2, <1>3, <1>4, <1>5, <1>6

LEMMA ReadFileStep ==
    ASSUME IndexInv, NEW c \in Callers, ReadFile(c)
    PROVE  IndexInv'
<1> USE DEF IndexInv, diskVars, walkers, jobs, guarding
<1>1. IndexTypeOK'
  <2>1. files[jPath[c]] \in Nat
    BY DEF IndexTypeOK, Hashing, ReadFile
  <2> QED BY <2>1 DEF IndexTypeOK, ReadFile
<1>2. Ages'
  BY DEF IndexTypeOK, Ages, ReadFile
<1>3. Entries'
  BY DEF IndexTypeOK, Entries, ReadFile, Sound
<1>4. Hashing'
  <2>1. /\ jPath[c] \in Paths
        /\ jEntry[c].stamp \in Nat
        /\ 1 <= jEntry[c].stamp /\ jEntry[c].stamp <= last[jPath[c]]
    BY DEF Hashing, ReadFile, IndexTypeOK, Entry
  <2>2. files[jPath[c]] = last[jPath[c]] /\ last[jPath[c]] \in Nat
    BY <2>1 DEF Ages, IndexTypeOK, ReadFile
  <2>3. /\ jGot'[c] = last[jPath[c]]
        /\ \A d \in Callers : d # c => jAt'[d] = jAt[d] /\ jGot'[d] = jGot[d]
        /\ jPath' = jPath /\ jEntry' = jEntry /\ last' = last
    BY <2>2 DEF ReadFile, IndexTypeOK
  <2> QED BY <2>1, <2>2, <2>3 DEF Hashing
<1>5. Guarding'
  BY DEF IndexTypeOK, Guarding, ReadFile
<1>6. ShownHolds'
  BY DEF IndexTypeOK, ShownHolds, ReadFile
<1> QED BY <1>1, <1>2, <1>3, <1>4, <1>5, <1>6

LEMMA ReadFailsStep ==
    ASSUME IndexInv, NEW c \in Callers, ReadFails(c)
    PROVE  IndexInv'
<1> USE DEF IndexInv, diskVars, walkers, jobs, guarding
<1>1. IndexTypeOK'
  BY NoEntryType DEF IndexTypeOK, ReadFails, Return
<1>2. Ages'
  BY DEF IndexTypeOK, Ages, ReadFails, Return
<1>3. Entries'
  BY DEF IndexTypeOK, Entries, ReadFails, Return, Sound
<1>4. Hashing'
  BY DEF IndexTypeOK, Hashing, ReadFails, Return
<1>5. Guarding'
  BY DEF IndexTypeOK, Guarding, ReadFails, Return
<1>6. ShownHolds'
  BY DEF IndexTypeOK, ShownHolds, ReadFails, Return
<1> QED BY <1>1, <1>2, <1>3, <1>4, <1>5, <1>6

LEMMA StoreStep ==
    ASSUME IndexInv, NEW c \in Callers, Store(c)
    PROVE  IndexInv'
<1> USE DEF IndexInv, diskVars, walkers, jobs, guarding
<1>1. IndexTypeOK'
  <2>1. jEntry[c].stamp \in Nat /\ jGot[c] \in Nat
    BY DEF IndexTypeOK, Entry
  <2>2. index' \in [Paths -> Entry]
    BY <2>1, EntryType DEF IndexTypeOK, Store
  <2>3. jAt' \in [Callers -> {"idle", "read", "store", "done", "failed"}]
    BY DEF IndexTypeOK, Store, Return
  <2>4. jEntry' \in [Callers -> Entry]
    BY NoEntryType DEF IndexTypeOK, Store, Return
  <2>5. jGot' \in [Callers -> Nat] /\ jPath' \in [Callers -> Paths \cup {Wanted}]
    BY DEF IndexTypeOK, Store, Return
  <2> QED BY <2>2, <2>3, <2>4, <2>5 DEF IndexTypeOK, Store, Return
<1>2. Ages'
  BY DEF IndexTypeOK, Ages, Store, Return
<1>3. Entries'
  <2>1. /\ jPath[c] \in Paths /\ last[jPath[c]] \in Nat
        /\ jEntry[c].stamp \in Nat /\ jGot[c] \in Nat
        /\ Sound(jPath[c], jEntry[c].stamp, jGot[c])
    BY DEF IndexTypeOK, Entry, Hashing, Store, Sound
  <2>2. /\ index'[jPath[c]].stamp = jEntry[c].stamp
        /\ index'[jPath[c]].hash = jGot[c]
        /\ \A q \in Paths : q # jPath[c] => index'[q] = index[q]
        /\ wOld' = wOld /\ last' = last
    BY <2>1, EntryType DEF IndexTypeOK, Store, Return
  <2> QED BY <2>1, <2>2 DEF Entries, Sound
<1>4. Hashing'
  BY DEF IndexTypeOK, Hashing, Store, Return
<1>5. Guarding'
  BY DEF IndexTypeOK, Guarding, Store, Return
<1>6. ShownHolds'
  BY DEF IndexTypeOK, ShownHolds, Store, Return
<1> QED BY <1>1, <1>2, <1>3, <1>4, <1>5, <1>6

LEMMA ExpireStep ==
    ASSUME IndexInv, Expire
    PROVE  IndexInv'
<1> USE DEF IndexInv, diskVars, walkers, jobs, guarding
<1>1. IndexTypeOK'
  BY EmptyType DEF IndexTypeOK, Expire
<1>2. Ages'
  BY EmptyType DEF IndexTypeOK, Ages, Expire
<1>3. Entries'
  BY DEF IndexTypeOK, Entries, Expire, Sound
<1>4. Hashing'
  BY DEF IndexTypeOK, Hashing, Expire
<1>5. Guarding'
  BY DEF IndexTypeOK, Guarding, Expire
<1>6. ShownHolds'
  BY DEF IndexTypeOK, ShownHolds, Expire
<1> QED BY <1>1, <1>2, <1>3, <1>4, <1>5, <1>6

LEMMA PruneStep ==
    ASSUME IndexInv, Prune
    PROVE  IndexInv'
<1> USE DEF IndexInv, diskVars, walkers, jobs, guarding
<1>1. IndexTypeOK'
  BY NoEntryType DEF IndexTypeOK, Prune
<1>2. Ages'
  BY DEF IndexTypeOK, Ages, Prune
<1>3. Entries'
  BY NoEntryType DEF IndexTypeOK, Entries, Prune, Sound
<1>4. Hashing'
  BY DEF IndexTypeOK, Hashing, Prune
<1>5. Guarding'
  BY DEF IndexTypeOK, Guarding, Prune
<1>6. ShownHolds'
  BY DEF IndexTypeOK, ShownHolds, Prune
<1> QED BY <1>1, <1>2, <1>3, <1>4, <1>5, <1>6

LEMMA ReuseStep ==
    ASSUME IndexInv, Reuse
    PROVE  IndexInv'
<1> USE DEF IndexInv, diskVars, walkers, jobs, guarding
<1>1. IndexTypeOK'
  BY DEF IndexTypeOK, Reuse, Begin
<1>2. Ages'
  BY DEF IndexTypeOK, Ages, Reuse, Begin
<1>3. Entries'
  BY DEF IndexTypeOK, Entries, Reuse, Begin, Sound
<1>4. Hashing'
  BY DEF IndexTypeOK, Hashing, Reuse, Begin
<1>5. Guarding'
  BY DEF IndexTypeOK, Guarding, Reuse, Begin
<1>6. ShownHolds'
  BY DEF IndexTypeOK, ShownHolds, Reuse, Begin
<1> QED BY <1>1, <1>2, <1>3, <1>4, <1>5, <1>6

LEMMA JudgeStep ==
    ASSUME IndexInv, Judge
    PROVE  IndexInv'
<1> USE DEF IndexInv, diskVars, walkers, jobs, guarding
<1>1. IndexTypeOK'
  <2>1. jAt' \in [Callers -> {"idle", "read", "store", "done", "failed"}]
    BY DEF IndexTypeOK, Judge
  <2>2. jPath["guard"] \in Paths
    BY DEF IndexTypeOK, Guarding, Judge
  <2>3. gLeft' \subseteq Paths /\ gSure' \subseteq Paths
    BY <2>2 DEF IndexTypeOK, Judge
  <2>4. gAt' \in {"idle", "judge", "DOWNLOAD", "DUPLICATE"}
    BY DEF Judge
  <2> QED BY <2>1, <2>3, <2>4 DEF IndexTypeOK, Judge
<1>2. Ages'
  BY DEF IndexTypeOK, Ages, Judge, Differs
<1>3. Entries'
  BY DEF IndexTypeOK, Entries, Judge, Differs, Sound
<1>4. Hashing'
  BY DEF IndexTypeOK, Hashing, Judge, Differs
<1>5. Guarding'
  BY DEF IndexTypeOK, Guarding, Judge, Differs, Callers
<1>6. ShownHolds'
  <2> SUFFICES ASSUME NEW p \in gSure', files[p] = gSeen[p]
               PROVE  /\ gAt' = "judge" => ~(p = Wanted /\ gRemote = files[p])
                      /\ gAt' = "DUPLICATE" /\ p = jPath["guard"] =>
                             p = Wanted /\ gRemote = files[p]
    BY DEF ShownHolds, Judge
  <2>1. gAt = "judge" /\ jPath["guard"] \in gLeft
    BY DEF Judge, Guarding
  <2>2. CASE p \in gSure
    BY <2>1, <2>2 DEF ShownHolds, Guarding
  <2>3. CASE p \notin gSure
    <3>1. /\ p = jPath["guard"] /\ jAt["guard"] = "done"
          /\ jEntry["guard"].stamp = gSeen[p]
      BY <2>3 DEF Judge
    <3>2. /\ p \in Paths
          /\ 1 <= jEntry["guard"].stamp /\ jEntry["guard"].stamp \in Nat
          /\ jEntry["guard"].stamp <= jGot["guard"] /\ jGot["guard"] <= last[p]
          /\ jGot["guard"] \in Nat /\ last[p] \in Nat
      BY <3>1 DEF Hashing, IndexTypeOK, Entry, Callers
    <3>3. jGot["guard"] = files[p]
      BY <3>1, <3>2 DEF Ages
    <3>4. gAt' = IF p # Wanted \/ jGot["guard"] # gRemote THEN "judge" ELSE "DUPLICATE"
      BY <3>1 DEF Judge, Differs
    <3> QED BY <3>3, <3>4
  <2> QED BY <2>2, <2>3
<1> QED BY <1>1, <1>2, <1>3, <1>4, <1>5, <1>6

LEMMA ClearStep ==
    ASSUME IndexInv, Clear
    PROVE  IndexInv'
<1> USE DEF IndexInv, diskVars, walkers, jobs, guarding
<1>1. IndexTypeOK'
  BY DEF IndexTypeOK, Clear
<1>2. Ages'
  BY DEF IndexTypeOK, Ages, Clear
<1>3. Entries'
  BY DEF IndexTypeOK, Entries, Clear, Sound
<1>4. Hashing'
  BY DEF IndexTypeOK, Hashing, Clear
<1>5. Guarding'
  BY DEF IndexTypeOK, Guarding, Clear
<1>6. ShownHolds'
  BY DEF IndexTypeOK, ShownHolds, Clear
<1> QED BY <1>1, <1>2, <1>3, <1>4, <1>5, <1>6

LEMMA ReportStep ==
    ASSUME IndexInv, Report
    PROVE  IndexInv'
<1> USE DEF IndexInv, diskVars, walkers, jobs, guarding
<1>1. IndexTypeOK'
  BY NoEntryType, EmptyType DEF IndexTypeOK, Report
<1>2. Ages'
  BY EmptyType DEF IndexTypeOK, Ages, Report
<1>3. Entries'
  BY DEF IndexTypeOK, Entries, Report, Sound
<1>4. Hashing'
  <2>1. jAt["guard"] = "idle"
    BY DEF Guarding, Report, IndexTypeOK
  <2>2. \A c \in Callers : c # "guard" =>
            jPath'[c] = jPath[c] /\ jEntry'[c] = jEntry[c] /\ jGot'[c] = jGot[c]
    BY DEF IndexTypeOK, Report
  <2>3. jAt' = jAt /\ last' = last
    BY DEF Report, diskVars
  <2> QED BY <2>1, <2>2, <2>3 DEF Hashing
<1>5. Guarding'
  BY DEF IndexTypeOK, Guarding, Report
<1>6. ShownHolds'
  BY DEF IndexTypeOK, ShownHolds, Report
<1> QED BY <1>1, <1>2, <1>3, <1>4, <1>5, <1>6

-----------------------------------------------------------------------------
LEMMA IndexInitInv == IndexInit => IndexInv
<1> SUFFICES ASSUME IndexInit PROVE IndexInv
  OBVIOUS
<1>1. IndexTypeOK
  BY NoEntryType, EmptyType DEF IndexInit, IndexTypeOK
<1>2. Ages
  <2>1. \A p \in Paths : files[p] = 1 /\ last[p] = 1
    BY DEF IndexInit
  <2>2. \A p \in Paths : gSeen[p] = 0 /\ snapshot[p] = 0
    BY EmptyType DEF IndexInit
  <2>3. \A w \in Walks : wFound[w] = Nothing
    BY DEF IndexInit
  <2>4. \A p \in Paths : \A w \in Walks : wFound[w][p] = 0
    BY <2>3, EmptyType
  <2>5. ASSUME NEW p \in Paths
        PROVE  gSeen[p] <= last[p] /\ snapshot[p] <= last[p]
    <3>1. last[p] = 1
      BY <2>1
    <3>2. gSeen[p] = 0
      BY <2>2
    <3>3. snapshot[p] = 0
      BY <2>2
    <3> QED BY <3>1, <3>2, <3>3
  <2>6. \A p \in Paths : \A w \in Walks : wFound[w][p] <= last[p]
    BY <2>1, <2>4
  <2>7. \A p \in Paths : files[p] = last[p]
    BY <2>1
  <2> QED BY <2>5, <2>6, <2>7 DEF Ages
<1>3. Entries
  <2>1. \A p \in Paths : last[p] = 1 /\ index[p] = NoEntry
    BY EmptyType DEF IndexInit
  <2>2. \A w \in Walks : wOld[w] = NoEntries
    BY DEF IndexInit
  <2>3. \A p \in Paths : \A w \in Walks : wOld[w][p] = NoEntry
    BY <2>2, EmptyType
  <2>4. ASSUME NEW p \in Paths
        PROVE  Sound(p, 0, 0)
    <3>1. last[p] = 1
      BY <2>1
    <3> QED BY <3>1 DEF Sound
  <2> QED BY <2>1, <2>3, <2>4, NoEntryType DEF Entries
<1>4. Hashing /\ Guarding /\ ShownHolds
  BY DEF IndexInit, Hashing, Guarding, ShownHolds, Callers
<1> QED BY <1>1, <1>2, <1>3, <1>4 DEF IndexInv

LEMMA IndexStutter == IndexInv /\ UNCHANGED indexVars => IndexInv'
BY DEF indexVars, diskVars, walkers, jobs, guarding, IndexInv, IndexTypeOK, Ages, Entries, Sound,
       Hashing, Guarding, ShownHolds

LEMMA IndexNextStep == IndexInv /\ IndexNext => IndexInv'
<1> SUFFICES ASSUME IndexInv, IndexNext PROVE IndexInv'
  OBVIOUS
<1>1. ASSUME NEW p \in Paths,
             Write(p) \/ Delete(p) \/ AddDownloaded(p) \/ Verify(p) \/ CompareHash(p)
      PROVE  IndexInv'
  BY <1>1, WriteStep, DeleteStep, AddDownloadedStep, VerifyStep, GuardCompareStep
<1>2. ASSUME NEW w \in Walks,
             \/ StartWalk(w) \/ CancelWalk(w) \/ Publish(w)
             \/ \E p \in Paths : Visit(w, p)
      PROVE  IndexInv'
  BY <1>2, StartWalkStep, CancelWalkStep, PublishStep, VisitStep
<1>3. ASSUME NEW c \in Callers, ReadFile(c) \/ ReadFails(c) \/ Store(c)
      PROVE  IndexInv'
  BY <1>3, ReadFileStep, ReadFailsStep, StoreStep
<1>4. ASSUME Expire \/ Prune \/ Reuse \/ Judge \/ Clear \/ Report
      PROVE  IndexInv'
  BY <1>4, ExpireStep, PruneStep, ReuseStep, JudgeStep, ClearStep, ReportStep
<1> QED BY <1>1, <1>2, <1>3, <1>4 DEF IndexNext

LEMMA IndexInvariance == IndexSpec => []IndexInv
<1>1. IndexInv /\ [IndexNext]_indexVars => IndexInv'
  BY IndexNextStep, IndexStutter
<1> QED BY <1>1, IndexInitInv, PTL DEF IndexSpec

(* An index entry that is as new as its file has the hash of that file,    *)
(* however walks, hashing and changes of the files overlap (ensureHash,    *)
(* runIndex, refreshGuardIndex).                                           *)
THEOREM HashesCurrent == IndexSpec => []HashIsCurrent
<1>1. IndexInv => HashIsCurrent
  <2> SUFFICES ASSUME IndexInv, NEW p \in Paths,
                      index[p].hash # 0, index[p].stamp = files[p]
               PROVE  index[p].hash = files[p]
    BY DEF HashIsCurrent
  <2>1. /\ index[p].stamp \in Nat /\ index[p].hash \in Nat
        /\ files[p] \in Nat /\ last[p] \in Nat
    BY DEF IndexInv, IndexTypeOK, Entry
  <2>2. /\ 1 <= index[p].stamp /\ index[p].stamp <= index[p].hash
        /\ index[p].hash <= last[p]
    BY DEF IndexInv, Entries, Sound
  <2>3. files[p] = 0 \/ files[p] = last[p]
    BY DEF IndexInv, Ages
  <2> QED BY <2>1, <2>2, <2>3
<1> QED BY <1>1, IndexInvariance, PTL

(* ExactGuard's exact verdict holds for every file that it compared by an  *)
(* entry of the version it saw and that is still that version              *)
(* (exactLocalHashMatch, evaluateDownloadGuard).                           *)
THEOREM VerdictHolds == IndexSpec => []GuardVerdictHolds
<1>1. IndexInv => GuardVerdictHolds
  BY DEF IndexInv, ShownHolds, GuardVerdictHolds
<1> QED BY <1>1, IndexInvariance, PTL

-----------------------------------------------------------------------------
(***************************************************************************)
(* The verdict on a file, for any local files and any decisions of the     *)
(* user: a copy is not hidden, a download is justified and a row that says *)
(* VERIFIED is proven.                                                     *)
(*                                                                         *)
(* A verdict is reached in one step from what the files are, so that most  *)
(* of the work is to look at every verdict; only VerifiedIsProven needs an *)
(* invariant, that ExactGuard has said nothing yet of a row that is still  *)
(* being looked at.                                                        *)
(***************************************************************************)

Status == {"VERIFIED", "HAVE", "SAMPLED", "POSSIBLE", "DIFFERENT", "MISSING",
           "none"}

IsRow(x) == x \in [auto : Status, status : Status, manual : BOOLEAN,
                   path : Files \cup {NoPath}]

VerdictTyped ==
    /\ IsRow(row)
    /\ Indexed \subseteq Files

(* ExactGuard speaks last. *)
Unjudged == at # "done" => guard = NoGuard

(* The inductive invariant. *)
VerdictInv ==
    /\ VerdictTyped
    /\ Unjudged
    /\ VerifiedIsProven
    /\ CopyIsNotHidden
    /\ DownloadIsJustified

-----------------------------------------------------------------------------
(* What the comparison finds is typed; it is VERIFIED only for a copy, and *)
(* MISSING or DIFFERENT only where no copy is left.                        *)
LEMMA ByHash ==
    ASSUME Indexed \subseteq Files,
           NEW found \in FoundByHash
    PROVE  /\ found[1] \in Status /\ found[2] \in Files \cup {NoPath}
           /\ found[1] # "none"
           /\ found[1] = "VERIFIED" => found[2] \in Copies
           /\ found[1] \in {"MISSING", "DIFFERENT"} /\ remote.hash = "known" =>
                  Copies = {}
           /\ found[1] \in {"VERIFIED", "MISSING", "DIFFERENT"}
<1>1. CASE remote.hash = "known" /\ Copies # {}
  BY <1>1 DEF FoundByHash, Status, Copies, SameSize, Readable
<1>2. CASE ~(remote.hash = "known" /\ Copies # {}) /\ SameNameSameSize # {}
  BY <1>2 DEF FoundByHash, Status, SameNameSameSize, SameSize, With
<1>3. CASE ~(remote.hash = "known" /\ Copies # {}) /\ SameNameSameSize = {}
  BY <1>3 DEF FoundByHash, Status
<1> QED BY <1>1, <1>2, <1>3

LEMMA ByName ==
    ASSUME Indexed \subseteq Files,
           NEW found \in FoundByName
    PROVE  /\ found[1] \in Status /\ found[2] \in Files \cup {NoPath}
           /\ found[1] # "VERIFIED"
           /\ found[1] \notin {"HAVE", "SAMPLED"} => SameNameSameSize = {}
<1> USE DEF Status
<1>1. CASE SameNameSameSize # {}
  BY <1>1 DEF FoundByName, SameNameSameSize, SameSize, With
<1>2. CASE SameNameSameSize = {} /\ With("name") # {}
  BY <1>2 DEF FoundByName, With, OtherSize
<1>3. CASE /\ SameNameSameSize = {} /\ With("name") = {}
           /\ With("identity") # {}
  BY <1>3 DEF FoundByName, With
<1>4. CASE /\ SameNameSameSize = {} /\ With("name") = {}
           /\ With("identity") = {} /\ SameSize # {}
  <2>1. Nearest \subseteq Indexed
    BY DEF Nearest, SameSize, With
  <2>2. PICK f \in Nearest :
            found = IF local[f].match \in {"near", "format"}
                    THEN <<"POSSIBLE", f>> ELSE <<"MISSING", NoPath>>
    BY <1>4 DEF FoundByName
  <2> QED BY <1>4, <2>1, <2>2
<1>5. CASE /\ SameNameSameSize = {} /\ With("name") = {}
           /\ With("identity") = {} /\ SameSize = {}
  BY <1>5 DEF FoundByName
<1> QED BY <1>1, <1>2, <1>3, <1>4, <1>5

-----------------------------------------------------------------------------
(* An earlier decision does not overrule a better verdict.                 *)
LEMMA AppliesTo ==
    ASSUME NEW d \in Decision, NEW auto \in Status,
           NEW path \in Files \cup {NoPath}, Applies(d, auto, path),
           d.status \in {"MISSING", "DIFFERENT"}
    PROVE  auto \notin {"VERIFIED", "HAVE", "SAMPLED"}
<1>1. CASE d.status = "MISSING"
  BY <1>1 DEF Applies
<1>2. CASE d.status = "DIFFERENT"
  BY <1>2 DEF Applies
<1> QED BY <1>1, <1>2

LEMMA DecisionType ==
    ASSUME NEW d \in Decision
    PROVE  /\ d.status \in {"HAVE", "MISSING", "DIFFERENT", "none"}
           /\ d.path \in Files \cup {NoPath}
BY DEF Decision

(* What the row says after Conclude.                                       *)
LEMMA Concluded ==
    ASSUME NEW auto \in Status, NEW path \in Files \cup {NoPath},
           NEW d \in Decision, Indexed \subseteq Files,
           Conclude(auto, path, d)
    PROVE  /\ IsRow(row')
           /\ row'.auto = auto
           /\ ~row'.manual => row'.path = Shown(path) /\ row'.status = auto
           /\ row'.status \in {"MISSING", "DIFFERENT"} =>
                  auto \notin {"VERIFIED", "HAVE", "SAMPLED"}
<1>1. \A p \in Files \cup {NoPath} : Shown(p) \in Files \cup {NoPath}
  BY DEF Shown
<1>2. CASE Applies(d, auto, path)
  <2>1. row' = [auto |-> auto, status |-> d.status, manual |-> TRUE,
                path |-> Shown(IF d.path = NoPath THEN path ELSE d.path)]
    BY <1>2 DEF Conclude
  <2>2. (IF d.path = NoPath THEN path ELSE d.path) \in Files \cup {NoPath}
    BY DecisionType
  <2> QED BY <1>1, <1>2, <2>1, <2>2, DecisionType, AppliesTo DEF IsRow, Status
<1>3. CASE ~Applies(d, auto, path)
  <2>1. row' = [auto |-> auto, status |-> auto, manual |-> FALSE,
                path |-> Shown(path)]
    BY <1>3 DEF Conclude
  <2> QED BY <1>1, <2>1 DEF IsRow, Status
<1> QED BY <1>2, <1>3

LEMMA CompareStep ==
    ASSUME VerdictInv, Compare
    PROVE  VerdictInv'
<1> USE DEF VerdictInv, VerdictTyped
<1>1. PICK deep \in BOOLEAN, d \in Decision :
          /\ byHash' = (deep /\ remote.hash # "none")
          /\ \E found \in IF byHash' THEN FoundByHash ELSE FoundByName :
                Conclude(found[1], found[2], d)
  BY DEF Compare
<1>2. PICK found \in IF byHash' THEN FoundByHash ELSE FoundByName :
          Conclude(found[1], found[2], d)
  BY <1>1
<1>3. /\ at = "compare" /\ at' = "compared"
      /\ remote' = remote /\ local' = local /\ guard' = guard
  BY DEF Compare
<1>4. /\ found[1] \in Status /\ found[2] \in Files \cup {NoPath}
      /\ found[1] = "VERIFIED" => found[2] \in Copies
      /\ found[1] \notin {"VERIFIED", "HAVE", "SAMPLED"} =>
             IF byHash' THEN remote.hash = "known" => Copies = {}
             ELSE SameNameSameSize = {}
  <2>1. CASE byHash'
    BY <2>1, <1>2, ByHash
  <2>2. CASE ~byHash'
    BY <2>2, <1>2, ByName
  <2> QED BY <2>1, <2>2
<1>5. /\ IsRow(row')
      /\ row'.auto = found[1]
      /\ ~row'.manual => row'.path = Shown(found[2]) /\ row'.status = found[1]
      /\ row'.status \in {"MISSING", "DIFFERENT"} =>
             found[1] \notin {"VERIFIED", "HAVE", "SAMPLED"}
  BY <1>2, <1>4, Concluded
<1>6. Indexed' = Indexed /\ Copies' = Copies /\ SameNameSameSize' = SameNameSameSize
  BY <1>3 DEF Indexed, Copies, SameNameSameSize, SameSize, Readable, With
<1>7. VerdictTyped' /\ Unjudged'
  BY <1>3, <1>5, <1>6 DEF Unjudged, IsRow
<1>8. CopyIsNotHidden'
  BY <1>3, <1>4, <1>5, <1>6 DEF CopyIsNotHidden
<1>9. DownloadIsJustified'
  BY <1>3 DEF DownloadIsJustified
<1>10. VerifiedIsProven'
  <2> SUFFICES ASSUME row'.auto = "VERIFIED", ~row'.manual
               PROVE  row'.path \in Indexed /\ local[row'.path].body = "same"
    BY <1>3, <1>6 DEF VerifiedIsProven
  <2>1. found[2] \in Copies
    BY <1>4, <1>5
  <2>2. found[2] \in Indexed /\ local[found[2]].body = "same"
    BY <2>1 DEF Copies, SameSize
  <2> QED BY <1>5, <2>2 DEF Shown
<1> QED BY <1>7, <1>8, <1>9, <1>10

-----------------------------------------------------------------------------
(* The checks of a row that rests *)

LEMMA SettleStep ==
    ASSUME VerdictInv, Rests,
           NEW status \in Status, NEW path \in Files \cup {NoPath},
           Settle(status, path),
           status = "VERIFIED" =>
               row.auto = "VERIFIED" \/ \E f \in Indexed : local[f].body = "same"
    PROVE  VerdictInv'
<1> USE DEF VerdictInv, VerdictTyped
<1>1. /\ at' = "checked" /\ remote' = remote /\ local' = local /\ guard' = guard
      /\ at \in {"compared", "checked"} /\ guard = NoGuard
  BY DEF Settle, Rests, Unjudged
<1>2. /\ IsRow(row')
      /\ row'.auto = status /\ row'.manual = row.manual
      /\ ~row.manual => row'.status = status
  BY DEF Settle, IsRow
<1>3. Indexed' = Indexed
  BY <1>1 DEF Indexed
<1>4. VerdictTyped' /\ Unjudged'
  BY <1>1, <1>2, <1>3 DEF Unjudged, IsRow
<1>5. CopyIsNotHidden' /\ DownloadIsJustified'
  BY <1>1 DEF CopyIsNotHidden, DownloadIsJustified
<1>6. VerifiedIsProven'
  <2> SUFFICES ASSUME row'.auto = "VERIFIED", ~row'.manual
               PROVE  \E f \in Indexed : local[f].body = "same"
    BY <1>1, <1>3 DEF VerifiedIsProven
  <2>1. CASE row.auto = "VERIFIED"
    <3>1. guard.method # "download-history"
      BY <1>1 DEF NoGuard
    <3> QED BY <1>2, <2>1, <3>1 DEF VerifiedIsProven
  <2>2. CASE row.auto # "VERIFIED"
    BY <1>2, <2>2
  <2> QED BY <2>1, <2>2
<1> QED BY <1>4, <1>5, <1>6

(* No check says VERIFIED of a file of another content.                    *)
LEMMA CheckTypes ==
    ASSUME NEW f \in Indexed
    PROVE  /\ Sampled(f) \cup Whole(f) \cup Streamed(f) \subseteq Status
           /\ "VERIFIED" \in Sampled(f) \cup Whole(f) \cup Streamed(f) =>
                  local[f].body = "same"
           /\ "VERIFIED" \notin Sampled(f)
BY DEF Sampled, Whole, Streamed, Status

LEMMA HashVerifyStep ==
    ASSUME VerdictInv, Rests, NEW f \in Readable, HashVerify(f)
    PROVE  VerdictInv'
<1>1. PICK status \in {"VERIFIED", "DIFFERENT"} :
          /\ Settle(status, row.path)
          /\ status = "VERIFIED" => f \in Copies
  BY DEF HashVerify
<1>2. f \in Copies => f \in Indexed /\ local[f].body = "same"
  BY DEF Copies, SameSize
<1>3. status \in Status /\ row.path \in Files \cup {NoPath}
  BY DEF VerdictInv, VerdictTyped, IsRow, Status
<1> QED BY <1>1, <1>2, <1>3, SettleStep

LEMMA CheckStep ==
    ASSUME VerdictInv,
           SelectCandidate \/ DeepVerify \/ FullVerify \/ VisualVerify \/ SmartVerify
    PROVE  VerdictInv'
<1>0. /\ Rests /\ Indexed \subseteq Files
      /\ row.path \in Files \cup {NoPath} /\ row.auto \in Status
      /\ Readable \subseteq Indexed /\ SameSize \subseteq Indexed
  BY DEF VerdictInv, VerdictTyped, IsRow, Readable, SameSize, SelectCandidate, DeepVerify,
         FullVerify, VisualVerify, SmartVerify
<1>1. CASE SelectCandidate
  <2>1. PICK f \in Indexed :
            Settle(IF row.auto = "MISSING" THEN "POSSIBLE" ELSE row.auto, f)
    BY <1>1 DEF SelectCandidate
  <2>2. PICK status \in Status :
            /\ status = IF row.auto = "MISSING" THEN "POSSIBLE" ELSE row.auto
            /\ Settle(status, f)
    BY <1>0, <2>1 DEF Status
  <2> QED BY <1>0, <2>2, SettleStep
<1>2. CASE DeepVerify
  <2>1. PICK f \in SameSize \cap Readable :
            \E status \in Sampled(f) \cup Whole(f) : Settle(status, f)
    BY <1>2 DEF DeepVerify
  <2> QED BY <1>0, <2>1, CheckTypes, SettleStep
<1>3. CASE FullVerify
  <2>1. PICK f \in Readable :
            \/ HashVerify(f)
            \/ \E status \in Streamed(f) : Settle(status, row.path)
    BY <1>3 DEF FullVerify
  <2> QED BY <1>0, <2>1, CheckTypes, SettleStep, HashVerifyStep
<1>4. CASE VisualVerify
  <2>1. PICK f \in Readable : \E near \in Near(f) :
            Settle(IF near THEN "POSSIBLE" ELSE row.auto, row.path)
    BY <1>4 DEF VisualVerify
  <2>2. PICK status \in Status :
            status \in {"POSSIBLE", row.auto} /\ Settle(status, row.path)
    BY <1>0, <2>1 DEF Status
  <2> QED BY <1>0, <2>2, SettleStep
<1>5. CASE SmartVerify
  <2>1. PICK f \in Readable :
            \/ HashVerify(f)
            \/ \E status \in Streamed(f) : Settle(status, row.path)
            \/ SampleVerify(f)
            \/ Settle("POSSIBLE", row.path)
    BY <1>5 DEF SmartVerify
  <2>2. CASE SampleVerify(f)
    BY <1>0, <2>2, CheckTypes, SettleStep DEF SampleVerify
  <2>3. "POSSIBLE" \in Status
    BY DEF Status
  <2> QED BY <1>0, <2>1, <2>2, <2>3, CheckTypes, SettleStep, HashVerifyStep
<1> QED BY <1>1, <1>2, <1>3, <1>4, <1>5

-----------------------------------------------------------------------------
(* ExactGuard *)

LEMMA SaysResult ==
    ASSUME VerdictTyped, NEW verdict \in {"DUPLICATE", "REVIEW", "DOWNLOAD"},
           NEW method, NEW path \in Files \cup {NoPath},
           Says(verdict, method, path)
    PROVE  /\ at' = "done" /\ remote' = remote /\ local' = local
           /\ IsRow(row')
           /\ row'.auto = "VERIFIED" =>
                  /\ verdict = "DUPLICATE" /\ guard'.method = method
                  /\ row'.path = IF path = NoPath THEN row.path ELSE path
           /\ guard'.verdict = "DOWNLOAD" =>
                  /\ verdict = "DOWNLOAD"
                  /\ ~(row'.manual /\ row'.status = "HAVE")
<1> DEFINE said == [verdict |-> verdict, method |-> method, path |-> path]
<1> USE DEF VerdictTyped
<1>1. PICK g \in Final(said) :
          /\ guard' = g
          /\ row' = [auto |-> GuardStatus(g),
                     status |-> IF row.manual THEN row.status
                                ELSE GuardStatus(g),
                     manual |-> row.manual,
                     path |-> IF g.path = NoPath THEN row.path ELSE g.path]
  BY DEF Says
<1>2. /\ g.verdict \in {"DUPLICATE", "REVIEW", "DOWNLOAD"}
      /\ g.path \in Files \cup {NoPath}
      /\ g.verdict # "REVIEW" => g = said
      /\ g.verdict = "DOWNLOAD" => ~(row.manual /\ row.status = "HAVE")
  <2>1. CASE verdict # "DOWNLOAD"
    BY <2>1 DEF Final
  <2>2. CASE verdict = "DOWNLOAD"
    BY <2>2 DEF Final, IsRow
  <2> QED BY <2>1, <2>2
<1>3. /\ GuardStatus(g) \in Status \ {"HAVE"}
      /\ GuardStatus(g) = "VERIFIED" => g.verdict = "DUPLICATE"
  BY <1>2 DEF GuardStatus, Status
<1>4. at' = "done" /\ remote' = remote /\ local' = local
  BY DEF Says
<1>5. /\ row'.auto = GuardStatus(g) /\ row'.manual = row.manual
      /\ row'.status = IF row.manual THEN row.status ELSE GuardStatus(g)
      /\ row'.path = IF g.path = NoPath THEN row.path ELSE g.path
  BY <1>1
<1>6. IsRow(row')
  BY <1>1, <1>2, <1>3 DEF IsRow
<1> QED BY <1>1, <1>2, <1>3, <1>4, <1>5, <1>6

(* A verdict preserves the invariant if it is justified.                   *)
LEMMA SaysStep ==
    ASSUME NoPath \notin Files,
           VerdictInv, NEW verdict \in {"DUPLICATE", "REVIEW", "DOWNLOAD"},
           NEW method, NEW path \in Files \cup {NoPath},
           Says(verdict, method, path),
           verdict = "DUPLICATE" =>
               /\ path \in Indexed
               /\ method = "download-history" \/ local[path].body = "same",
           verdict = "DOWNLOAD" =>
               /\ remote.exact /\ Copies = {}
               /\ remote.kind = "picture" => LookAlikes = {}
    PROVE  VerdictInv'
<1>1. VerdictTyped
  BY DEF VerdictInv
<1>2. /\ at' = "done" /\ remote' = remote /\ local' = local
      /\ IsRow(row')
      /\ row'.auto = "VERIFIED" =>
             /\ verdict = "DUPLICATE" /\ guard'.method = method
             /\ row'.path = IF path = NoPath THEN row.path ELSE path
      /\ guard'.verdict = "DOWNLOAD" =>
             /\ verdict = "DOWNLOAD"
             /\ ~(row'.manual /\ row'.status = "HAVE")
  BY <1>1, SaysResult
<1>3. Indexed' = Indexed /\ Copies' = Copies /\ LookAlikes' = LookAlikes
  BY <1>2 DEF Indexed, Copies, SameSize, Readable, LookAlikes
<1>4. VerdictTyped' /\ Unjudged'
  BY <1>1, <1>2, <1>3 DEF VerdictTyped, Unjudged, IsRow
<1>5. CopyIsNotHidden' /\ DownloadIsJustified'
  BY <1>2, <1>3 DEF CopyIsNotHidden, DownloadIsJustified
<1>6. VerifiedIsProven'
  <2> SUFFICES ASSUME row'.auto = "VERIFIED"
               PROVE  /\ row'.path \in Indexed
                      /\ \/ guard'.method = "download-history"
                         \/ local[row'.path].body = "same"
    BY <1>2, <1>3 DEF VerifiedIsProven
  <2>1. path \in Indexed /\ path # NoPath
    BY <1>1, <1>2 DEF VerdictTyped
  <2> QED BY <1>2, <2>1
<1> QED BY <1>4, <1>5, <1>6 DEF VerdictInv

LEMMA NoCopyStep ==
    ASSUME NoPath \notin Files, VerdictInv, NEW method, NoCopy(method),
           remote.exact, Copies = {}
    PROVE  VerdictInv'
<1>1. /\ Indexed \subseteq Files /\ row.path \in Files \cup {NoPath}
  BY DEF VerdictInv, VerdictTyped, IsRow
<1>2. CASE MediaReview
  <2>1. PICK path \in {row.path} \cup Indexed : Says("REVIEW", "media", path)
    BY <1>2 DEF MediaReview
  <2> QED BY <1>1, <2>1, SaysStep
<1>3. CASE MediaPasses /\ Says("DOWNLOAD", method, NoPath)
  BY <1>3, SaysStep DEF MediaPasses
<1> QED BY <1>2, <1>3 DEF NoCopy

LEMMA GuardStep ==
    ASSUME NoPath \notin Files, VerdictInv,
           \/ AskHistory \/ AskSize \/ AskIndex \/ AskHash
           \/ CannotRead \/ AskContent \/ AskSamples
    PROVE  VerdictInv'
<1>0. /\ Indexed \subseteq Files /\ row.path \in Files \cup {NoPath}
      /\ SameSize \subseteq Indexed /\ Readable \subseteq Indexed
      /\ \A f \in Copies : f \in Indexed /\ local[f].body = "same"
  BY DEF VerdictInv, VerdictTyped, IsRow, SameSize, Readable, Copies
<1>1. ASSUME MediaReview PROVE VerdictInv'
  <2>1. PICK path \in {row.path} \cup Indexed : Says("REVIEW", "media", path)
    BY <1>1 DEF MediaReview
  <2> QED BY <1>0, <2>1, SaysStep
<1>2. CASE AskHistory
  <2>1. PICK f \in Indexed : \/ Says("DUPLICATE", "download-history", f)
                             \/ Says("REVIEW", "download-history-source", f)
    BY <1>2 DEF AskHistory
  <2> QED BY <1>0, <2>1, SaysStep
<1>3. CASE AskSize
  BY <1>0, <1>1, <1>3, SaysStep DEF AskSize
<1>4. CASE AskIndex
  <2>1. remote.exact /\ Copies = {}
    BY <1>4 DEF AskIndex, Copies
  <2>2. \/ MediaReview
        \/ Says("REVIEW", "manual-have", row.path)
        \/ MediaPasses /\ Says("DOWNLOAD", "live-size-index", NoPath)
    BY <1>4 DEF AskIndex
  <2> QED BY <1>0, <1>1, <2>1, <2>2, SaysStep DEF MediaPasses
<1>5. CASE AskHash
  <2>1. CASE Copies # {}
    <3>1. PICK f \in Copies : Says("DUPLICATE", "remote-hash", f)
      BY <1>5, <2>1 DEF AskHash
    <3> QED BY <1>0, <3>1, SaysStep
  <2>2. CASE Copies = {}
    BY <1>5, <2>2, NoCopyStep DEF AskHash
  <2> QED BY <2>1, <2>2
<1>6. CASE CannotRead
  <2>1. PICK f \in SameSize : Says("REVIEW", "remote-unavailable", f)
    BY <1>6 DEF CannotRead
  <2> QED BY <1>0, <2>1, SaysStep
<1>7. CASE AskContent
  <2>1. CASE Copies # {}
    <3>1. PICK f \in Copies : Says("DUPLICATE", "full-sha256", f)
      BY <1>7, <2>1 DEF AskContent
    <3> QED BY <1>0, <3>1, SaysStep
  <2>2. CASE Copies = {}
    BY <1>7, <2>2, NoCopyStep DEF AskContent, MustRead
  <2> QED BY <2>1, <2>2
<1>8. CASE AskSamples
  <2>1. PICK left \in SUBSET (SameSize \cap Readable) :
            /\ Copies \subseteq left
            /\ IF left # {}
               THEN \E f \in left : Says("REVIEW", "deterministic-samples", f)
               ELSE NoCopy("deterministic-samples")
    BY <1>8 DEF AskSamples
  <2>2. CASE left # {}
    <3>1. PICK f \in left : Says("REVIEW", "deterministic-samples", f)
      BY <2>1, <2>2
    <3> QED BY <1>0, <3>1, SaysStep
  <2>3. CASE left = {}
    BY <1>8, <2>1, <2>3, NoCopyStep DEF AskSamples, MustRead
  <2> QED BY <2>2, <2>3
<1> QED BY <1>2, <1>3, <1>4, <1>5, <1>6, <1>7, <1>8

-----------------------------------------------------------------------------
LEMMA VerdictInitInv == VerdictInit => VerdictInv
<1> SUFFICES ASSUME VerdictInit PROVE VerdictInv
  OBVIOUS
<1>1. /\ at = "compare" /\ row = NoRow /\ guard = NoGuard
      /\ Indexed \subseteq Files
  BY DEF VerdictInit, Indexed
<1> QED BY <1>1 DEF VerdictInv, VerdictTyped, Unjudged, IsRow, Status, NoRow, NoGuard,
                    CopyIsNotHidden, DownloadIsJustified, VerifiedIsProven

LEMMA VerdictStutter == VerdictInv /\ UNCHANGED verdictVars => VerdictInv'
<1> SUFFICES ASSUME VerdictInv, UNCHANGED verdictVars PROVE VerdictInv'
  OBVIOUS
<1>1. /\ Indexed' = Indexed /\ Copies' = Copies /\ LookAlikes' = LookAlikes
      /\ SameNameSameSize' = SameNameSameSize
  BY DEF verdictVars, Indexed, Copies, SameSize, Readable, LookAlikes, With,
         SameNameSameSize
<1> QED BY <1>1 DEF verdictVars, VerdictInv, VerdictTyped, Unjudged, IsRow, CopyIsNotHidden,
                    DownloadIsJustified, VerifiedIsProven

LEMMA VerdictInvariance ==
    ASSUME NoPath \notin Files
    PROVE  VerdictSpec => []VerdictInv
<1>1. VerdictInv /\ [VerdictNext]_verdictVars => VerdictInv'
  BY CompareStep, CheckStep, GuardStep, VerdictStutter DEF VerdictNext
<1> QED BY <1>1, VerdictInitInv, PTL DEF VerdictSpec

(* Whatever the user has said before, a comparison does not call a file    *)
(* MISSING or DIFFERENT while the index has a file that can be shown to be *)
(* a copy (compareRemote).                                                 *)
THEOREM NotHidden ==
    ASSUME NoPath \notin Files
    PROVE  VerdictSpec => []CopyIsNotHidden
<1>1. VerdictInv => CopyIsNotHidden
  BY DEF VerdictInv
<1> QED BY <1>1, VerdictInvariance, PTL

(* ExactGuard lets a file be downloaded only when its size is exact, the   *)
(* user has not said he has it, and no readable file of the index is a copy*)
(* or, if it is a picture, looks like it (evaluateDownloadGuard).          *)
THEOREM Justified ==
    ASSUME NoPath \notin Files
    PROVE  VerdictSpec => []DownloadIsJustified
<1>1. VerdictInv => DownloadIsJustified
  BY DEF VerdictInv
<1> QED BY <1>1, VerdictInvariance, PTL

(* A row says VERIFIED of its own only when the remote content is among the*)
(* local files, and shows that file unless the user has asked for another  *)
(* (compareRemote, applyGuardDecisions, the handlers of the checks).       *)
THEOREM Proven ==
    ASSUME NoPath \notin Files
    PROVE  VerdictSpec => []VerifiedIsProven
<1>1. VerdictInv => VerifiedIsProven
  BY DEF VerdictInv
<1> QED BY <1>1, VerdictInvariance, PTL

-----------------------------------------------------------------------------
(***************************************************************************)
(* The table: RowsShowDecisions for any files, comparisons, checks,        *)
(* downloads and verdicts. What it says of the table has to hold of        *)
(* everything that will be put into the table: the rows a comparison has so*)
(* far (ScanInv) and the rows that undoing a mark would bring back         *)
(* (UndoInv); and it holds because a file that was not overtaken has one   *)
(* row only (TableInv).                                                    *)
(***************************************************************************)

Said == Verdicts \cup Compared \cup Outcomes
AnyDecision == Manual \cup {"none"}
AnyRow == [remote : Remotes, auto : Said, status : Said, manual : AnyDecision]
AnySnapshot == [id : Nat, before : AnyRow, decision : AnyDecision]
AnyScan == [at : {"idle", "compare"}, items : Seq(Remotes), rows : Seq(AnyRow),
            stale : SUBSET Remotes]

(* The user's mark shows, or else the automatic verdict. *)
RowShows(line) == line.status = IF line.manual = "none" THEN line.auto ELSE line.manual

TableInv ==
    /\ table \in Seq(AnyRow)
    /\ \A i \in DOMAIN table :
        /\ RowShows(table[i])
        /\ table[i].remote \notin overtaken =>
                table[i].manual = decisions[table[i].remote]
    /\ \A i, j \in DOMAIN table :
        table[i].remote = table[j].remote /\ table[i].remote \notin overtaken => i = j

(* The decision a line of a comparison will meet when it is published. *)
Awaited(s, r) == IF r \in scan[s].stale THEN "none" ELSE decisions[r]

ScanOk(s) ==
    /\ \A i, j \in DOMAIN scan[s].items : scan[s].items[i] = scan[s].items[j] => i = j
    /\ Len(scan[s].rows) <= Len(scan[s].items)
    /\ \A i \in DOMAIN scan[s].rows :
        /\ scan[s].rows[i].remote = scan[s].items[i]
        /\ RowShows(scan[s].rows[i])
        /\ scan[s].rows[i].remote \notin overtaken =>
                scan[s].rows[i].manual = Awaited(s, scan[s].rows[i].remote)
    /\ \A r \in scan[s].stale : \E i \in DOMAIN scan[s].rows : scan[s].rows[i].remote = r

ScanInv ==
    /\ scan \in [Scans -> AnyScan]
    /\ \A s \in Scans : ScanOk(s)

(* A mark has one line at a place, and one decision on a file. *)
Holds(items) ==
    /\ \A x \in items :
        /\ RowShows(x.before)
        /\ x.before.remote \notin overtaken => x.before.manual = x.decision
    /\ \A x, y \in items :
        /\ x.id = y.id => x = y
        /\ x.before.remote = y.before.remote => x.decision = y.decision

UndoInv ==
    /\ undo \in Seq(SUBSET AnySnapshot)
    /\ \A k \in DOMAIN undo : Holds(undo[k])

DecisionInv == decisions \in [Remotes -> AnyDecision]

ResultsInv == TableInv /\ ScanInv /\ UndoInv /\ DecisionInv

-----------------------------------------------------------------------------
(* An element of a sequence of rows. *)
LEMMA RowIn ==
    ASSUME NEW q \in Seq(AnyRow), NEW i \in DOMAIN q
    PROVE  q[i] \in AnyRow /\ q[i].remote \in Remotes
<1>1. q[i] \in AnyRow
  OBVIOUS
<1> QED
  BY <1>1 DEF AnyRow

(* There is nothing to show yet. *)
LEMMA ResultsInitInv == TableInit => ResultsInv
<1> SUFFICES ASSUME TableInit PROVE ResultsInv
  OBVIOUS
<1> USE DEF TableInit
<1>1. TableInv
  BY DEF TableInv
<1>2. ScanInv
  <2>1. NoScan \in AnyScan
    BY DEF NoScan, AnyScan
  <2>2. ASSUME NEW s \in Scans PROVE ScanOk(s)
    BY DEF ScanOk, NoScan
  <2> QED
    BY <2>1, <2>2 DEF ScanInv
<1>3. UndoInv
  BY DEF UndoInv
<1>4. DecisionInv
  BY DEF DecisionInv, AnyDecision, Manual
<1> QED
  BY <1>1, <1>2, <1>3, <1>4 DEF ResultsInv

-----------------------------------------------------------------------------
(* What a step leaves alone. *)

(* Files decided on while a comparison had read them count as overtaken, so*)
(* that its rows are what they should be, for the other files.             *)
LEMMA ScansKept ==
    ASSUME ScanInv, UNCHANGED scan, overtaken \subseteq overtaken',
           \A r \in Remotes \ overtaken' : r \in Read => decisions'[r] = decisions[r]
    PROVE  ScanInv'
<1>1. ASSUME NEW s \in Scans PROVE ScanOk(s)'
  <2>1. ScanOk(s) /\ scan[s] \in AnyScan
    BY DEF ScanInv
  <2>2. ASSUME NEW i \in DOMAIN scan[s].rows, scan[s].rows[i].remote \notin overtaken'
        PROVE  scan[s].rows[i].manual = Awaited(s, scan[s].rows[i].remote)'
    <3>1. scan[s].rows[i] \in AnyRow
      BY <2>1 DEF AnyScan
    <3>2. scan[s].rows[i].remote \in Read
      BY DEF Read
    <3>3. decisions'[scan[s].rows[i].remote] = decisions[scan[s].rows[i].remote]
      BY <2>2, <3>1, <3>2 DEF AnyRow
    <3> QED
      BY <2>1, <2>2, <3>3 DEF ScanOk, Awaited
  <2> QED
    BY <2>1, <2>2 DEF ScanOk
<1> QED
  BY <1>1 DEF ScanInv

LEMMA UndoKept ==
    ASSUME UndoInv, UNCHANGED undo, overtaken \subseteq overtaken'
    PROVE  UndoInv'
<1>1. ASSUME NEW k \in DOMAIN undo PROVE Holds(undo[k])'
  BY DEF UndoInv, Holds
<1> QED
  BY <1>1 DEF UndoInv

LEMMA TableKept ==
    ASSUME TableInv, UNCHANGED table, overtaken \subseteq overtaken', UNCHANGED decisions
    PROVE  TableInv'
BY DEF TableInv

(* Rows that are replaced where they are, by rows of the same files. *)
LEMMA RowsChanged ==
    ASSUME TableInv, overtaken \subseteq overtaken',
           table' \in Seq(AnyRow), DOMAIN table' = DOMAIN table,
           \A i \in DOMAIN table :
             /\ RowShows(table'[i])
             /\ table'[i].remote \notin overtaken' =>
                    /\ table'[i].remote = table[i].remote
                    /\ table'[i].manual = decisions'[table[i].remote]
    PROVE  TableInv'
<1>1. \A i, j \in DOMAIN table :
        table'[i].remote = table'[j].remote /\ table'[i].remote \notin overtaken' => i = j
  BY DEF TableInv
<1>2. \A i \in DOMAIN table :
        table'[i].remote \notin overtaken' => table'[i].manual = decisions'[table'[i].remote]
  OBVIOUS
<1> QED
  BY <1>1, <1>2 DEF TableInv

(* A sequence with other elements. *)
LEMMA Relabelled ==
    ASSUME NEW q \in Seq(AnyRow), NEW f, f = [i \in DOMAIN q |-> f[i]],
           \A i \in DOMAIN q : f[i] \in AnyRow
    PROVE  f \in Seq(AnyRow) /\ DOMAIN f = DOMAIN q
<1>1. DOMAIN q = 1 .. Len(q) /\ Len(q) \in Nat
  OBVIOUS
<1> QED
  BY <1>1

(* One line gets another verdict or mark, and keeps its file; the decision  *)
(* of no other file changes.                                               *)
LEMMA RowChanged ==
    ASSUME TableInv, NEW k \in DOMAIN table, NEW line \in AnyRow,
           table' = [table EXCEPT ![k] = line],
           overtaken \subseteq overtaken',
           line.remote = table[k].remote, RowShows(line),
           line.remote \notin overtaken' => line.manual = decisions'[line.remote],
           \A r \in Remotes : r # line.remote => decisions'[r] = decisions[r]
    PROVE  TableInv'
<1> USE DEF TableInv
<1>1. table' \in Seq(AnyRow) /\ DOMAIN table' = DOMAIN table
  OBVIOUS
<1>2. \A i \in DOMAIN table : table'[i] = IF i = k THEN line ELSE table[i]
  OBVIOUS
<1>3. \A i \in DOMAIN table : table'[i].remote = table[i].remote
  BY <1>2
<1>4. ASSUME NEW i \in DOMAIN table, table[i].remote \notin overtaken'
      PROVE  table'[i].manual = decisions'[table[i].remote]
  <2>1. CASE i = k
    BY <1>2, <1>4, <2>1
  <2>2. CASE i # k
    <3>1. table[i].remote \notin overtaken
      BY <1>4
    <3>2. table[i].remote # line.remote
      BY <2>2, <3>1
    <3>3. table[i].remote \in Remotes
      BY RowIn
    <3> QED
      BY <1>2, <2>2, <3>1, <3>2, <3>3
  <2> QED
    BY <2>1, <2>2
<1>5. \A i \in DOMAIN table : RowShows(table'[i])
  BY <1>2
<1>6. \A i, j \in DOMAIN table :
        table'[i].remote = table'[j].remote /\ table'[i].remote \notin overtaken' => i = j
  BY <1>3
<1>7. \A i \in DOMAIN table :
        table'[i].remote \notin overtaken' => table'[i].manual = decisions'[table'[i].remote]
  BY <1>3, <1>4
<1> HIDE DEF TableInv
<1> QED
  BY <1>1, <1>5, <1>6, <1>7 DEF TableInv

-----------------------------------------------------------------------------
(* Comparisons *)

(* One comparison goes on; what it has so far stays as it should be. *)
LEMMA OneScan ==
    ASSUME ScanInv, NEW s \in Scans,
           scan' \in [Scans -> AnyScan],
           \A u \in Scans : u # s => scan'[u] = scan[u],
           UNCHANGED <<decisions, overtaken>>,
           ScanOk(s)'
    PROVE  ScanInv'
<1>1. ASSUME NEW u \in Scans, u # s PROVE ScanOk(u)'
  <2>1. scan'[u] = scan[u] /\ ScanOk(u)
    BY <1>1 DEF ScanInv
  <2> QED
    BY <2>1 DEF ScanOk, Awaited
<1> QED
  BY <1>1 DEF ScanInv

(* A comparison that is over has nothing. *)
LEMMA ScanCleared ==
    ASSUME ScanInv, NEW s \in Scans, scan' = [scan EXCEPT ![s] = NoScan]
    PROVE  /\ ScanOk(s)'
           /\ scan' \in [Scans -> AnyScan]
           /\ \A u \in Scans : u # s => scan'[u] = scan[u]
<1>1. NoScan \in AnyScan
  BY DEF NoScan, AnyScan
<1>2. scan'[s] = NoScan
  BY DEF ScanInv
<1>3. ScanOk(s)'
  BY <1>2 DEF ScanOk, NoScan
<1> QED
  BY <1>1, <1>3 DEF ScanInv

(* A comparison of some items. *)
LEMMA Begun ==
    ASSUME NEW n \in AnyScan, NEW items \in Seq(Remotes)
    PROVE  LET c == [n EXCEPT !.at = "compare", !.items = items]
           IN /\ c \in AnyScan /\ c.items = items /\ c.rows = n.rows /\ c.stale = n.stale
BY DEF AnyScan

LEMMA StartScanInv ==
    ASSUME ResultsInv, NEW s \in Scans, NEW items \in Items, StartScan(s, items)
    PROVE  ResultsInv'
<1> DEFINE c == [NoScan EXCEPT !.at = "compare", !.items = items]
<1>1. items \in Seq(Remotes) /\ \A i, j \in DOMAIN items : items[i] = items[j] => i = j
  BY DEF Items, IsInjective
<1>2. c \in AnyScan /\ c.items = items /\ c.rows = << >> /\ c.stale = {}
  <2>1. NoScan \in AnyScan /\ NoScan.rows = << >> /\ NoScan.stale = {}
    BY DEF AnyScan, NoScan
  <2> QED
    BY <1>1, <2>1, Begun
<1>3. scan' = [scan EXCEPT ![s] = c]
  BY DEF StartScan
<1>4. ScanOk(s)'
  <2>1. scan'[s] = c
    BY <1>3 DEF ResultsInv, ScanInv
  <2> HIDE DEF c
  <2> QED
    BY <1>1, <1>2, <2>1 DEF ScanOk
<1>5. ScanInv'
  <2>1. scan' \in [Scans -> AnyScan] /\ \A u \in Scans : u # s => scan'[u] = scan[u]
    BY <1>2, <1>3 DEF ResultsInv, ScanInv
  <2> QED
    BY <1>4, <2>1, OneScan DEF StartScan, ResultsInv
<1> QED
  BY <1>5, TableKept, UndoKept DEF StartScan, ResultsInv, DecisionInv

LEMMA CompareItemInv ==
    ASSUME ResultsInv, NEW s \in Scans, CompareItem(s)
    PROVE  ResultsInv'
<1> DEFINE r == scan[s].items[Len(scan[s].rows) + 1]
<1>1. PICK auto \in Compared, applies \in BOOLEAN :
        scan' = LET manual == IF applies THEN decisions[r] ELSE "none"
                IN [scan EXCEPT
                     ![s].rows = Append(@, [remote |-> r, auto |-> auto, manual |-> manual,
                                            status |-> IF manual = "none" THEN auto ELSE manual]),
                     ![s].stale = IF decisions[r] # "none" /\ ~applies
                                  THEN @ \cup {r} ELSE @]
  BY DEF CompareItem
<1> DEFINE manual == IF applies THEN decisions[r] ELSE "none"
           line == [remote |-> r, auto |-> auto, manual |-> manual,
                   status |-> IF manual = "none" THEN auto ELSE manual]
           rows == Append(scan[s].rows, line)
           stale == IF decisions[r] # "none" /\ ~applies
                    THEN scan[s].stale \cup {r} ELSE scan[s].stale
           n == Len(scan[s].rows)
<1>2. scan[s] \in AnyScan /\ ScanOk(s) /\ scan \in [Scans -> AnyScan]
  BY DEF ResultsInv, ScanInv
<1>3. n \in Nat /\ n < Len(scan[s].items) /\ DOMAIN scan[s].rows = 1 .. n
      /\ Len(scan[s].items) \in Nat /\ DOMAIN scan[s].items = 1 .. Len(scan[s].items)
  BY <1>2 DEF CompareItem, AnyScan
<1>4. r \in Remotes
  BY <1>2, <1>3 DEF AnyScan
<1>5. line \in AnyRow /\ RowShows(line) /\ line.remote = r /\ line.manual = manual
  BY <1>4 DEF AnyRow, Said, AnyDecision, Manual, Verdicts, ResultsInv, DecisionInv, RowShows
<1>6. rows \in Seq(AnyRow) /\ Len(rows) = n + 1 /\ DOMAIN rows = 1 .. n + 1
      /\ rows[n + 1] = line /\ \A i \in 1 .. n : rows[i] = scan[s].rows[i]
  <2>1. scan[s].rows \in Seq(AnyRow)
    BY <1>2 DEF AnyScan
  <2> HIDE DEF line
  <2> QED
    BY <1>3, <1>5, <2>1
<1>7. scan' = [scan EXCEPT ![s].rows = rows, ![s].stale = stale]
  BY <1>1
<1>8. scan' \in [Scans -> AnyScan] /\ \A u \in Scans : u # s => scan'[u] = scan[u]
  <2>1. stale \subseteq Remotes
    BY <1>2, <1>4 DEF AnyScan
  <2> HIDE DEF rows, stale
  <2> QED
    BY <1>2, <1>6, <1>7, <2>1 DEF AnyScan
<1>9. /\ scan'[s].rows = rows /\ scan'[s].stale = stale /\ scan'[s].items = scan[s].items
      /\ UNCHANGED <<decisions, overtaken>>
  <2> HIDE DEF rows, stale
  <2> QED
    BY <1>2, <1>7 DEF CompareItem, AnyScan
<1>10. \A i \in 1 .. n : scan[s].rows[i].remote # r
  BY <1>2, <1>3 DEF ScanOk
<1>11. r \notin scan[s].stale
  BY <1>2, <1>3, <1>10 DEF ScanOk
<1>12. line.manual = IF r \in stale THEN "none" ELSE decisions[r]
  BY <1>5, <1>11
<1>13. ScanOk(s)'
  <2>1. \A i \in 1 .. n + 1 : rows[i].remote = scan[s].items[i] /\ RowShows(rows[i])
    <3> SUFFICES ASSUME NEW i \in 1 .. n + 1
                 PROVE  rows[i].remote = scan[s].items[i] /\ RowShows(rows[i])
      OBVIOUS
    <3> HIDE DEF rows, line
    <3>1. CASE i = n + 1
      BY <1>5, <1>6, <3>1
    <3>2. CASE i \in 1 .. n
      BY <1>2, <1>3, <1>6, <3>2 DEF ScanOk
    <3> QED
      BY <1>3, <3>1, <3>2
  <2>2. ASSUME NEW i \in 1 .. n + 1, rows[i].remote \notin overtaken
        PROVE  rows[i].manual = IF rows[i].remote \in stale THEN "none"
                                ELSE decisions[rows[i].remote]
    <3>1. CASE i = n + 1
      BY <1>5, <1>6, <1>12, <3>1
    <3>2. CASE i \in 1 .. n
      <4>1. scan[s].rows[i].remote # r /\ rows[i] = scan[s].rows[i]
        BY <1>6, <1>10, <3>2
      <4>2. scan[s].rows[i].manual = Awaited(s, scan[s].rows[i].remote)
        BY <1>2, <1>3, <2>2, <3>2, <4>1 DEF ScanOk
      <4> QED
        BY <4>1, <4>2 DEF Awaited
    <3> QED
      BY <1>3, <3>1, <3>2
  <2>3. \A x \in stale : \E i \in 1 .. n + 1 : rows[i].remote = x
    <3> SUFFICES ASSUME NEW x \in stale PROVE \E i \in 1 .. n + 1 : rows[i].remote = x
      OBVIOUS
    <3>1. CASE x = r
      <4>1. rows[n + 1].remote = x /\ n + 1 \in 1 .. n + 1
        <5> HIDE DEF rows, line
        <5> QED
          BY <1>3, <1>5, <1>6, <3>1
      <4> QED
        BY <4>1
    <3>2. CASE x \in scan[s].stale
      <4>1. PICK i \in 1 .. n : scan[s].rows[i].remote = x
        BY <1>2, <1>3, <3>2 DEF ScanOk
      <4>2. rows[i].remote = x /\ i \in 1 .. n + 1
        <5> HIDE DEF rows
        <5> QED
          BY <1>3, <1>6, <4>1
      <4> QED
        BY <4>2
    <3> QED
      BY <3>1, <3>2
  <2>4. Len(rows) <= Len(scan[s].items)
    BY <1>3, <1>6
  <2>5. \A i, j \in DOMAIN scan[s].items : scan[s].items[i] = scan[s].items[j] => i = j
    BY <1>2 DEF ScanOk
  <2> HIDE DEF rows, stale, line, manual, r
  <2> QED
    BY <1>6, <1>9, <2>1, <2>2, <2>3, <2>4, <2>5 DEF ScanOk, Awaited
<1>14. ScanInv'
  BY <1>8, <1>9, <1>13, OneScan DEF ResultsInv
<1> QED
  BY <1>14, TableKept, UndoKept DEF CompareItem, ResultsInv, DecisionInv

LEMMA AbandonInv ==
    ASSUME ResultsInv, NEW s \in Scans, Abandon(s)
    PROVE  ResultsInv'
<1>1. ScanInv'
  BY ScanCleared, OneScan DEF Abandon, ResultsInv
<1> QED
  BY <1>1, TableKept, UndoKept DEF Abandon, ResultsInv, DecisionInv

(* The rows of the comparison become the table, and the decisions that are *)
(* forgotten are those its rows do without.                                *)
LEMMA PublishInv ==
    ASSUME ResultsInv, NEW s \in Scans, PublishTable(s)
    PROVE  ResultsInv'
<1>1. scan[s] \in AnyScan /\ ScanOk(s) /\ overtaken \subseteq overtaken'
  BY DEF ResultsInv, ScanInv, PublishTable
<1>2. table' = scan[s].rows /\ table' \in Seq(AnyRow)
      /\ DOMAIN table' \subseteq DOMAIN scan[s].items
  BY <1>1 DEF PublishTable, AnyScan, ScanOk
<1>3. decisions' = [r \in Remotes |-> IF r \in scan[s].stale THEN "none" ELSE decisions[r]]
  BY DEF PublishTable
<1>4. DecisionInv'
  BY <1>3 DEF ResultsInv, DecisionInv, AnyDecision
<1>5. TableInv'
  <2>1. ASSUME NEW i \in DOMAIN table'
        PROVE  /\ RowShows(table'[i])
               /\ table'[i].remote \notin overtaken' =>
                     table'[i].manual = decisions'[table'[i].remote]
    <3>1. table'[i] \in AnyRow
      BY <1>2, <2>1
    <3>2. table'[i].remote \in Remotes
      BY <3>1 DEF AnyRow
    <3> QED
      BY <1>1, <1>2, <1>3, <2>1, <3>2 DEF ScanOk, Awaited
  <2>2. \A i, j \in DOMAIN table' : table'[i].remote = table'[j].remote => i = j
    BY <1>1, <1>2 DEF ScanOk
  <2> QED
    BY <1>2, <2>1, <2>2 DEF TableInv
<1>6. ScanInv'
  <2>1. /\ ScanOk(s)' /\ scan' \in [Scans -> AnyScan]
        /\ \A u \in Scans : u # s => scan'[u] = scan[u]
    BY ScanCleared DEF PublishTable, ResultsInv
  <2>2. ASSUME NEW u \in Scans, u # s PROVE ScanOk(u)'
    <3>1. scan'[u] = scan[u] /\ ScanOk(u) /\ scan[u] \in AnyScan
      BY <2>1, <2>2 DEF ResultsInv, ScanInv
    <3>2. ASSUME NEW i \in DOMAIN scan[u].rows, scan[u].rows[i].remote \notin overtaken'
          PROVE  scan[u].rows[i].manual = Awaited(u, scan[u].rows[i].remote)'
      <4> DEFINE r == scan[u].rows[i].remote
      <4>1. r \in Remotes
        BY <3>1, RowIn DEF AnyScan
      <4>2. r \in UNION {{scan[x].rows[j].remote : j \in DOMAIN scan[x].rows} :
                         x \in Scans \ {s}}
        BY <2>2
      <4>3. r \notin scan[s].stale
        BY <3>2, <4>2 DEF PublishTable
      <4>4. decisions'[r] = decisions[r]
        BY <1>3, <4>1, <4>3
      <4> QED
        BY <1>1, <3>1, <3>2, <4>4 DEF ScanOk, Awaited
    <3> QED
      BY <3>1, <3>2 DEF ScanOk
  <2> QED
    BY <2>1, <2>2 DEF ResultsInv, ScanInv
<1> QED
  BY <1>1, <1>4, <1>5, <1>6, UndoKept DEF PublishTable, ResultsInv

LEMMA ClearInv ==
    ASSUME ResultsInv, ClearResults
    PROVE  ResultsInv'
<1>1. TableInv'
  BY DEF ClearResults, TableInv
<1> QED
  BY <1>1, ScansKept, UndoKept DEF ClearResults, ResultsInv, DecisionInv

-----------------------------------------------------------------------------
(* Verdicts and downloads *)

(* A line in which another automatic verdict is entered. *)
LEMMA JudgedRow ==
    ASSUME NEW line \in AnyRow, NEW auto \in Said, RowShows(line)
    PROVE  /\ Judged(line, auto) \in AnyRow /\ RowShows(Judged(line, auto))
           /\ Judged(line, auto).remote = line.remote
           /\ Judged(line, auto).manual = line.manual
BY DEF Judged, AnyRow, RowShows

(* Entering a verdict in a line leaves the user's decisions alone. *)
LEMMA JudgedKeeps ==
    ASSUME ResultsInv, NEW k \in DOMAIN table, NEW auto \in Said,
           table' = [table EXCEPT ![k] = Judged(@, auto)],
           UNCHANGED <<decisions, undo, scan, overtaken>>
    PROVE  ResultsInv'
<1> DEFINE line == Judged(table[k], auto)
<1>1. table[k] \in AnyRow /\ RowShows(table[k])
  BY RowIn DEF ResultsInv, TableInv
<1>2. /\ line \in AnyRow /\ RowShows(line)
      /\ line.remote = table[k].remote /\ line.manual = table[k].manual
  BY <1>1, JudgedRow
<1>3. table[k].remote \notin overtaken => line.manual = decisions[line.remote]
  BY <1>2 DEF ResultsInv, TableInv
<1>4. table' = [table EXCEPT ![k] = line]
  OBVIOUS
<1>5. TableInv'
  <2> HIDE DEF line
  <2> QED
    BY <1>2, <1>3, <1>4, RowChanged DEF ResultsInv
<1> QED
  BY <1>5, ScansKept, UndoKept DEF ResultsInv, DecisionInv

(* What moves nothing but a copied line. *)
LEMMA TableRestKeeps ==
    ASSUME ResultsInv, UNCHANGED <<table, decisions, undo, scan, overtaken>>
    PROVE  ResultsInv'
BY TableKept, ScansKept, UndoKept DEF ResultsInv, DecisionInv

(* The mark of a download goes to the file of the line it is entered in. *)
LEMMA MarkDownloadedInv ==
    ASSUME ResultsInv, NEW d, markDownloaded(d), UNCHANGED <<undo, scan>>
    PROVE  ResultsInv'
<1>1. CASE task[d].id \in DOMAIN table
  <2> DEFINE k == task[d].id
             r == table[k].remote
             line == [table[k] EXCEPT !.status = "HAVE", !.manual = "HAVE"]
  <2>1. table[k] \in AnyRow /\ r \in Remotes
    BY <1>1, RowIn DEF ResultsInv, TableInv
  <2>2. line \in AnyRow /\ RowShows(line) /\ line.remote = r /\ line.manual = "HAVE"
    BY <2>1 DEF AnyRow, Said, Verdicts, AnyDecision, Manual, RowShows
  <2>3. table' = [table EXCEPT ![k] = line]
    BY <1>1 DEF markDownloaded
  <2>4. decisions' = [decisions EXCEPT ![r] = "HAVE"]
        /\ overtaken' = overtaken \cup ({r} \cap Read)
    BY <1>1 DEF markDownloaded
  <2>5. DecisionInv' /\ decisions'[r] = "HAVE"
        /\ \A q \in Remotes : q # r => decisions'[q] = decisions[q]
    BY <2>1, <2>4 DEF ResultsInv, DecisionInv, AnyDecision, Manual
  <2>6. TableInv'
    <3>1. overtaken \subseteq overtaken' /\ k \in DOMAIN table /\ r = table[k].remote
      BY <1>1, <2>4
    <3> HIDE DEF line, k, r
    <3> QED
      BY <2>2, <2>3, <2>5, <3>1, RowChanged DEF ResultsInv
  <2>7. ScanInv'
    <3>1. \A q \in Remotes \ overtaken' : q \in Read => decisions'[q] = decisions[q]
      BY <2>4, <2>5
    <3> QED
      BY <2>4, <3>1, ScansKept DEF ResultsInv
  <2> QED
    BY <2>4, <2>5, <2>6, <2>7, UndoKept DEF ResultsInv
<1>2. CASE task[d].id \notin DOMAIN table
  BY <1>2, TableRestKeeps DEF markDownloaded
<1> QED
  BY <1>1, <1>2

-----------------------------------------------------------------------------
(* Marks *)

(* One more mark on a stack. *)
LEMMA Stacked ==
    ASSUME NEW marked \in Seq(SUBSET AnySnapshot), NEW items \in SUBSET AnySnapshot,
           undo' = Append(marked, items), overtaken \subseteq overtaken',
           \A k \in DOMAIN marked : Holds(marked[k]),
           \A x \in items :
             /\ RowShows(x.before)
             /\ x.before.remote \notin overtaken' => x.before.manual = x.decision,
           \A x, y \in items :
             /\ x.id = y.id => x = y
             /\ x.before.remote = y.before.remote => x.decision = y.decision
    PROVE  UndoInv'
<1>1. /\ undo' \in Seq(SUBSET AnySnapshot)
      /\ \A k \in DOMAIN undo' :
            \/ undo'[k] = items
            \/ k \in DOMAIN marked /\ undo'[k] = marked[k]
  OBVIOUS
<1>2. ASSUME NEW k \in DOMAIN undo' PROVE Holds(undo[k])'
  <2>1. CASE undo'[k] = items
    BY <2>1 DEF Holds
  <2>2. CASE k \in DOMAIN marked /\ undo'[k] = marked[k]
    BY <2>2 DEF Holds
  <2> QED
    BY <1>1, <2>1, <2>2
<1> QED
  BY <1>1, <1>2 DEF UndoInv

(* The stack with one more mark and, perhaps, one less. *)
LEMMA PushedOk ==
    ASSUME MaxUndo \in Nat \ {0}, UndoInv, NEW items \in SUBSET AnySnapshot, undo' = Pushed(items),
           overtaken \subseteq overtaken',
           \A x \in items :
             /\ RowShows(x.before)
             /\ x.before.remote \notin overtaken' => x.before.manual = x.decision,
           \A x, y \in items :
             /\ x.id = y.id => x = y
             /\ x.before.remote = y.before.remote => x.decision = y.decision
    PROVE  UndoInv'
<1>1. undo \in Seq(SUBSET AnySnapshot) /\ Len(undo) \in Nat
  BY DEF UndoInv
<1>2. CASE Len(undo) < MaxUndo
  <2>1. undo' = Append(undo, items)
    BY <1>2 DEF Pushed
  <2> QED
    BY <1>1, <2>1, Stacked DEF UndoInv
<1>3. CASE ~(Len(undo) < MaxUndo)
  <2>1. undo' = Append(Tail(undo), items)
    BY <1>3 DEF Pushed
  <2>2. undo # << >> /\ Tail(undo) \in Seq(SUBSET AnySnapshot)
    BY <1>1, <1>3
  <2>3. \A k \in DOMAIN Tail(undo) : k + 1 \in DOMAIN undo /\ Tail(undo)[k] = undo[k + 1]
    BY <1>1, <2>2
  <2>4. \A k \in DOMAIN Tail(undo) : Holds(Tail(undo)[k])
    BY <2>3 DEF UndoInv
  <2> QED
    BY <2>1, <2>2, <2>4, Stacked
<1> QED
  BY <1>2, <1>3

LEMMA MarkInv ==
    ASSUME MaxUndo \in Nat \ {0}, ResultsInv,
           NEW ids \in SUBSET DOMAIN table, NEW status \in Manual \cup {"none"},
           Mark(ids, status)
    PROVE  ResultsInv'
<1> DEFINE undone(i) == [id |-> i, before |-> table[i],
                           decision |-> decisions[table[i].remote]]
           items == {undone(i) : i \in ids}
<1>1. \A i \in DOMAIN table : table[i] \in AnyRow /\ table[i].remote \in Remotes
  BY RowIn DEF ResultsInv, TableInv
<1>2. overtaken' = overtaken \cup (Marked(ids) \cap Read)
  BY DEF Mark
<1>3. decisions' = [r \in Remotes |-> IF r \in Marked(ids) THEN status ELSE decisions[r]]
  BY DEF Mark
<1>4. DecisionInv'
  BY <1>3 DEF ResultsInv, DecisionInv, AnyDecision
<1>5. UndoInv'
  <2>1. undo' = Pushed(items)
    BY DEF Mark
  <2>2. items \in SUBSET AnySnapshot
    <3>1. ASSUME NEW i \in ids PROVE undone(i) \in AnySnapshot
      <4>1. i \in Nat
        BY DEF ResultsInv, TableInv
      <4> QED
        BY <1>1, <4>1 DEF AnySnapshot, ResultsInv, DecisionInv
    <3> QED
      BY <3>1
  <2>3. \A x \in items : RowShows(x.before)
          /\ (x.before.remote \notin overtaken' => x.before.manual = x.decision)
    BY <1>2 DEF ResultsInv, TableInv
  <2>4. \A x, y \in items : (x.id = y.id => x = y)
          /\ (x.before.remote = y.before.remote => x.decision = y.decision)
    OBVIOUS
  <2> HIDE DEF items
  <2> QED
    BY <1>2, <2>1, <2>2, <2>3, <2>4, PushedOk DEF ResultsInv
<1>6. TableInv'
  <2> DEFINE line(i) == IF i \notin ids THEN table[i]
                       ELSE IF status = "none"
                       THEN [table[i] EXCEPT !.status = table[i].auto, !.manual = "none"]
                       ELSE [table[i] EXCEPT !.status = status, !.manual = status]
  <2>1. table' = [i \in DOMAIN table |-> line(i)]
    BY DEF Mark
  <2>2. ASSUME NEW i \in DOMAIN table
        PROVE  /\ line(i) \in AnyRow /\ RowShows(line(i)) /\ line(i).remote = table[i].remote
               /\ line(i).manual = IF i \in ids THEN status ELSE table[i].manual
    BY <1>1 DEF AnyRow, Said, Verdicts, AnyDecision, Manual, RowShows, ResultsInv, TableInv
  <2>3. table' \in Seq(AnyRow) /\ DOMAIN table' = DOMAIN table
    <3> HIDE DEF line
    <3>1. table' = [i \in DOMAIN table |-> table'[i]]
      BY <2>1
    <3>2. \A i \in DOMAIN table : table'[i] \in AnyRow
      BY <2>1, <2>2
    <3> QED
      BY <3>1, <3>2, Relabelled DEF ResultsInv, TableInv
  <2>4. \A i \in DOMAIN table : RowShows(table'[i]) /\ table'[i].remote = table[i].remote
    BY <2>1, <2>2
  <2>5. ASSUME NEW i \in DOMAIN table, table[i].remote \notin overtaken'
        PROVE  table'[i].manual = decisions'[table[i].remote]
    <3>1. CASE i \in ids
      BY <1>1, <1>3, <2>1, <2>2, <3>1 DEF Marked
    <3>2. CASE i \notin ids
      <4>1. table[i].remote \notin Marked(ids)
        BY <1>2, <2>5, <3>2 DEF Marked, ResultsInv, TableInv
      <4> QED
        BY <1>1, <1>2, <1>3, <2>1, <2>2, <2>5, <3>2, <4>1 DEF ResultsInv, TableInv
    <3> QED
      BY <3>1, <3>2
  <2> QED
    BY <1>2, <2>3, <2>4, <2>5, RowsChanged DEF ResultsInv
<1>7. ScanInv'
  <2>1. \A r \in Remotes \ overtaken' : r \in Read => decisions'[r] = decisions[r]
    BY <1>2, <1>3
  <2> QED
    BY <1>2, <2>1, ScansKept DEF Mark, ResultsInv
<1> QED
  BY <1>4, <1>5, <1>6, <1>7 DEF ResultsInv

(* Undoing a mark: a line that is not overtaken was where it was marked, so *)
(* that it gets back the mark that goes with its decision.                 *)
LEMMA UndoMarkInv ==
    ASSUME ResultsInv, UndoMark
    PROVE  ResultsInv'
<1>1. /\ undo # << >> /\ undo' = Front(undo)
      /\ table' = [i \in DOMAIN table |-> IF \E x \in LastMark : x.id = i
                                         THEN At(i).before ELSE table[i]]
      /\ decisions' = [r \in Remotes |-> IF Undone(r) THEN Of(r).decision ELSE decisions[r]]
      /\ overtaken' = overtaken \cup Moved \cup {r \in Read : Undone(r)}
      /\ UNCHANGED scan
  BY DEF UndoMark
<1>2. LastMark \in SUBSET AnySnapshot /\ Holds(LastMark)
  <2>1. undo \in Seq(SUBSET AnySnapshot) /\ Len(undo) \in DOMAIN undo
    BY <1>1 DEF ResultsInv, UndoInv
  <2>2. undo[Len(undo)] \in SUBSET AnySnapshot
    BY <2>1
  <2> QED
    BY <2>1, <2>2 DEF LastMark, ResultsInv, UndoInv
<1>3. \A x \in LastMark : x.before \in AnyRow /\ x.before.remote \in Remotes
                         /\ x.decision \in AnyDecision
  BY <1>2 DEF AnySnapshot, AnyRow
<1>4. \A i : (\E x \in LastMark : x.id = i) => At(i) \in LastMark /\ At(i).id = i
  BY DEF At
<1>5. \A r : Undone(r) => Of(r) \in LastMark /\ Of(r).before.remote = r
  BY DEF Undone, Of
<1>6. DecisionInv'
  BY <1>1, <1>3, <1>5 DEF ResultsInv, DecisionInv
<1>7. ASSUME NEW x \in LastMark, x.before.remote \notin overtaken'
      PROVE  x.id \in DOMAIN table /\ table[x.id].remote = x.before.remote
  BY <1>1, <1>7 DEF Moved
<1>8. TableInv'
  <2>1. ASSUME NEW i \in DOMAIN table
        PROVE  table'[i] \in AnyRow /\ RowShows(table'[i])
    <3>1. CASE \E x \in LastMark : x.id = i
      BY <1>1, <1>2, <1>3, <1>4, <3>1 DEF Holds
    <3>2. CASE ~\E x \in LastMark : x.id = i
      BY <1>1, <3>2, RowIn DEF ResultsInv, TableInv
    <3> QED
      BY <3>1, <3>2
  <2>2. table' \in Seq(AnyRow) /\ DOMAIN table' = DOMAIN table
    <3>1. table' = [i \in DOMAIN table |-> table'[i]]
      BY <1>1
    <3> QED
      BY <2>1, <3>1, Relabelled DEF ResultsInv, TableInv
  <2>3. ASSUME NEW i \in DOMAIN table, table'[i].remote \notin overtaken'
        PROVE  /\ table'[i].remote = table[i].remote
               /\ table'[i].manual = decisions'[table[i].remote]
    <3>1. CASE \E x \in LastMark : x.id = i
      <4> DEFINE x == At(i)
                 r == x.before.remote
      <4>1. x \in LastMark /\ x.id = i /\ table'[i] = x.before /\ r \in Remotes
        BY <1>1, <1>3, <1>4, <3>1
      <4>2. table[i].remote = r
        BY <1>7, <2>3, <4>1
      <4>3. x.before.manual = x.decision
        BY <1>1, <1>2, <2>3, <4>1 DEF Holds
      <4>4. Undone(r)
        BY <4>1 DEF Undone
      <4>5. Of(r).decision = x.decision
        BY <1>2, <1>5, <4>1, <4>4 DEF Holds
      <4> QED
        BY <1>1, <4>1, <4>2, <4>3, <4>4, <4>5
    <3>2. CASE ~\E x \in LastMark : x.id = i
      <4>1. table'[i] = table[i] /\ table[i].remote \in Remotes
        BY <1>1, <3>2, RowIn DEF ResultsInv, TableInv
      <4>2. ~Undone(table[i].remote)
        <5> SUFFICES ASSUME NEW y \in LastMark, y.before.remote = table[i].remote
                     PROVE FALSE
          BY DEF Undone
        <5>1. y.id \in DOMAIN table /\ table[y.id].remote = table[i].remote
          BY <1>7, <2>3, <4>1
        <5>2. y.id = i
          BY <1>1, <2>3, <4>1, <5>1 DEF ResultsInv, TableInv
        <5> QED
          BY <3>2, <5>2
      <4> QED
        BY <1>1, <2>3, <4>1, <4>2 DEF ResultsInv, TableInv
    <3> QED
      BY <3>1, <3>2
  <2> QED
    BY <1>1, <2>1, <2>2, <2>3, RowsChanged DEF ResultsInv
<1>9. ScanInv'
  <2>1. \A r \in Remotes \ overtaken' : r \in Read => decisions'[r] = decisions[r]
    BY <1>1
  <2> QED
    BY <1>1, <2>1, ScansKept DEF ResultsInv
<1>10. UndoInv'
  <2>1. undo \in Seq(SUBSET AnySnapshot)
    BY DEF ResultsInv, UndoInv
  <2>2. /\ Front(undo) \in Seq(SUBSET AnySnapshot)
        /\ \A k \in DOMAIN Front(undo) : k \in DOMAIN undo /\ Front(undo)[k] = undo[k]
    BY <1>1, <2>1 DEF Front
  <2>3. ASSUME NEW k \in DOMAIN undo' PROVE Holds(undo[k])'
    BY <1>1, <2>2 DEF Holds, ResultsInv, UndoInv
  <2> QED
    BY <1>1, <2>2, <2>3 DEF UndoInv
<1> QED
  BY <1>6, <1>8, <1>9, <1>10 DEF ResultsInv

-----------------------------------------------------------------------------

(* Every step keeps the invariant. *)
LEMMA ResultsNextInv ==
    ASSUME MaxUndo \in Nat \ {0}
    PROVE  ResultsInv /\ [TableNext]_tableVars => ResultsInv'
<1> SUFFICES ASSUME ResultsInv, [TableNext]_tableVars PROVE ResultsInv'
  OBVIOUS
<1>1. CASE \E s \in Scans :
             \/ \E items \in Items : StartScan(s, items)
             \/ CompareItem(s) \/ PublishTable(s) \/ Abandon(s)
  BY <1>1, StartScanInv, CompareItemInv, PublishInv, AbandonInv
<1>2. CASE ClearResults
  BY <1>2, ClearInv
<1>3. CASE \E ids \in SUBSET DOMAIN table, status \in Manual \cup {"none"} : Mark(ids, status)
  BY <1>3, MarkInv
<1>4. CASE UndoMark
  BY <1>4, UndoMarkInv
<1>5. CASE \E i \in DOMAIN table :
             PickCandidate(i) \/ \E t \in Checks \cup Downloads : Copy(t, i)
  <2>1. ASSUME NEW i \in DOMAIN table, PickCandidate(i) PROVE ResultsInv'
    <3>1. "POSSIBLE" \in Said
      BY DEF Said, Verdicts
    <3> QED
      BY <2>1, <3>1, JudgedKeeps DEF PickCandidate
  <2>2. ASSUME NEW i \in DOMAIN table, NEW t, Copy(t, i) PROVE ResultsInv'
    BY <2>2, TableRestKeeps DEF Copy
  <2> QED
    BY <1>5, <2>1, <2>2
<1>6. CASE \E t \in Checks \cup Downloads : GiveUp(t)
  BY <1>6, TableRestKeeps DEF GiveUp, Done
<1>7. CASE \E c \in Checks : Verdict(c)
  <2>1. PICK c \in Checks, auto \in Outcomes :
          /\ task[c].id \in DOMAIN table
          /\ table' = [table EXCEPT ![task[c].id] = Judged(@, auto)]
          /\ UNCHANGED <<decisions, undo, scan, overtaken>>
    BY <1>7 DEF Verdict, Done
  <2>2. auto \in Said
    BY DEF Said
  <2> QED
    BY <2>1, <2>2, JudgedKeeps
<1>8. CASE \E d \in Downloads : MarkRow(d) \/ StillSame(d) \/ MarkSame(d)
  <2>1. ASSUME NEW d \in Downloads, MarkRow(d) \/ MarkSame(d) PROVE ResultsInv'
    BY <2>1, MarkDownloadedInv DEF MarkRow, MarkSame, Done
  <2>2. ASSUME NEW d \in Downloads, StillSame(d) PROVE ResultsInv'
    BY <2>2, TableRestKeeps DEF StillSame
  <2> QED
    BY <1>8, <2>1, <2>2
<1>9. CASE UNCHANGED tableVars
  BY <1>9, TableRestKeeps DEF tableVars
<1> QED
  BY <1>1, <1>2, <1>3, <1>4, <1>5, <1>6, <1>7, <1>8, <1>9 DEF TableNext

(* What a line shows is the user's decision on its file, or the automatic   *)
(* verdict, whatever comparisons, marks, undone marks, verifications and   *)
(* downloads overlap, for the files that were not overtaken.               *)
THEOREM DecisionsShown ==
    ASSUME MaxUndo \in Nat \ {0}
    PROVE  TableSpec => []RowsShowDecisions
<1>1. ResultsInv => RowsShowDecisions
  BY DEF ResultsInv, TableInv, RowsShowDecisions, RowShows
<1>2. ResultsInv /\ [TableNext]_tableVars => ResultsInv'
  BY ResultsNextInv
<1> QED
  BY ResultsInitInv, <1>1, <1>2, PTL DEF TableSpec

=============================================================================
