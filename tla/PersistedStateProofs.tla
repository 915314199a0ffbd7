------------------------ MODULE PersistedStateProofs ------------------------
(***************************************************************************)
(* Proofs about PersistedState: its types, that a saved state survives, and*)
(* that the known-good copy does.                                          *)
(***************************************************************************)
EXTENDS PersistedState, TLAPS

USE PersistAssumption DEF Versions, Contents, Copiers, CopySteps, LaunchSteps

FilesTyped == data \in [Files -> Contents] /\ time \in [Files -> Nat] /\ clock \in Nat

Copier == [at : CopySteps \cup LaunchSteps \cup {"idle"},
           from : {"primary", "tmp", "bak"}, to : {"primary", "bak"},
           ok : BOOLEAN, seen : Nat, stamp : Nat]

CopiersTyped == copier \in [Copiers -> Copier]

LEMMA IdleTyped == Idle \in Copier
BY DEF Idle, At, Copier

(* What the file operations do to the types. *)
LEMMA WriteTyped ==
    ASSUME FilesTyped, NEW f \in Files, NEW c \in Contents, Write(f, c)
    PROVE  FilesTyped'
BY DEF FilesTyped, Write

LEMMA MoveTyped ==
    ASSUME FilesTyped, NEW f \in Files, NEW g \in Files, Move(f, g)
    PROVE  FilesTyped'
BY DEF FilesTyped, Move, Files

LEMMA DropTyped ==
    ASSUME FilesTyped, NEW f \in Files, Drop(f)
    PROVE  FilesTyped'
BY DEF FilesTyped, Drop

LEMMA KeptTyped == ASSUME FilesTyped, Kept PROVE FilesTyped'
BY DEF FilesTyped, Kept

LEMMA Companions ==
    ASSUME NEW f \in {"primary", "bak"}
    PROVE  f \in Files /\ Rec(f) \in Files /\ Old(f) \in Files
BY DEF Files, Rec, Old

(* What the bookkeeping of a copier does to the types. *)
LEMMA GotoTyped ==
    ASSUME CopiersTyped, NEW a \in Copiers, NEW l \in CopySteps \cup LaunchSteps \cup {"idle"},
           Goto(a, l)
    PROVE  CopiersTyped'
BY DEF CopiersTyped, Goto, Copier

LEMMA AfterTyped ==
    ASSUME CopiersTyped, NEW a \in Copiers, NEW good \in BOOLEAN, After(a, good)
    PROVE  CopiersTyped'
<1> DEFINE c == copier[a]
           l == IF a = "backup" THEN "idle"
                ELSE [primary |-> "claim", bak |-> "snapshot",
                      tmp |-> IF good THEN "clear" ELSE "restore"][c.from]
           s == IF good /\ c.from = "primary" THEN c.seen ELSE c.stamp
<1>1. c \in Copier
  BY DEF CopiersTyped
<1>2. l \in LaunchSteps \cup {"idle"} /\ s \in Nat /\ c.ok \in BOOLEAN
  BY <1>1 DEF Copier
<1>3. copier' = [copier EXCEPT ![a] = At(l, c.ok, s)]
  BY DEF After
<1> HIDE DEF l, s, c
<1>4. At(l, c.ok, s) \in Copier
  BY <1>2 DEF At, Copier
<1> QED BY <1>3, <1>4 DEF CopiersTyped

LEMMA StartCopyTyped ==
    ASSUME CopiersTyped, FilesTyped, NEW a \in Copiers,
           NEW f \in {"primary", "tmp", "bak"}, NEW g \in {"primary", "bak"}, StartCopy(a, f, g)
    PROVE  CopiersTyped'
<1>1. time[f] \in Nat
  BY DEF FilesTyped, Files
<1>2. copier[a] \in Copier
  BY DEF CopiersTyped
<1>3. copier' = [copier EXCEPT ![a] = [at |-> "copy", from |-> f, to |-> g, ok |-> copier[a].ok,
                                       seen |-> time[f], stamp |-> copier[a].stamp]]
  BY DEF StartCopy, CopiersTyped
<1> QED BY <1>1, <1>2, <1>3 DEF CopiersTyped, Copier

LEMMA PlacedTyped ==
    ASSUME TypeOK, NEW a \in Copiers, Placed(a)
    PROVE  CopiersTyped' /\ backed' \in Versions /\ defeated' \in BOOLEAN
<1>1. CopiersTyped'
  BY AfterTyped DEF Placed, TypeOK, CopiersTyped, Copier
<1>2. backed' \in Versions
  BY DEF Placed, TypeOK, Valid
<1> QED BY <1>1, <1>2 DEF Placed, TypeOK

LEMMA FailedTyped ==
    ASSUME TypeOK, NEW a \in Copiers, Failed(a)
    PROVE  CopiersTyped' /\ backed' \in Versions /\ defeated' \in BOOLEAN
<1>1. CopiersTyped'
  BY AfterTyped DEF Failed, TypeOK, CopiersTyped, Copier
<1> QED BY <1>1 DEF Failed, TypeOK

LEMMA ProceedTyped ==
    ASSUME TypeOK, NEW a \in Copiers, NEW l \in CopySteps, Proceed(a, l)
    PROVE  CopiersTyped' /\ backed' \in Versions /\ defeated' \in BOOLEAN
<1>1. CopiersTyped'
  BY GotoTyped DEF Proceed, TypeOK, CopiersTyped, Copier
<1> QED BY <1>1 DEF Proceed, TypeOK

(* A step of a copier keeps the types. *)
LEMMA CopyStepTyped ==
    ASSUME TypeOK, NEW a \in Copiers, CopyStep(a), UNCHANGED inPlace
    PROVE  TypeOK'
<1> DEFINE c == copier[a]
           t == c.to
<1>1. c \in Copier /\ FilesTyped /\ CopiersTyped
  BY DEF TypeOK, CopiersTyped, Copier, FilesTyped
<1>2. t \in {"primary", "bak"} /\ c.from \in Files
  BY <1>1 DEF Copier, Files
<1>3. t \in Files /\ Rec(t) \in Files /\ Old(t) \in Files
  BY <1>2, Companions
<1>4. /\ FilesTyped'
      /\ CopiersTyped' /\ backed' \in Versions /\ defeated' \in BOOLEAN
  <2>1. CASE Copy(a)
    <3>1. CASE data[c.from] # Missing /\ Write(Rec(t), data[c.from]) /\ Proceed(a, "recheck")
      <4>1. data[c.from] \in Contents
        BY <1>1, <1>2 DEF FilesTyped
      <4> QED BY <1>1, <1>3, <3>1, <4>1, WriteTyped, ProceedTyped
    <3>2. CASE Drop(Rec(t)) /\ Failed(a)
      BY <1>1, <1>3, <3>2, DropTyped, FailedTyped
    <3> QED BY <2>1, <3>1, <3>2 DEF Copy
  <2>2. CASE Recheck(a)
    <3>1. CASE Kept /\ Proceed(a, "rename")
      BY <1>1, <3>1, KeptTyped, ProceedTyped
    <3>2. CASE Drop(Rec(t)) /\ Failed(a)
      BY <1>1, <1>3, <3>2, DropTyped, FailedTyped
    <3> QED BY <2>2, <3>1, <3>2 DEF Recheck
  <2>3. CASE RenameCopy(a)
    <3>1. CASE Move(Rec(t), t) /\ Placed(a)
      BY <1>1, <1>3, <3>1, MoveTyped, PlacedTyped
    <3>2. CASE Kept /\ Proceed(a, IF data[t] = Missing THEN "last" ELSE "aside")
      BY <1>1, <3>2, KeptTyped, ProceedTyped
    <3> QED BY <2>3, <3>1, <3>2 DEF RenameCopy
  <2>4. CASE MoveAside(a)
    <3>1. CASE Move(t, Old(t)) /\ Proceed(a, "swap")
      BY <1>1, <1>3, <3>1, MoveTyped, ProceedTyped
    <3>2. CASE Drop(Rec(t)) /\ Failed(a)
      BY <1>1, <1>3, <3>2, DropTyped, FailedTyped
    <3> QED BY <2>4, <3>1, <3>2 DEF MoveAside
  <2>5. CASE SwapIn(a)
    <3>1. CASE Move(Rec(t), t) /\ Placed(a)
      BY <1>1, <1>3, <3>1, MoveTyped, PlacedTyped
    <3>2. CASE Kept /\ Proceed(a, "rollback")
      BY <1>1, <3>2, KeptTyped, ProceedTyped
    <3> QED BY <2>5, <3>1, <3>2 DEF SwapIn
  <2>6. CASE RollBack(a)
    <3>1. CASE Move(Old(t), t) /\ Failed(a)
      BY <1>1, <1>3, <3>1, MoveTyped, FailedTyped
    <3>2. CASE Drop(Rec(t)) /\ After(a, FALSE) /\ defeated' = TRUE /\ UNCHANGED backed
      BY <1>1, <1>3, <3>2, DropTyped, AfterTyped DEF TypeOK
    <3> QED BY <2>6, <3>1, <3>2 DEF RollBack
  <2>7. CASE RenameLast(a)
    <3>1. CASE Move(Rec(t), t) /\ Placed(a)
      BY <1>1, <1>3, <3>1, MoveTyped, PlacedTyped
    <3>2. CASE Drop(Rec(t)) /\ Failed(a)
      BY <1>1, <1>3, <3>2, DropTyped, FailedTyped
    <3> QED BY <2>7, <3>1, <3>2 DEF RenameLast
  <2> QED BY <2>1, <2>2, <2>3, <2>4, <2>5, <2>6, <2>7 DEF CopyStep
<1>5. CopierOnly
  BY DEF CopyStep, Copy, Recheck, RenameCopy, MoveAside, SwapIn, RollBack, RenameLast
<1> QED BY <1>4, <1>5 DEF TypeOK, CopierOnly, FilesTyped, CopiersTyped, Copier

(* Every step keeps the types. *)
LEMMA TypeStep == TypeOK /\ [Next]_vars => TypeOK'
<1> SUFFICES ASSUME TypeOK, [Next]_vars PROVE TypeOK'
  OBVIOUS
<1>0. UNCHANGED inPlace /\ inPlace' \in BOOLEAN
  BY DEF Next, vars, TypeOK
<1>1. FilesTyped /\ CopiersTyped
  BY DEF TypeOK, CopiersTyped, Copier, FilesTyped
<1>2. Target \in Files
  BY DEF Target, Files
<1>3. CASE Change
  BY <1>0, <1>3 DEF Change, TypeOK, history
<1>4. CASE BeginSave
  BY <1>0, <1>4 DEF BeginSave, TypeOK, history, Kept, SaverOnly
<1>5. CASE OpenTarget
  <2>1. FilesTyped'
    BY <1>1, <1>2, <1>5, WriteTyped, KeptTyped DEF OpenTarget
  <2> QED BY <1>0, <1>5, <2>1 DEF OpenTarget, TypeOK, FilesTyped, history, SaverOnly
<1>6. CASE WriteTarget
  <2>1. FilesTyped'
    <3>1. saver.held \in Contents /\ "tmp" \in Files
      BY DEF TypeOK, Files
    <3> QED BY <1>1, <1>2, <1>6, <3>1, WriteTyped, KeptTyped, DropTyped DEF WriteTarget
  <2> QED BY <1>0, <1>6, <2>1 DEF WriteTarget, TypeOK, FilesTyped, SaverOnly
<1>7. CASE RenameTmp
  <2>1. FilesTyped'
    BY <1>1, <1>7, MoveTyped, KeptTyped DEF RenameTmp, Files
  <2> QED BY <1>0, <1>7, <2>1 DEF RenameTmp, TypeOK, FilesTyped, SaverOnly
<1>8. CASE BackupTick
  <2>1. CopiersTyped'
    BY <1>1, <1>8, StartCopyTyped DEF BackupTick
  <2> QED BY <1>0, <1>8, <2>1 DEF BackupTick, TypeOK, CopiersTyped, Copier, Kept, CopierOnly
<1>9. CASE \E a \in Copiers : CopyStep(a)
  BY <1>0, <1>9, CopyStepTyped
<1>10. CASE Launch
  <2>1. CopiersTyped'
    <3>1. At("recover", FALSE, 0) \in Copier
      BY DEF At, Copier
    <3> QED BY <1>1, <1>10, <3>1 DEF Launch, CopiersTyped
  <2>2. launches' \in 0 .. MaxLaunches /\ intruded' \in BOOLEAN
    BY <1>10 DEF Launch, TypeOK
  <2> QED BY <1>0, <1>10, <2>1, <2>2 DEF Launch, TypeOK, CopiersTyped, Copier, Kept
<1>11. CASE Recover
  <2>1. CopiersTyped'
    <3>1. Valid("primary") \in BOOLEAN
      BY DEF Valid
    <3> QED BY <1>1, <1>11, <3>1 DEF Recover, CopiersTyped, Copier, At
  <2> QED BY <1>0, <1>11, <2>1 DEF Recover, LaunchOnly, TypeOK, CopiersTyped, Copier, Kept, CopierOnly
<1>12. CASE ClearPending
  <2>1. CopiersTyped'
    BY <1>1, <1>12, GotoTyped DEF ClearPending
  <2>2. FilesTyped'
    BY <1>1, <1>12, DropTyped, KeptTyped DEF ClearPending, Files
  <2> QED BY <1>0, <1>12, <2>1, <2>2 DEF ClearPending, TypeOK, CopiersTyped, FilesTyped, Copier, CopierOnly
<1>13. CASE Restore
  <2>1. CopiersTyped'
    BY <1>1, <1>13, GotoTyped, StartCopyTyped DEF Restore
  <2> QED BY <1>0, <1>13, <2>1 DEF Restore, LaunchOnly, TypeOK, CopiersTyped, Copier, Kept, CopierOnly
<1>14. CASE Snapshot
  <2>1. CopiersTyped'
    BY <1>1, <1>14, GotoTyped, StartCopyTyped DEF Snapshot
  <2> QED BY <1>0, <1>14, <2>1 DEF Snapshot, LaunchOnly, TypeOK, CopiersTyped, Copier, Kept, CopierOnly
<1>15. CASE Claim
  <2>1. CopiersTyped'
    <3>1. copier["launch"].stamp \in Nat /\ copier["backup"] \in Copier
      BY <1>1 DEF CopiersTyped, Copier
    <3>2. At("idle", FALSE, copier["launch"].stamp) \in Copier
      BY <3>1 DEF At, Copier
    <3> QED BY <1>1, <1>15, <3>1, <3>2, IdleTyped DEF Claim, CopiersTyped
  <2>2. memory' \in Versions
    BY <1>15 DEF Claim, Loaded, TypeOK, Valid
  <2> QED BY <1>0, <1>15, <2>1, <2>2 DEF Claim, TypeOK, CopiersTyped, Copier, Kept, history
<1>16. CASE LiveEnds
  <2>1. CopiersTyped'
    BY <1>1, <1>16, IdleTyped DEF LiveEnds, CopiersTyped
  <2>2. /\ saver' \in [at : {"idle", "open", "write", "rename"}, held : Versions]
        /\ memory' \in Versions /\ defeated' \in BOOLEAN
    BY <1>16 DEF LiveEnds, TypeOK, BackupAside
  <2> QED BY <1>0, <1>16, <2>1, <2>2 DEF LiveEnds, TypeOK, CopiersTyped, Copier, Kept
<1>17. CASE LaunchEnds
  <2>1. CopiersTyped'
    BY <1>1, <1>17, IdleTyped DEF LaunchEnds, CopiersTyped
  <2> QED BY <1>0, <1>17, <2>1 DEF LaunchEnds, TypeOK, CopiersTyped, Copier, Kept, BackupAside
<1>18. CASE UNCHANGED vars
  BY <1>0, <1>18 DEF vars, TypeOK
<1> QED
  BY <1>3, <1>4, <1>5, <1>6, <1>7, <1>8, <1>9, <1>10, <1>11, <1>12, <1>13, <1>14,
     <1>15, <1>16, <1>17, <1>18 DEF Next, Step

(* The files, the times and the copiers keep their types, for any number of*)
(* versions and of starts.                                                 *)
THEOREM TypeCorrectness == Spec => []TypeOK
<1>1. Init => TypeOK
  <2> SUFFICES ASSUME Init PROVE TypeOK
    OBVIOUS
  <2>1. data \in [Files -> Contents] /\ time \in [Files -> Nat] /\ clock \in Nat
    <3>1. Missing \in Contents /\ 0 \in Nat
      OBVIOUS
    <3>2. data = [f \in Files |-> Missing] /\ time = [f \in Files |-> 0] /\ clock = 0
      BY DEF Init
    <3> HIDE DEF Contents
    <3>3. data \in [Files -> Contents]
      BY <3>1, <3>2
    <3>4. time \in [Files -> Nat]
      BY <3>1, <3>2
    <3> QED BY <3>1, <3>2, <3>3, <3>4
  <2>2. copier \in [Copiers -> Copier]
    BY IdleTyped DEF Init
  <2>3. saver \in [at : {"idle", "open", "write", "rename"}, held : Versions]
    BY DEF Init
  <2>4. /\ inPlace \in BOOLEAN /\ live \in BOOLEAN /\ memory \in Versions /\ latest \in Versions
        /\ launches \in 0 .. MaxLaunches /\ saved \in Versions /\ backed \in Versions
        /\ intruded \in BOOLEAN /\ defeated \in BOOLEAN
    <3>1. 0 \in Versions /\ 0 \in 0 .. MaxLaunches
      OBVIOUS
    <3> HIDE DEF Versions
    <3> QED BY <3>1, Zenon DEF Init
  <2> QED BY <2>1, <2>2, <2>3, <2>4 DEF TypeOK, Copier
<1> QED BY <1>1, TypeStep, PTL DEF Spec

-----------------------------------------------------------------------------
(* A saved state survives.  Sound is what is true while no program was     *)
(* started beside a live one and recovery was not defeated.                *)

(* Who may be at work when. *)
Roles ==
    /\ LET b == copier["backup"] IN
          /\ b.at \in CopySteps \cup {"idle"}
          /\ b.at # "idle" => live /\ b.from = "primary" /\ b.to = "bak"
    /\ saver.at # "idle" => live
    /\ ~intruded => (copier["launch"].at # "idle" => ~live)
    /\ copier["launch"].at \in CopySteps =>
          <<copier["launch"].from, copier["launch"].to>> \in
              {<<"tmp", "primary">>, <<"bak", "primary">>, <<"primary", "bak">>}

LiveInv ==
    /\ live => memory >= saved /\ (saved = 0 \/ Valid("primary"))
    /\ saver.at # "idle" => saver.held >= saved /\ memory >= saver.held
    /\ saver.at = "rename" => data["tmp"] = saver.held

FileInv ==
    /\ Valid("tmp") => data["tmp"] >= saved
    /\ Valid("primary") => data["primary"] >= saved
    /\ data["primary"] # Torn
    /\ saved = 0 \/ Valid("primary") \/ Valid("tmp")

(* What a starting program has done so far, and may still do. *)
Restoring == copier["launch"].at \in CopySteps /\ copier["launch"].to = "primary"
Settled ==
    \/ copier["launch"].at \in {"clear", "snapshot", "claim"}
    \/ copier["launch"].at \in CopySteps /\ copier["launch"].to = "bak"

LaunchInv ==
    LET c == copier["launch"] IN
    /\ Settled => saved = 0 \/ Valid("primary")
    /\ c.at = "restore" => IF c.ok THEN Valid("primary") ELSE saved = 0
    /\ Restoring /\ c.from = "bak" => saved = 0 /\ ~c.ok
    /\ Restoring /\ c.from = "tmp" =>
          /\ Valid("tmp")
          /\ c.at # "copy" => Valid("primary.recovering") /\ data["primary.recovering"] >= saved
          /\ c.ok /\ c.at \in {"copy", "recheck", "rename", "aside"} => Valid("primary")
          /\ c.ok /\ c.at \in {"swap", "rollback"} =>
                Valid("primary.old") /\ data["primary.old"] >= saved
          /\ c.at = "last" => ~c.ok
    /\ Restoring /\ c.at \in {"rename", "aside", "swap", "last"} => Valid("primary.recovering")
    /\ Restoring /\ c.at \in {"swap", "rollback"} => data["primary.old"] # Torn

(* Nothing is ahead of the last version produced. *)
Bounded ==
    /\ memory <= latest /\ saver.held <= latest /\ saved <= latest
    /\ \A f \in Files : data[f] \in Versions => data[f] <= latest

Sound == LiveInv /\ FileInv /\ LaunchInv
SurvivalInv == Roles /\ Bounded /\ (~inPlace /\ ~intruded /\ ~defeated => Sound)

(* What the file operations do to each file. *)
LEMMA WriteIs ==
    ASSUME FilesTyped, NEW f \in Files, NEW c, Write(f, c), NEW h \in Files
    PROVE  data'[h] = IF h = f THEN c ELSE data[h]
BY DEF FilesTyped, Write

LEMMA MoveIs ==
    ASSUME FilesTyped, NEW f \in Files, NEW g \in Files, f # g, Move(f, g), NEW h \in Files
    PROVE  data'[h] = IF h = f THEN Missing ELSE IF h = g THEN data[f] ELSE data[h]
BY DEF FilesTyped, Move

LEMMA DropIs ==
    ASSUME FilesTyped, NEW f \in Files, Drop(f), NEW h \in Files
    PROVE  data'[h] = IF h = f THEN Missing ELSE data[h]
BY DEF FilesTyped, Drop

(* What the bookkeeping does to each copier. *)
LEMMA GotoIs ==
    ASSUME CopiersTyped, NEW a \in Copiers, NEW l, Goto(a, l), NEW b \in Copiers
    PROVE  /\ b # a => copier'[b] = copier[b]
           /\ copier'[a].at = l /\ copier'[a].from = copier[a].from
           /\ copier'[a].to = copier[a].to /\ copier'[a].ok = copier[a].ok
BY DEF CopiersTyped, Copier, Goto

LEMMA AfterIs ==
    ASSUME CopiersTyped, NEW a \in Copiers, NEW good \in BOOLEAN, After(a, good),
           NEW b \in Copiers
    PROVE  /\ b # a => copier'[b] = copier[b]
           /\ copier'[a].at =
                IF a = "backup" THEN "idle"
                ELSE IF copier[a].from = "primary" THEN "claim"
                ELSE IF copier[a].from = "bak" THEN "snapshot"
                ELSE IF good THEN "clear" ELSE "restore"
           /\ copier'[a].ok = copier[a].ok
<1> DEFINE c == copier[a]
           l == IF a = "backup" THEN "idle"
                ELSE [primary |-> "claim", bak |-> "snapshot",
                      tmp |-> IF good THEN "clear" ELSE "restore"][c.from]
           s == IF good /\ c.from = "primary" THEN c.seen ELSE c.stamp
<1>1. copier' = [copier EXCEPT ![a] = At(l, c.ok, s)]
  BY DEF After
<1>2. l = IF a = "backup" THEN "idle"
          ELSE IF c.from = "primary" THEN "claim"
          ELSE IF c.from = "bak" THEN "snapshot"
          ELSE IF good THEN "clear" ELSE "restore"
  BY DEF CopiersTyped, Copier
<1> HIDE DEF l, s
<1>3. copier'[a] = At(l, c.ok, s) /\ (b # a => copier'[b] = copier[b])
  BY <1>1 DEF CopiersTyped
<1> QED BY <1>2, <1>3 DEF At

(* The two ways in which a copier's step may leave it. *)
Copying(a) ==
    /\ copier'[a].at \in CopySteps
    /\ copier'[a].from = copier[a].from /\ copier'[a].to = copier[a].to
    /\ copier'[a].ok = copier[a].ok
Leaving(a) ==
    /\ copier'[a].at \in IF a = "backup" THEN {"idle"}
                          ELSE IF copier[a].to = "bak" THEN {"claim"}
                          ELSE {"snapshot", "clear", "restore"}
    /\ copier'[a].ok = copier[a].ok

LEMMA CopyMoves ==
    ASSUME TypeOK, Roles, NEW a \in Copiers, CopyStep(a)
    PROVE  /\ CopierOnly
           /\ \A b \in Copiers : b # a => copier'[b] = copier[b]
           /\ copier[a].at \in CopySteps
           /\ Copying(a) \/ Leaving(a)
<1>1. CopiersTyped
  BY DEF TypeOK, CopiersTyped, Copier
<1>2. CopierOnly /\ copier[a].at \in CopySteps
  BY DEF CopyStep, Copy, Recheck, RenameCopy, MoveAside, SwapIn, RollBack, RenameLast
<1>3. (\E l \in CopySteps : Goto(a, l)) \/ (\E good \in BOOLEAN : After(a, good))
  BY DEF CopyStep, Copy, Recheck, RenameCopy, MoveAside, SwapIn, RollBack, RenameLast,
         Proceed, Placed, Failed
<1>4. CASE \E l \in CopySteps : Goto(a, l)
  BY <1>1, <1>2, <1>4, GotoIs DEF Copying
<1>5. CASE \E good \in BOOLEAN : After(a, good)
  <2>1. PICK good \in BOOLEAN : After(a, good)
    BY <1>5
  <2>2. a = "launch" => <<copier[a].from, copier[a].to>> \in
              {<<"tmp", "primary">>, <<"bak", "primary">>, <<"primary", "bak">>}
    BY <1>2 DEF Roles
  <2>3. Leaving(a)
    BY <1>1, <2>1, <2>2, AfterIs DEF Leaving
  <2> QED BY <1>1, <1>2, <2>1, <2>3, AfterIs
<1> QED BY <1>3, <1>4, <1>5

LEMMA RolesStep == TypeOK /\ Roles /\ [Next]_vars => Roles'
<1> SUFFICES ASSUME TypeOK, Roles, [Next]_vars PROVE Roles'
  OBVIOUS
<1>1. CopiersTyped
  BY DEF TypeOK, CopiersTyped, Copier
<1>2. CASE Change \/ BeginSave \/ OpenTarget \/ WriteTarget \/ RenameTmp
  BY <1>2 DEF Change, BeginSave, OpenTarget, WriteTarget, RenameTmp, SaverOnly, history, Roles, TypeOK
<1>3. CASE BackupTick
  BY <1>1, <1>3 DEF BackupTick, StartCopy, CopierOnly, Roles, CopiersTyped
<1>4. ASSUME NEW a \in Copiers, CopyStep(a) PROVE Roles'
  <2>1. CopierOnly
    BY <1>4, CopyMoves
  <2>2. CASE a = "backup"
    <3>1. copier'["launch"] = copier["launch"]
      BY <1>4, <2>2, CopyMoves
    <3>2. Copying("backup") \/ Leaving("backup")
      BY <1>4, <2>2, CopyMoves
    <3>3. copier["backup"].at \in CopySteps
      BY <1>4, <2>2, CopyMoves
    <3> QED BY <2>1, <3>1, <3>2, <3>3 DEF Roles, Copying, Leaving, CopierOnly
  <2>3. CASE a = "launch"
    <3>1. copier'["backup"] = copier["backup"]
      BY <1>4, <2>3, CopyMoves
    <3>2. Copying("launch") \/ Leaving("launch")
      BY <1>4, <2>3, CopyMoves
    <3>3. copier["launch"].at \in CopySteps
      BY <1>4, <2>3, CopyMoves
    <3>4. CASE Copying("launch")
      BY <2>1, <3>1, <3>3, <3>4 DEF Roles, Copying, CopierOnly
    <3>5. CASE Leaving("launch")
      BY <2>1, <3>1, <3>3, <3>5 DEF Roles, Leaving, CopierOnly
    <3> QED BY <3>2, <3>4, <3>5
  <2> QED BY <2>2, <2>3
<1>5. CASE Launch
  BY <1>1, <1>5 DEF Launch, Roles, CopiersTyped, At
<1>6. CASE Recover
  BY <1>1, <1>6 DEF Recover, Roles, CopiersTyped, At, LaunchOnly, CopierOnly, Pending
<1>7. CASE ClearPending
  BY <1>1, <1>7, GotoIs DEF ClearPending, Roles, CopierOnly
<1>8. CASE Restore
  BY <1>1, <1>8 DEF Restore, Roles, CopiersTyped, Copier, Goto, StartCopy, LaunchOnly, CopierOnly
<1>9. CASE Snapshot
  BY <1>1, <1>9 DEF Snapshot, Roles, CopiersTyped, Copier, Goto, StartCopy, LaunchOnly, CopierOnly
<1>10. CASE Claim
  BY <1>1, <1>10 DEF Claim, Roles, CopiersTyped, At, Idle, history
<1>11. CASE LiveEnds
  BY <1>1, <1>11 DEF LiveEnds, Roles, CopiersTyped, At, Idle
<1>12. CASE LaunchEnds
  BY <1>1, <1>12 DEF LaunchEnds, Roles, CopiersTyped, At, Idle
<1>13. CASE UNCHANGED vars
  BY <1>13 DEF vars, Roles
<1> QED
  BY <1>2, <1>3, <1>4, <1>5, <1>6, <1>7, <1>8, <1>9, <1>10, <1>11, <1>12, <1>13 DEF Next, Step

(* A copier's step moves contents about and makes up none. *)
LEMMA CopyShuffles ==
    ASSUME TypeOK, NEW a \in Copiers, CopyStep(a), NEW f \in Files
    PROVE  data'[f] = Missing \/ \E g \in Files : data'[f] = data[g]
<1> DEFINE t == copier[a].to
<1>1. FilesTyped /\ copier[a].from \in Files /\ t \in {"primary", "bak"}
  BY DEF TypeOK, FilesTyped, Files
<1>2. t \in Files /\ Rec(t) \in Files /\ Old(t) \in Files /\ Rec(t) # t /\ Old(t) # t
  BY <1>1, Companions DEF Rec, Old
<1>3. \/ Write(Rec(t), data[copier[a].from])
      \/ Kept
      \/ Drop(Rec(t))
      \/ Move(Rec(t), t) \/ Move(t, Old(t)) \/ Move(Old(t), t)
  BY DEF CopyStep, Copy, Recheck, RenameCopy, MoveAside, SwapIn, RollBack, RenameLast
<1> HIDE DEF t
<1>4. CASE Write(Rec(t), data[copier[a].from])
  BY <1>1, <1>2, <1>4, WriteIs
<1>5. CASE Kept
  BY <1>5 DEF Kept
<1>6. CASE Drop(Rec(t))
  BY <1>1, <1>2, <1>6, DropIs
<1>7. CASE Move(Rec(t), t)
  BY <1>1, <1>2, <1>7, MoveIs
<1>8. CASE Move(t, Old(t))
  BY <1>1, <1>2, <1>8, MoveIs
<1>9. CASE Move(Old(t), t)
  BY <1>1, <1>2, <1>9, MoveIs
<1> QED BY <1>3, <1>4, <1>5, <1>6, <1>7, <1>8, <1>9

LEMMA BoundedStep == TypeOK /\ Bounded /\ Roles /\ [Next]_vars => Bounded'
<1> SUFFICES ASSUME TypeOK, Bounded, Roles, [Next]_vars PROVE Bounded'
  OBVIOUS
<1>1. FilesTyped /\ Target \in Files /\ "tmp" \in Files /\ "primary" \in Files
  BY DEF TypeOK, FilesTyped, Files, Target
<1>2. /\ memory \in Int /\ latest \in Int /\ saved \in Int /\ saver.held \in Int
      /\ Torn \notin Versions /\ Missing \notin Versions
  BY DEF TypeOK
<1> HIDE DEF Versions
<1>3. CASE Change
  <2>1. /\ latest' = latest + 1 /\ memory' = latest + 1
        /\ saver' = saver /\ saved' = saved /\ data' = data
    BY <1>3 DEF Change, history
  <2>2. \A f \in Files : data[f] \in Versions => data[f] \in Int
    BY DEF Versions
  <2> QED BY <1>2, <2>1, <2>2 DEF Bounded
<1>4. CASE BeginSave
  BY <1>4 DEF BeginSave, Bounded, Kept, SaverOnly, history
<1>5. CASE OpenTarget
  <2>1. \A f \in Files : data'[f] \in {data[f], Torn}
    BY <1>1, <1>5, WriteIs DEF OpenTarget, Kept
  <2>2. saver'.held = saver.held /\ UNCHANGED <<memory, latest, saved>>
    BY <1>5 DEF OpenTarget, SaverOnly, history, TypeOK
  <2> QED BY <1>2, <2>1, <2>2 DEF Bounded
<1>6. CASE WriteTarget
  <2>1. \A f \in Files : data'[f] \in {data[f], saver.held, Missing}
    BY <1>1, <1>6, WriteIs, DropIs DEF WriteTarget, Kept
  <2>2. saver'.held = saver.held /\ UNCHANGED <<memory, latest>> /\ saved' \in {saved, saver.held}
    BY <1>6 DEF WriteTarget, SaverOnly, TypeOK
  <2> QED BY <1>2, <2>1, <2>2 DEF Bounded
<1>7. CASE RenameTmp
  <2>1. \A f \in Files : data'[f] \in {data[f], data["tmp"], Missing}
    BY <1>1, <1>7, MoveIs DEF RenameTmp, Kept
  <2>2. saver'.held = saver.held /\ UNCHANGED <<memory, latest>> /\ saved' \in {saved, saver.held}
    BY <1>7 DEF RenameTmp, SaverOnly, TypeOK
  <2> QED BY <1>1, <1>2, <2>1, <2>2 DEF Bounded
<1>8. ASSUME NEW a \in Copiers, CopyStep(a) PROVE Bounded'
  <2>1. \A f \in Files : data'[f] = Missing \/ \E g \in Files : data'[f] = data[g]
    BY <1>8, CopyShuffles
  <2>2. UNCHANGED <<memory, latest, saver, saved>>
    BY <1>8, CopyMoves DEF CopierOnly
  <2> QED BY <1>2, <2>1, <2>2 DEF Bounded
<1>9. CASE BackupTick \/ Launch \/ Recover \/ Restore \/ Snapshot \/ LaunchEnds
  BY <1>9 DEF BackupTick, Launch, Recover, Restore, Snapshot, LaunchEnds, LaunchOnly, CopierOnly, Kept, Bounded
<1>10. CASE ClearPending
  <2>1. \A f \in Files : data'[f] \in {data[f], Missing}
    BY <1>1, <1>10, DropIs DEF ClearPending, Kept
  <2> QED BY <1>2, <1>10, <2>1 DEF ClearPending, CopierOnly, Bounded
<1>11. CASE Claim
  BY <1>1, <1>2, <1>11 DEF Claim, Loaded, Bounded, Kept, history, Valid, TypeOK, Versions
<1>12. CASE LiveEnds
  BY <1>1, <1>2, <1>12 DEF LiveEnds, Bounded, Kept, TypeOK, Versions
<1>13. CASE UNCHANGED vars
  BY <1>13 DEF vars, Bounded
<1> QED
  BY <1>3, <1>4, <1>5, <1>6, <1>7, <1>8, <1>9, <1>10, <1>11, <1>12, <1>13 DEF Next, Step

(* The known-good copy and its companions are not part of Sound. *)
SoundFiles == {"primary", "tmp", "primary.recovering", "primary.old"}

(* A step of a copy to the known-good copy leaves the others alone. *)
LEMMA BackupApart ==
    ASSUME TypeOK, NEW a \in Copiers, CopyStep(a), copier[a].to = "bak"
    PROVE  /\ data'["primary"] = data["primary"] /\ data'["tmp"] = data["tmp"]
           /\ data'["primary.recovering"] = data["primary.recovering"]
           /\ data'["primary.old"] = data["primary.old"]
<1>1. FilesTyped /\ SoundFiles \subseteq Files
  BY DEF TypeOK, FilesTyped, Files, SoundFiles
<1>2. /\ Rec("bak") = "bak.recovering" /\ Old("bak") = "bak.old"
      /\ {"bak", "bak.recovering", "bak.old"} \subseteq Files
  BY DEF Rec, Old, Files
<1>3. \/ Write("bak.recovering", data[copier[a].from])
      \/ Kept
      \/ Drop("bak.recovering")
      \/ Move("bak.recovering", "bak") \/ Move("bak", "bak.old") \/ Move("bak.old", "bak")
  BY <1>2 DEF CopyStep, Copy, Recheck, RenameCopy, MoveAside, SwapIn, RollBack, RenameLast
<1>4. \A f \in SoundFiles : data'[f] = data[f]
  <2> SUFFICES ASSUME NEW f \in SoundFiles PROVE data'[f] = data[f]
    OBVIOUS
  <2>1. f \notin {"bak", "bak.recovering", "bak.old"} /\ f \in Files
    BY <1>1 DEF SoundFiles
  <2>2. CASE Write("bak.recovering", data[copier[a].from])
    BY <1>1, <1>2, <2>1, <2>2, WriteIs
  <2>3. CASE Kept
    BY <2>3 DEF Kept
  <2>4. CASE Drop("bak.recovering")
    BY <1>1, <1>2, <2>1, <2>4, DropIs
  <2>5. CASE Move("bak.recovering", "bak")
    BY <1>1, <1>2, <2>1, <2>5, MoveIs
  <2>6. CASE Move("bak", "bak.old")
    BY <1>1, <1>2, <2>1, <2>6, MoveIs
  <2>7. CASE Move("bak.old", "bak")
    BY <1>1, <1>2, <2>1, <2>7, MoveIs
  <2> QED BY <1>3, <2>2, <2>3, <2>4, <2>5, <2>6, <2>7
<1> QED BY <1>4 DEF SoundFiles

(* A step of a copy to the known-good copy keeps what is sound. *)
LEMMA BackupSound ==
    ASSUME TypeOK, Roles, Sound, NEW a \in Copiers, CopyStep(a), copier[a].to = "bak"
    PROVE  Sound'
<1>1. /\ data'["primary"] = data["primary"] /\ data'["tmp"] = data["tmp"]
      /\ data'["primary.recovering"] = data["primary.recovering"]
      /\ data'["primary.old"] = data["primary.old"]
  BY BackupApart
<1>2. UNCHANGED <<live, memory, latest, saver, saved>>
  BY CopyMoves DEF CopierOnly
<1>3. LiveInv' /\ FileInv'
  BY <1>1, <1>2 DEF Sound, LiveInv, FileInv, Valid
<1>4. LaunchInv'
  <2>1. CASE a = "backup"
    <3>1. copier'["launch"] = copier["launch"]
      BY <2>1, CopyMoves
    <3> QED BY <1>1, <1>2, <3>1 DEF Sound, LaunchInv, Settled, Restoring, Valid
  <2>2. CASE a = "launch"
    <3>1. copier["launch"].at \in CopySteps /\ (Copying("launch") \/ Leaving("launch"))
      BY <2>2, CopyMoves
    <3>2. saved = 0 \/ Valid("primary")
      BY <2>2, <3>1 DEF Sound, LaunchInv, Settled
    <3>3. \/ copier'["launch"].at \in CopySteps /\ copier'["launch"].to = "bak"
          \/ copier'["launch"].at = "claim"
      BY <2>2, <3>1 DEF Copying, Leaving
    <3> QED BY <1>1, <1>2, <3>2, <3>3 DEF LaunchInv, Settled, Restoring, Valid
  <2> QED BY <2>1, <2>2
<1> QED BY <1>3, <1>4 DEF Sound

(* A step of a copy to the primary, which only a starting program makes.   *)
LEMMA RestoreSound ==
    ASSUME TypeOK, Roles, Sound, ~intruded, ~defeated',
           CopyStep("launch"), copier["launch"].to = "primary"
    PROVE  Sound'
<1> DEFINE c == copier["launch"]
           d == copier'["launch"]
<1>1. FilesTyped /\ SoundFiles \subseteq Files /\ c.from \in Files
  BY DEF TypeOK, FilesTyped, Files, SoundFiles
<1>2. Rec("primary") = "primary.recovering" /\ Old("primary") = "primary.old"
  BY DEF Rec, Old
<1>3. /\ UNCHANGED <<live, memory, latest, saver, saved>>
      /\ c.at \in CopySteps /\ (Copying("launch") \/ Leaving("launch"))
  BY CopyMoves DEF CopierOnly
<1>4. ~live /\ saver.at = "idle" /\ c.from \in {"tmp", "bak"}
  BY <1>3 DEF Roles, TypeOK
<1>5. LiveInv'
  BY <1>3, <1>4 DEF LiveInv
<1>6. CopiersTyped /\ "launch" \in Copiers /\ c.ok \in BOOLEAN
  BY DEF TypeOK, CopiersTyped, Copier
<1>7. saved \in Int
  BY DEF TypeOK
<1>8. ASSUME NEW l \in CopySteps, Goto("launch", l)
      PROVE  d.at = l /\ d.from = c.from /\ d.to = "primary" /\ d.ok = c.ok
  BY <1>6, <1>8, GotoIs
<1>9. ASSUME NEW good \in BOOLEAN, After("launch", good)
      PROVE  /\ d.at = IF c.from = "bak" THEN "snapshot" ELSE IF good THEN "clear" ELSE "restore"
             /\ d.ok = c.ok
  BY <1>4, <1>6, <1>9, AfterIs
<1>10. ASSUME Failed("launch")
       PROVE  c.ok /\ d.ok /\ c.from = "tmp" /\ d.at = "restore"
  <2>1. c.ok
    BY <1>6, <1>10 DEF Failed
  <2>2. c.from = "tmp"
    BY <1>3, <1>4, <2>1 DEF Sound, LaunchInv, Restoring
  <2>3. d.at = "restore" /\ d.ok = c.ok
    BY <1>9, <1>10, <2>2 DEF Failed
  <2> QED BY <2>1, <2>2, <2>3
<1>11. c.from = "tmp" => Valid("tmp")
  BY <1>3 DEF Sound, LaunchInv, Restoring
<1>12. /\ "primary" \in Files /\ "tmp" \in Files
       /\ "primary.recovering" \in Files /\ "primary.old" \in Files
  BY DEF Files
<1>13. /\ Missing \notin Versions /\ Torn \notin Versions /\ Missing # Torn /\ 0 \in Versions
       /\ \A v \in Versions : v >= 0
  OBVIOUS
<1>14. c.from = "bak" => saved = 0
  BY <1>3 DEF Sound, LaunchInv, Restoring
<1>15. FileInv /\ LaunchInv /\ Restoring
  BY <1>3 DEF Sound, Restoring
<1> SUFFICES FileInv' /\ LaunchInv'
  BY <1>5 DEF Sound
<1> HIDE DEF Versions, c, d
<1>16. ASSUME Failed("launch"), Valid("primary"),
              data'["primary"] = data["primary"], data'["tmp"] = data["tmp"]
       PROVE  FileInv' /\ LaunchInv'
  BY <1>3, <1>10, <1>14, <1>15, <1>16 DEF FileInv, LaunchInv, Valid, Restoring, Settled, c, d
<1>17. c.at \in CopySteps /\ c.to = "primary"
  BY <1>3 DEF c
<1>18. ASSUME Failed("launch"), Drop("primary.recovering"), c.at \in {"copy", "recheck", "aside", "last"}
       PROVE  FileInv' /\ LaunchInv'
  <2>1. data'["primary"] = data["primary"] /\ data'["tmp"] = data["tmp"]
    BY <1>1, <1>12, <1>18, DropIs
  <2>2. Valid("primary")
    BY <1>10, <1>15, <1>18 DEF LaunchInv, c
  <2> QED BY <1>16, <1>18, <2>1, <2>2
<1>19. ASSUME After("launch", TRUE), Valid("primary.recovering"),
              data'["primary"] = data["primary.recovering"], data'["tmp"] = data["tmp"],
              c.at \in {"rename", "swap", "last"}
       PROVE  FileInv' /\ LaunchInv'
  <2>1. d.at = IF c.from = "bak" THEN "snapshot" ELSE "clear"
    BY <1>9, <1>19
  <2>2. data["primary.recovering"] >= saved
    <3>1. CASE c.from = "tmp"
      BY <1>15, <1>19, <3>1 DEF LaunchInv, c
    <3>2. CASE c.from = "bak"
      BY <1>13, <1>14, <1>19, <3>2 DEF Valid
    <3> QED BY <1>4, <3>1, <3>2 DEF c
  <2>3. Valid("primary")' /\ data'["primary"] >= saved' /\ data'["primary"] # Torn
    BY <1>3, <1>13, <1>19, <2>2 DEF Valid
  <2>4. d.at \in {"snapshot", "clear"}
    BY <2>1
  <2>5. FileInv'
    BY <1>3, <1>15, <1>19, <2>3 DEF FileInv, Valid
  <2>6. LaunchInv'
    BY <2>3, <2>4 DEF LaunchInv, Restoring, Settled, d
  <2> QED BY <2>5, <2>6
<1>20. CASE Copy("launch")
  <2>1. CASE /\ data[c.from] # Missing
             /\ Write("primary.recovering", data[c.from]) /\ Goto("launch", "recheck")
    <3>1. /\ data'["primary"] = data["primary"] /\ data'["tmp"] = data["tmp"]
          /\ data'["primary.recovering"] = data[c.from]
      BY <1>1, <1>12, <2>1, WriteIs
    <3>2. d.at = "recheck" /\ d.from = c.from /\ d.to = "primary" /\ d.ok = c.ok
      BY <1>8, <2>1
    <3>3. c.at = "copy"
      BY <1>20 DEF Copy, c
    <3> QED BY <1>3, <1>4, <1>11, <1>14, <1>15, <3>1, <3>2, <3>3
            DEF FileInv, LaunchInv, Valid, Restoring, Settled, c, d
  <2> QED BY <1>2, <1>17, <1>18, <1>20, <2>1 DEF Copy, Proceed, c
<1>21. CASE Recheck("launch")
  <2>1. CASE Valid("primary.recovering") /\ Kept /\ Goto("launch", "rename")
    <3>1. d.at = "rename" /\ d.from = c.from /\ d.to = "primary" /\ d.ok = c.ok
      BY <1>8, <2>1
    <3>2. c.at = "recheck" /\ UNCHANGED data
      BY <1>21, <2>1 DEF Recheck, Kept, c
    <3> QED BY <1>3, <1>15, <2>1, <3>1, <3>2
            DEF FileInv, LaunchInv, Valid, Restoring, Settled, c, d
  <2> QED BY <1>2, <1>17, <1>18, <1>21, <2>1 DEF Recheck, Proceed, c
<1>22. CASE RenameCopy("launch")
  <2>1. c.at = "rename" /\ Valid("primary.recovering")
    BY <1>15, <1>22 DEF RenameCopy, LaunchInv, c
  <2>2. CASE Move("primary.recovering", "primary") /\ After("launch", TRUE)
    <3>1. data'["primary"] = data["primary.recovering"] /\ data'["tmp"] = data["tmp"]
      BY <1>1, <1>12, <2>2, MoveIs
    <3> QED BY <1>19, <2>1, <2>2, <3>1
  <2>3. CASE Kept /\ Goto("launch", IF data["primary"] = Missing THEN "last" ELSE "aside")
    <3>1. /\ d.at = IF data["primary"] = Missing THEN "last" ELSE "aside"
          /\ d.from = c.from /\ d.to = "primary" /\ d.ok = c.ok
      BY <1>8, <2>3
    <3>2. UNCHANGED data
      BY <2>3 DEF Kept
    <3> QED BY <1>3, <1>13, <1>15, <2>1, <3>1, <3>2
            DEF FileInv, LaunchInv, Valid, Restoring, Settled, c, d
  <2> QED BY <1>2, <1>17, <1>22, <2>2, <2>3 DEF RenameCopy, Proceed, Placed, c
<1>23. CASE MoveAside("launch")
  <2>1. c.at = "aside" /\ Valid("primary.recovering")
    BY <1>15, <1>23 DEF MoveAside, LaunchInv, c
  <2>2. CASE Move("primary", "primary.old") /\ Goto("launch", "swap")
    <3>1. /\ data'["primary"] = Missing /\ data'["tmp"] = data["tmp"]
          /\ data'["primary.recovering"] = data["primary.recovering"]
          /\ data'["primary.old"] = data["primary"]
      BY <1>1, <1>12, <2>2, MoveIs
    <3>2. d.at = "swap" /\ d.from = c.from /\ d.to = "primary" /\ d.ok = c.ok
      BY <1>8, <2>2
    <3>3. saved = 0 \/ Valid("tmp")
      BY <1>4, <1>11, <1>14 DEF c
    <3> QED BY <1>3, <1>13, <1>15, <2>1, <3>1, <3>2, <3>3
            DEF FileInv, LaunchInv, Valid, Restoring, Settled, c, d
  <2> QED BY <1>2, <1>17, <1>18, <1>23, <2>1, <2>2 DEF MoveAside, Proceed, c
<1>24. CASE SwapIn("launch")
  <2>1. c.at = "swap" /\ Valid("primary.recovering")
    BY <1>15, <1>24 DEF SwapIn, LaunchInv, c
  <2>2. CASE Move("primary.recovering", "primary") /\ After("launch", TRUE)
    <3>1. data'["primary"] = data["primary.recovering"] /\ data'["tmp"] = data["tmp"]
      BY <1>1, <1>12, <2>2, MoveIs
    <3> QED BY <1>19, <2>1, <2>2, <3>1
  <2>3. CASE Kept /\ Goto("launch", "rollback")
    <3>1. d.at = "rollback" /\ d.from = c.from /\ d.to = "primary" /\ d.ok = c.ok
      BY <1>8, <2>3
    <3>2. UNCHANGED data
      BY <2>3 DEF Kept
    <3> QED BY <1>3, <1>13, <1>15, <2>1, <3>1, <3>2
            DEF FileInv, LaunchInv, Valid, Restoring, Settled, c, d
  <2> QED BY <1>2, <1>17, <1>24, <2>2, <2>3 DEF SwapIn, Proceed, Placed, c
<1>25. CASE RollBack("launch")
  <2>1. Move("primary.old", "primary") /\ Failed("launch") /\ c.at = "rollback"
    BY <1>2, <1>17, <1>25 DEF RollBack, c
  <2>2. /\ data'["primary"] = data["primary.old"] /\ data'["tmp"] = data["tmp"]
    BY <1>1, <1>12, <2>1, MoveIs
  <2>3. Valid("primary.old") /\ data["primary.old"] >= saved
    BY <1>10, <1>15, <2>1 DEF LaunchInv, c
  <2> QED BY <1>3, <1>10, <1>13, <1>15, <2>1, <2>2, <2>3
          DEF FileInv, LaunchInv, Valid, Restoring, Settled, c, d
<1>26. CASE RenameLast("launch")
  <2>1. c.at = "last" /\ Valid("primary.recovering")
    BY <1>15, <1>26 DEF RenameLast, LaunchInv, c
  <2>2. CASE Move("primary.recovering", "primary") /\ After("launch", TRUE)
    <3>1. data'["primary"] = data["primary.recovering"] /\ data'["tmp"] = data["tmp"]
      BY <1>1, <1>12, <2>2, MoveIs
    <3> QED BY <1>19, <2>1, <2>2, <3>1
  <2> QED BY <1>2, <1>17, <1>18, <1>26, <2>1, <2>2 DEF RenameLast, Placed, c
<1> QED
  BY <1>20, <1>21, <1>22, <1>23, <1>24, <1>25, <1>26 DEF CopyStep

(* What has gone beyond recovery stays so. *)
Grows == (intruded => intruded') /\ (defeated => defeated')

LEMMA Monotone == TypeOK /\ [Next]_vars => Grows
<1> SUFFICES ASSUME TypeOK, [Next]_vars PROVE Grows
  OBVIOUS
<1>1. ASSUME NEW a \in Copiers, CopyStep(a) PROVE Grows
  <2>1. intruded' = intruded
    BY <1>1 DEF CopyStep, Copy, Recheck, RenameCopy, MoveAside, SwapIn, RollBack, RenameLast, CopierOnly
  <2>2. defeated => defeated'
    <3>1. (\E l \in CopySteps : Proceed(a, l)) \/ Placed(a) \/ Failed(a) \/ defeated' = TRUE
      BY <1>1 DEF CopyStep, Copy, Recheck, RenameCopy, MoveAside, SwapIn, RollBack, RenameLast
    <3> QED BY <3>1, Zenon DEF Proceed, Placed, Failed
  <2> QED BY <2>1, <2>2 DEF Grows
<1>2. CASE Change \/ BeginSave \/ OpenTarget \/ WriteTarget \/ RenameTmp \/ Claim
  <2>1. intruded' = intruded /\ defeated' = defeated
    BY <1>2 DEF Change, BeginSave, OpenTarget, WriteTarget, RenameTmp, Claim, history
  <2> QED BY <2>1 DEF Grows
<1>3. CASE BackupTick \/ Recover \/ ClearPending \/ Restore \/ Snapshot
  <2>1. intruded' = intruded /\ defeated' = defeated
    BY <1>3 DEF BackupTick, Recover, ClearPending, Restore, Snapshot, LaunchOnly, CopierOnly
  <2> QED BY <2>1 DEF Grows
<1>4. CASE Launch
  <2>1. intruded' = (intruded \/ live) /\ defeated' = defeated
    BY <1>4 DEF Launch
  <2> QED BY <2>1, Zenon DEF Grows
<1>5. CASE LiveEnds
  <2>1. intruded' = intruded /\ defeated' = (defeated \/ BackupAside("backup"))
    BY <1>5 DEF LiveEnds
  <2> QED BY <2>1, Zenon DEF Grows
<1>6. CASE LaunchEnds
  <2>1. intruded' = intruded /\ defeated' = (defeated \/ BackupAside("launch"))
    BY <1>6 DEF LaunchEnds
  <2> QED BY <2>1, Zenon DEF Grows
<1>7. CASE UNCHANGED vars
  <2>1. intruded' = intruded /\ defeated' = defeated
    BY <1>7 DEF vars
  <2> QED BY <2>1 DEF Grows
<1> QED BY <1>1, <1>2, <1>3, <1>4, <1>5, <1>6, <1>7 DEF Next, Step

(* Every step keeps what is true while nothing went beyond recovery.       *)
LEMMA SurvivalStep == TypeOK /\ SurvivalInv /\ [Next]_vars => SurvivalInv'
<1> SUFFICES ASSUME TypeOK, SurvivalInv, [Next]_vars PROVE SurvivalInv'
  OBVIOUS
<1>1. Roles' /\ Bounded'
  BY RolesStep, BoundedStep DEF SurvivalInv
<1>0. inPlace' = inPlace
  BY DEF Next, vars
<1> SUFFICES ASSUME ~inPlace, ~intruded', ~defeated' PROVE Sound'
  BY <1>0, <1>1 DEF SurvivalInv
<1>2. ~intruded /\ ~defeated /\ Sound /\ Roles /\ Bounded
  BY Monotone DEF SurvivalInv, Grows
<1>3. /\ FilesTyped /\ CopiersTyped /\ Target = "tmp"
      /\ "primary" \in Files /\ "tmp" \in Files
      /\ "primary.recovering" \in Files /\ "primary.old" \in Files
  BY DEF TypeOK, FilesTyped, CopiersTyped, Copier, Target, Files
<1>4. /\ memory \in Int /\ latest \in Int /\ saved \in Int /\ saver.held \in Int
      /\ saver.held \in Versions
      /\ Torn \notin Versions /\ Missing \notin Versions /\ Missing # Torn
      /\ 0 \in Versions /\ \A v \in Versions : v >= 0
  BY DEF TypeOK
<1>5. live => copier["launch"].at = "idle"
  BY <1>2 DEF Roles
<1>6. ASSUME copier["launch"].at = "idle", UNCHANGED copier PROVE LaunchInv'
  BY <1>6 DEF LaunchInv, Restoring, Settled
<1> HIDE DEF Versions
<1>7. CASE Change
  <2>1. /\ memory' = latest + 1
        /\ UNCHANGED <<data, live, saver, copier, saved>>
    BY <1>7 DEF Change, history
  <2>2. saved <= latest + 1 /\ saver.held <= latest + 1
    BY <1>2, <1>4 DEF Bounded
  <2>3. LiveInv' /\ FileInv'
    BY <1>2, <2>1, <2>2 DEF Sound, LiveInv, FileInv, Valid
  <2>4. LaunchInv'
    BY <1>2, <2>1 DEF Sound, LaunchInv, Restoring, Settled, Valid
  <2> QED BY <2>3, <2>4 DEF Sound
<1>8. CASE BeginSave
  <2>1. /\ saver'.at = "open" /\ saver'.held = memory /\ live
        /\ UNCHANGED <<data, live, memory, copier, saved>>
    BY <1>8 DEF BeginSave, history, SaverOnly, Kept
  <2>2. memory >= memory /\ saver'.at # "rename"
    BY <1>4, <2>1
  <2>3. LiveInv' /\ FileInv'
    BY <1>2, <2>1, <2>2 DEF Sound, LiveInv, FileInv, Valid
  <2>4. LaunchInv'
    BY <1>2, <2>1 DEF Sound, LaunchInv, Restoring, Settled, Valid
  <2> QED BY <2>3, <2>4 DEF Sound
<1>9. ASSUME saver.at # "idle", UNCHANGED <<live, memory, copier, saved>>,
             data'["primary"] = data["primary"], saver'.held = saver.held,
             saver'.at \in {"idle", "write"}, Valid("tmp")' => data'["tmp"] >= saved
      PROVE  Sound'
  <2>1. live /\ copier["launch"].at = "idle"
    BY <1>2, <1>5, <1>9 DEF Roles
  <2>2. LaunchInv'
    BY <1>6, <1>9, <2>1
  <2>3. LiveInv'
    BY <1>2, <1>9, <2>1 DEF Sound, LiveInv, Valid
  <2>4. FileInv'
    BY <1>2, <1>9, <2>1 DEF Sound, LiveInv, FileInv, Valid
  <2> QED BY <2>2, <2>3, <2>4 DEF Sound
<1>10. CASE OpenTarget
  <2>1. /\ saver.at = "open" /\ saver'.at \in {"idle", "write"} /\ saver'.held = saver.held
        /\ UNCHANGED <<live, memory, copier, saved>>
    BY <1>10 DEF OpenTarget, SaverOnly, history, TypeOK
  <2>2. /\ data'["primary"] = data["primary"]
        /\ data'["tmp"] = data["tmp"] \/ data'["tmp"] = Torn
    BY <1>3, <1>10, WriteIs DEF OpenTarget, Kept
  <2> QED BY <1>2, <1>4, <1>9, <2>1, <2>2 DEF Sound, FileInv, Valid
<1>11. CASE WriteTarget
  <2>1. /\ saver.at = "write" /\ saver'.held = saver.held
        /\ UNCHANGED <<live, memory, copier, saved>>
    BY <1>3, <1>11 DEF WriteTarget, SaverOnly, TypeOK
  <2>2. data'["primary"] = data["primary"]
    BY <1>3, <1>11, WriteIs, DropIs DEF WriteTarget, Kept
  <2>3. CASE Write("tmp", saver.held) /\ saver'.at = "rename"
    <3>1. data'["tmp"] = saver.held
      BY <1>3, <2>3, WriteIs
    <3>2. live /\ copier["launch"].at = "idle"
      BY <1>2, <1>5, <2>1 DEF Roles
    <3>3. LaunchInv'
      BY <1>6, <2>1, <3>2
    <3>4. LiveInv'
      BY <1>2, <2>1, <2>2, <2>3, <3>1, <3>2 DEF Sound, LiveInv, Valid
    <3>5. FileInv'
      BY <1>2, <2>1, <2>2, <3>1, <3>2 DEF Sound, LiveInv, FileInv, Valid
    <3> QED BY <3>3, <3>4, <3>5 DEF Sound
  <2>4. CASE (Kept \/ Drop("tmp")) /\ saver'.at = "idle"
    <3>1. data'["tmp"] = data["tmp"] \/ data'["tmp"] = Missing
      BY <1>3, <2>4, DropIs DEF Kept
    <3> QED BY <1>2, <1>4, <1>9, <2>1, <2>2, <2>4, <3>1 DEF Sound, FileInv, Valid
  <2>5. \/ Write("tmp", saver.held) /\ saver'.at = "rename"
        \/ (Kept \/ Drop("tmp")) /\ saver'.at = "idle"
    BY <1>3, <1>11 DEF WriteTarget, TypeOK
  <2> QED BY <2>3, <2>4, <2>5
<1>12. CASE RenameTmp
  <2>1. /\ saver.at = "rename" /\ saver'.at = "idle" /\ saver'.held = saver.held
        /\ UNCHANGED <<live, memory, copier>>
    BY <1>12 DEF RenameTmp, SaverOnly, TypeOK
  <2>2. CASE Kept /\ UNCHANGED saved
    BY <1>2, <1>9, <2>1, <2>2 DEF Kept, Sound, FileInv, Valid
  <2>3. CASE Move("tmp", "primary") /\ saved' = saver.held
    <3>1. data'["primary"] = data["tmp"] /\ data'["tmp"] = Missing
      BY <1>3, <2>3, MoveIs
    <3>2. data["tmp"] = saver.held /\ live /\ copier["launch"].at = "idle"
      BY <1>2, <1>5, <2>1 DEF Sound, LiveInv, Roles
    <3>3. LaunchInv'
      BY <1>6, <2>1, <3>2
    <3>4. Valid("primary")' /\ data'["primary"] = saved' /\ ~Valid("tmp")' /\ memory >= saver.held
      BY <1>2, <1>4, <2>1, <2>3, <3>1, <3>2 DEF Sound, LiveInv, Valid
    <3>5. LiveInv'
      BY <1>4, <2>1, <2>3, <3>4 DEF LiveInv
    <3>6. FileInv'
      BY <1>4, <2>3, <3>4 DEF FileInv, Valid
    <3> QED BY <3>3, <3>5, <3>6 DEF Sound
  <2> QED BY <1>12, <2>2, <2>3 DEF RenameTmp
<1>13. ASSUME UNCHANGED <<data, live, memory, saver, saved>>, LaunchInv' PROVE Sound'
  <2>1. LiveInv' /\ FileInv'
    BY <1>2, <1>13 DEF Sound, LiveInv, FileInv, Valid
  <2> QED BY <1>13, <2>1 DEF Sound
<1>14. CASE BackupTick
  <2>1. copier'["launch"] = copier["launch"] /\ UNCHANGED <<data, live, memory, saver, saved>>
    BY <1>3, <1>14 DEF BackupTick, StartCopy, Kept, CopierOnly, CopiersTyped
  <2>2. LaunchInv'
    BY <1>2, <2>1 DEF Sound, LaunchInv, Restoring, Settled, Valid
  <2> QED BY <1>13, <2>1, <2>2
<1>15. ASSUME NEW a \in Copiers, CopyStep(a) PROVE Sound'
  <2>1. CASE copier[a].to = "bak"
    BY <1>2, <1>15, <2>1, BackupSound
  <2>2. CASE copier[a].to = "primary"
    <3>1. copier[a].at \in CopySteps
      BY <1>2, <1>15, CopyMoves
    <3>2. a = "launch"
      BY <1>2, <2>2, <3>1 DEF Roles
    <3> QED BY <1>2, <1>15, <2>2, <3>2, RestoreSound
  <2> QED BY <1>3, <2>1, <2>2 DEF CopiersTyped, Copier
<1>16. CASE Launch
  <2>1. copier'["launch"].at = "recover" /\ UNCHANGED <<data, live, memory, saver, saved>>
    BY <1>3, <1>16 DEF Launch, At, Kept, CopiersTyped
  <2>2. LaunchInv'
    BY <2>1 DEF LaunchInv, Restoring, Settled
  <2> QED BY <1>13, <2>1, <2>2
<1>17. CASE Recover
  <2>1. UNCHANGED <<data, live, memory, saver, saved>>
    BY <1>17 DEF Recover, LaunchOnly, Kept, CopierOnly
  <2>2. CASE Pending
    <3>1. /\ copier'["launch"].at = "copy" /\ copier'["launch"].from = "tmp"
          /\ copier'["launch"].to = "primary" /\ copier'["launch"].ok = Valid("primary")
      BY <1>3, <1>17, <2>2 DEF Recover, CopiersTyped
    <3>2. Valid("tmp")
      BY <2>2 DEF Pending
    <3>3. LaunchInv'
      BY <2>1, <3>1, <3>2 DEF LaunchInv, Restoring, Settled, Valid
    <3> QED BY <1>13, <2>1, <3>3
  <2>3. CASE ~Pending
    <3>1. copier'["launch"].at = "restore" /\ copier'["launch"].ok = Valid("primary")
      BY <1>3, <1>17, <2>3 DEF Recover, CopiersTyped, At
    <3>2. Valid("primary") \/ saved = 0
      BY <1>2, <2>3 DEF Sound, FileInv, Pending
    <3>3. LaunchInv'
      BY <2>1, <3>1, <3>2 DEF LaunchInv, Restoring, Settled, Valid
    <3> QED BY <1>13, <2>1, <3>3
  <2> QED BY <2>2, <2>3
<1>18. ASSUME Settled, ~(copier["launch"].at \in CopySteps) PROVE saved = 0 \/ Valid("primary")
  BY <1>2, <1>18 DEF Sound, LaunchInv
<1>19. CASE ClearPending
  <2>1. /\ copier["launch"].at = "clear" /\ copier'["launch"].at = "snapshot"
        /\ UNCHANGED <<live, memory, saver, saved>>
    BY <1>3, <1>19, GotoIs DEF ClearPending, CopierOnly
  <2>2. data'["primary"] = data["primary"] /\ data'["tmp"] \in {data["tmp"], Missing}
    BY <1>3, <1>19, DropIs DEF ClearPending, Kept
  <2>3. saved = 0 \/ Valid("primary")
    BY <1>18, <2>1 DEF Settled
  <2>4. ~live /\ saver.at = "idle"
    BY <1>2, <2>1 DEF Roles
  <2>5. LiveInv'
    BY <2>1, <2>4 DEF LiveInv
  <2>6. FileInv'
    BY <1>2, <1>4, <2>1, <2>2, <2>3 DEF Sound, FileInv, Valid
  <2>7. LaunchInv'
    BY <2>1, <2>2, <2>3 DEF LaunchInv, Restoring, Settled, Valid
  <2> QED BY <2>5, <2>6, <2>7 DEF Sound
<1>20. CASE Restore
  <2>1. copier["launch"].at = "restore" /\ UNCHANGED <<data, live, memory, saver, saved>>
    BY <1>20 DEF Restore, LaunchOnly, Kept, CopierOnly
  <2>2. IF copier["launch"].ok THEN Valid("primary") ELSE saved = 0
    BY <1>2, <2>1 DEF Sound, LaunchInv
  <2>3. CASE ~copier["launch"].ok /\ Valid("bak")
    <3>1. /\ copier'["launch"].at = "copy" /\ copier'["launch"].from = "bak"
          /\ copier'["launch"].to = "primary" /\ copier'["launch"].ok = copier["launch"].ok
      BY <1>3, <1>20, <2>3 DEF Restore, StartCopy, CopiersTyped
    <3>2. LaunchInv'
      BY <2>1, <2>2, <2>3, <3>1 DEF LaunchInv, Restoring, Settled, Valid
    <3> QED BY <1>13, <2>1, <3>2
  <2>4. CASE ~(~copier["launch"].ok /\ Valid("bak"))
    <3>1. copier'["launch"].at = "snapshot"
      BY <1>3, <1>20, <2>4, GotoIs DEF Restore
    <3>2. LaunchInv'
      BY <2>1, <2>2, <3>1 DEF LaunchInv, Restoring, Settled, Valid
    <3> QED BY <1>13, <2>1, <3>2
  <2> QED BY <2>3, <2>4
<1>21. CASE Snapshot
  <2>1. copier["launch"].at = "snapshot" /\ UNCHANGED <<data, live, memory, saver, saved>>
    BY <1>21 DEF Snapshot, LaunchOnly, Kept, CopierOnly
  <2>2. saved = 0 \/ Valid("primary")
    BY <1>18, <2>1 DEF Settled
  <2>3. \/ copier'["launch"].at = "copy" /\ copier'["launch"].to = "bak"
        \/ copier'["launch"].at = "claim"
    BY <1>3, <1>21, GotoIs DEF Snapshot, StartCopy, CopiersTyped
  <2>4. LaunchInv'
    BY <2>1, <2>2, <2>3 DEF LaunchInv, Restoring, Settled, Valid
  <2> QED BY <1>13, <2>1, <2>4
<1>22. CASE Claim
  <2>1. /\ copier["launch"].at = "claim" /\ copier'["launch"].at = "idle"
        /\ UNCHANGED <<data, saver, saved>>
    BY <1>3, <1>22 DEF Claim, Kept, CopiersTyped, At, Idle, history
  <2>2. saved = 0 \/ Valid("primary")
    BY <1>18, <2>1 DEF Settled
  <2>3. ~live /\ saver.at = "idle"
    BY <1>2, <2>1 DEF Roles
  <2>4. memory' = IF Valid("primary") THEN data["primary"] ELSE 0
    BY <1>22, <2>3 DEF Claim, Loaded
  <2>5. Valid("primary") => data["primary"] >= saved
    BY <1>2 DEF Sound, FileInv
  <2>6. LiveInv'
    BY <1>4, <2>1, <2>2, <2>3, <2>4, <2>5 DEF LiveInv, Valid
  <2>7. FileInv'
    BY <1>2, <2>1 DEF Sound, FileInv, Valid
  <2>8. LaunchInv'
    BY <2>1 DEF LaunchInv, Restoring, Settled
  <2> QED BY <2>6, <2>7, <2>8 DEF Sound
<1>23. CASE LiveEnds
  <2>1. /\ ~live' /\ saver'.at = "idle" /\ copier'["launch"] = copier["launch"] /\ live
        /\ UNCHANGED <<data, saved>>
    BY <1>3, <1>23 DEF LiveEnds, Kept, CopiersTyped
  <2>2. LaunchInv'
    BY <1>5, <2>1 DEF LaunchInv, Restoring, Settled
  <2>3. LiveInv'
    BY <2>1 DEF LiveInv
  <2>4. FileInv'
    BY <1>2, <2>1 DEF Sound, FileInv, Valid
  <2> QED BY <2>2, <2>3, <2>4 DEF Sound
<1>24. CASE LaunchEnds
  <2>1. copier'["launch"].at = "idle" /\ UNCHANGED <<data, live, memory, saver, saved>>
    BY <1>3, <1>24 DEF LaunchEnds, Kept, CopiersTyped, At, Idle
  <2>2. LaunchInv'
    BY <2>1 DEF LaunchInv, Restoring, Settled
  <2> QED BY <1>13, <2>1, <2>2
<1>25. CASE UNCHANGED vars
  <2>1. UNCHANGED <<data, live, memory, saver, saved, copier>>
    BY <1>25 DEF vars
  <2>2. LaunchInv'
    BY <1>2, <2>1 DEF Sound, LaunchInv, Restoring, Settled, Valid
  <2> QED BY <1>13, <2>1, <2>2
<1> QED
  BY <1>7, <1>8, <1>10, <1>11, <1>12, <1>14, <1>15, <1>16, <1>17, <1>19, <1>20, <1>21,
     <1>22, <1>23, <1>24, <1>25 DEF Next, Step

(* At first there is nothing to lose. *)
LEMMA SurvivalInit == Init => SurvivalInv
<1> SUFFICES ASSUME Init PROVE SurvivalInv
  OBVIOUS
<1>1. /\ copier["backup"].at = "idle" /\ copier["launch"].at = "idle"
      /\ saver.at = "idle" /\ saver.held = 0
  BY DEF Init, At, Idle
<1>2. memory = 0 /\ latest = 0 /\ saved = 0 /\ ~live
  BY DEF Init
<1>3. \A f \in Files : data[f] = Missing
  BY DEF Init
<1>4. Missing \notin Versions /\ Missing # Torn /\ "primary" \in Files /\ "tmp" \in Files
  BY DEF Files
<1> HIDE DEF Versions
<1>5. Roles
  BY <1>1 DEF Roles
<1>6. Bounded
  BY <1>1, <1>2, <1>3, <1>4 DEF Bounded
<1>7. LiveInv /\ FileInv /\ LaunchInv
  BY <1>1, <1>2, <1>3, <1>4 DEF LiveInv, FileInv, LaunchInv, Restoring, Settled, Valid
<1> QED BY <1>5, <1>6, <1>7 DEF SurvivalInv, Sound

(* Index, results and decisions: what a save has put on disk is what the   *)
(* next start finds or newer, and what the running program has in memory,  *)
(* for any number of versions, starts and failures, short of the ones that *)
(* recovery cannot answer and of a start beside a live program.            *)
THEOREM SavedStateSurvives == Spec => []SavedSurvives
<1>1. Init => SurvivalInv
  BY SurvivalInit
<1>2. TypeOK /\ SurvivalInv => SavedSurvives
  <2> SUFFICES ASSUME TypeOK, SurvivalInv, ~inPlace, ~intruded, ~defeated
               PROVE  Recovered >= saved /\ (live => memory >= saved)
    BY DEF SavedSurvives
  <2>1. LiveInv /\ FileInv
    BY DEF SurvivalInv, Sound
  <2>2. saved = 0 => \A v \in Versions : v >= saved
    OBVIOUS
  <2>3. 0 \in Versions
    OBVIOUS
  <2> HIDE DEF Versions
  <2>4. Recovered >= saved
    BY <2>1, <2>2, <2>3 DEF Recovered, Pending, FileInv, Valid
  <2> QED BY <2>1, <2>4 DEF LiveInv
<1> QED BY <1>1, <1>2, TypeCorrectness, SurvivalStep, PTL DEF Spec

-----------------------------------------------------------------------------
(* The known-good copy survives, for config.json above all, whose saves are*)
(* made in place.  Every file that a start could go by holds what the copy *)
(* holds or newer, and where the program or the recovery has just spoilt   *)
(* one of them, another that is no older stands in.                        *)

(* No file and nobody's memory that a start could go by holds less.        *)
AtLeast(x) ==
    /\ Valid("primary") => data["primary"] >= x
    /\ Valid("tmp") => data["tmp"] >= x
    /\ live => memory >= x
    /\ saver.at # "idle" => saver.held >= x

PrimaryLeast == Valid("primary") => AtLeast(data["primary"])

(* What is saved is no newer than the memory, and config.json has no       *)
(* temporary file.                                                         *)
Saving ==
    /\ saver.at # "idle" => memory >= saver.held
    /\ saver.at = "rename" => ~inPlace /\ data["tmp"] = saver.held
    /\ inPlace => data["tmp"] = Missing

(* A copier at work on the known-good copy has a copy of its own that is   *)
(* no newer than the rest, and what it moved aside is what was there.      *)
BackingUp(a) ==
    copier[a].at \in CopySteps /\ copier[a].to = "bak" =>
        /\ copier[a].at # "copy" /\ Valid("bak.recovering") => AtLeast(data["bak.recovering"])
        /\ copier[a].at \in {"rename", "aside", "swap", "last"} => Valid("bak.recovering")
        /\ copier[a].at \in {"swap", "rollback"} => data["bak.old"] = backed

(* Unless it is moved aside, the known-good copy is the last one placed.   *)
InPlaceOrNone ==
    \/ Valid("bak") /\ data["bak"] = backed
    \/ data["bak"] = Missing /\ backed = 0
KnownGood == (\A a \in Copiers : ~BackupAside(a)) => InPlaceOrNone

(* A start that promotes the temporary file, with the primary in hand or   *)
(* moved aside, and one that falls back on the known-good copy.            *)
Promoting ==
    LET c == copier["launch"] IN
    Restoring /\ c.from = "tmp" =>
        /\ Valid("tmp")
        /\ c.at # "copy" => data["primary.recovering"] = data["tmp"]
        /\ c.ok /\ c.at \in {"copy", "recheck", "rename", "aside"} => Valid("primary")
        /\ c.ok /\ c.at \in {"swap", "rollback"} =>
              /\ Valid("primary.old")
              /\ backed <= data["primary.old"] /\ data["primary.old"] <= data["tmp"]
        /\ c.at = "last" => ~c.ok

FallingBack ==
    LET c == copier["launch"] IN
    Restoring /\ c.from = "bak" =>
        /\ ~c.ok /\ ~Valid("primary") /\ ~Valid("tmp")
        /\ c.at # "copy" => data["primary.recovering"] = backed

Starting ==
    LET c == copier["launch"] IN
    /\ Settled => Valid("primary") \/ backed = 0
    /\ c.at \in CopySteps /\ c.to = "bak" => Valid("primary")
    /\ c.at = "restore" => IF c.ok THEN Valid("primary") ELSE ~Valid("primary") /\ ~Valid("tmp")
    /\ Promoting /\ FallingBack

Backed ==
    /\ AtLeast(backed) /\ PrimaryLeast /\ Saving
    /\ \A a \in Copiers : BackingUp(a)
    /\ KnownGood
    /\ Starting

BackupInv == ~intruded /\ ~defeated => Backed

(* Beside the live program nobody starts, and beside a start nobody works. *)
LEMMA OneAtWork ==
    ASSUME Roles, ~intruded
    PROVE  /\ live => copier["launch"].at = "idle"
           /\ ~live => copier["backup"].at = "idle" /\ saver.at = "idle"
BY DEF Roles

(* A step of a copy to the known-good copy. *)
LEMMA BackupBacked ==
    ASSUME TypeOK, Roles, Backed, ~intruded, UNCHANGED inPlace,
           ~defeated', NEW a \in Copiers, CopyStep(a), copier[a].to = "bak"
    PROVE  Backed'
<1> DEFINE c == copier[a]
           d == copier'[a]
<1>1. /\ FilesTyped /\ CopiersTyped /\ backed \in Versions
      /\ {"primary", "bak", "bak.recovering", "bak.old"} \subseteq Files
      /\ Rec("bak") = "bak.recovering" /\ Old("bak") = "bak.old"
  BY DEF TypeOK, FilesTyped, CopiersTyped, Copier, Files, Rec, Old
<1>2. /\ UNCHANGED <<live, memory, saver>> /\ c.at \in CopySteps
      /\ \A b \in Copiers : b # a => copier'[b] = copier[b]
      /\ Copying(a) \/ Leaving(a)
  BY CopyMoves DEF CopierOnly
<1>3. /\ data'["primary"] = data["primary"] /\ data'["tmp"] = data["tmp"]
      /\ data'["primary.recovering"] = data["primary.recovering"]
      /\ data'["primary.old"] = data["primary.old"]
  BY BackupApart
<1>4. \A b \in Copiers : b # a => copier[b].at = "idle" /\ copier'[b].at = "idle"
  BY <1>2, OneAtWork DEF Roles
<1>5. c.from = "primary"
  BY <1>2 DEF Roles
<1>6. /\ Missing \notin Versions /\ Torn \notin Versions /\ Missing # Torn
      /\ "idle" \notin CopySteps /\ "claim" \notin CopySteps
  OBVIOUS
<1> HIDE DEF Versions, c, d
<1>7. \A x : AtLeast(x) => AtLeast(x)'
  BY <1>2, <1>3 DEF AtLeast, Valid
<1>8. PrimaryLeast'
  BY <1>2, <1>3 DEF Backed, PrimaryLeast, AtLeast, Valid
<1>9. Saving'
  BY <1>2, <1>3 DEF Backed, Saving
<1>10. Starting'
  <2>1. CASE a = "backup"
    <3>1. copier'["launch"].at = "idle"
      BY <1>4, <2>1
    <3> QED BY <3>1 DEF Starting, Promoting, FallingBack, Restoring, Settled
  <2>2. CASE a = "launch"
    <3>1. Valid("primary")'
      BY <1>2, <1>3, <2>2 DEF Backed, Starting, Valid, c
    <3>2. \/ copier'["launch"].at \in CopySteps /\ copier'["launch"].to = "bak"
          \/ copier'["launch"].at = "claim"
      BY <1>2, <2>2 DEF Copying, Leaving
    <3> QED BY <3>1, <3>2 DEF Starting, Promoting, FallingBack, Restoring, Settled
  <2> QED BY <2>1, <2>2
<1>11. \A b \in Copiers : b # a => BackingUp(b)'
  BY <1>4, <1>6 DEF BackingUp
<1>12. ASSUME AtLeast(backed)', BackingUp(a)', KnownGood' PROVE Backed'
  BY <1>8, <1>9, <1>10, <1>11, <1>12 DEF Backed
<1>13. BackingUp(a) /\ c.to = "bak" /\ AtLeast(backed)
  BY DEF Backed, c
<1>14. c.at \notin {"swap", "rollback"} => InPlaceOrNone
  BY <1>4 DEF Backed, KnownGood, BackupAside, c
<1>15. ASSUME UNCHANGED backed PROVE AtLeast(backed)'
  BY <1>7, <1>13, <1>15 DEF AtLeast, Valid
<1>16. ASSUME NEW good \in BOOLEAN, After(a, good) PROVE d.at \notin CopySteps
  BY <1>1, <1>5, <1>6, <1>16, AfterIs DEF c, d
<1>17. ASSUME After(a, FALSE), UNCHANGED backed, InPlaceOrNone' PROVE Backed'
  <2>1. BackingUp(a)'
    BY <1>16, <1>17 DEF BackingUp, d
  <2> QED BY <1>12, <1>15, <1>17, <2>1 DEF KnownGood
<1>18. ASSUME Drop("bak.recovering"), Failed(a), c.at \in {"copy", "recheck", "aside", "last"}
       PROVE  Backed'
  <2>1. data'["bak"] = data["bak"]
    BY <1>1, <1>18, DropIs
  <2>2. InPlaceOrNone'
    BY <1>14, <1>18, <2>1 DEF InPlaceOrNone, Failed, Valid
  <2> QED BY <1>17, <1>18, <2>2 DEF Failed
<1>19. ASSUME Move("bak.recovering", "bak"), Placed(a), c.at \in {"rename", "swap", "last"}
       PROVE  Backed'
  <2>1. Valid("bak.recovering") /\ AtLeast(data["bak.recovering"])
    BY <1>2, <1>13, <1>19 DEF BackingUp, c
  <2>2. data'["bak"] = data["bak.recovering"]
    BY <1>1, <1>19, MoveIs
  <2>3. backed' = data["bak.recovering"]
    BY <1>1, <1>13, <1>19, <2>1 DEF Placed, c
  <2>4. AtLeast(backed)'
    BY <1>7, <2>1, <2>3 DEF AtLeast, Valid
  <2>5. BackingUp(a)'
    BY <1>16, <1>19 DEF Placed, BackingUp, d
  <2>6. InPlaceOrNone'
    BY <2>1, <2>2, <2>3 DEF InPlaceOrNone, Valid
  <2> QED BY <1>12, <2>4, <2>5, <2>6 DEF KnownGood
<1>20. ASSUME NEW l \in CopySteps, Proceed(a, l) PROVE d.at = l /\ d.to = "bak" /\ backed' = backed
  BY <1>1, <1>13, <1>20, GotoIs DEF Proceed, c, d
<1>21. CASE Copy(a)
  <2>1. CASE Write("bak.recovering", data["primary"]) /\ Proceed(a, "recheck")
    <3>1. data'["bak.recovering"] = data["primary"] /\ data'["bak"] = data["bak"]
      BY <1>1, <2>1, WriteIs
    <3>2. d.at = "recheck" /\ backed' = backed /\ c.at = "copy"
      BY <1>20, <1>21, <2>1 DEF Copy, c
    <3>3. Valid("bak.recovering")' => AtLeast(data["bak.recovering"])'
      BY <1>3, <1>8, <3>1 DEF PrimaryLeast, AtLeast, Valid
    <3>4. BackingUp(a)'
      BY <3>2, <3>3 DEF BackingUp, d
    <3>5. KnownGood'
      BY <1>14, <3>1, <3>2 DEF KnownGood, InPlaceOrNone, Valid
    <3> QED BY <1>12, <1>15, <3>2, <3>4, <3>5
  <2> QED BY <1>1, <1>5, <1>13, <1>18, <1>21, <2>1 DEF Copy, c
<1>22. CASE Recheck(a)
  <2>1. CASE Valid("bak.recovering") /\ Kept /\ Proceed(a, "rename")
    <3>1. data' = data /\ d.at = "rename" /\ backed' = backed /\ c.at = "recheck"
      BY <1>20, <1>22, <2>1 DEF Recheck, Kept, c
    <3>2. AtLeast(data["bak.recovering"])'
      BY <1>2, <1>7, <1>13, <2>1, <3>1 DEF BackingUp, AtLeast, Valid, c
    <3>3. BackingUp(a)'
      BY <2>1, <3>1, <3>2 DEF BackingUp, Valid, d
    <3>4. KnownGood'
      BY <1>14, <3>1 DEF KnownGood, InPlaceOrNone, Valid
    <3> QED BY <1>12, <1>15, <3>1, <3>3, <3>4
  <2> QED BY <1>1, <1>13, <1>18, <1>22, <2>1 DEF Recheck, c
<1>23. ASSUME Kept, NEW l \in CopySteps, Proceed(a, l),
              <<c.at, l>> \in {<<"rename", "aside">>, <<"rename", "last">>, <<"swap", "rollback">>}
       PROVE  Backed'
  <2>1. data' = data /\ d.at = l /\ backed' = backed
    BY <1>20, <1>23 DEF Kept
  <2>2. Valid("bak.recovering") /\ AtLeast(data["bak.recovering"])
    BY <1>2, <1>13, <1>23 DEF BackingUp, c
  <2>3. AtLeast(data["bak.recovering"])'
    BY <1>7, <2>1, <2>2 DEF AtLeast, Valid
  <2>4. l \in {"swap", "rollback"} => data["bak.old"] = backed
    BY <1>2, <1>13, <1>23 DEF BackingUp, c
  <2>5. BackingUp(a)'
    BY <2>1, <2>2, <2>3, <2>4 DEF BackingUp, Valid, d
  <2>6. d.to = "bak"
    BY <1>20, <1>23
  <2>7. CASE c.at = "rename"
    <3>1. KnownGood'
      BY <1>14, <2>1, <2>7 DEF KnownGood, InPlaceOrNone, Valid
    <3> QED BY <1>12, <1>15, <2>1, <2>5, <3>1
  <2>8. CASE l = "rollback"
    <3>1. BackupAside(a)'
      BY <2>1, <2>6, <2>8 DEF BackupAside, d
    <3> QED BY <1>12, <1>15, <2>1, <2>5, <3>1 DEF KnownGood
  <2> QED BY <1>23, <2>7, <2>8
<1>24. CASE RenameCopy(a)
  <2>1. c.at = "rename"
    BY <1>24 DEF RenameCopy, c
  <2>2. CASE Move("bak.recovering", "bak") /\ Placed(a)
    BY <1>19, <2>1, <2>2
  <2>3. CASE Kept /\ Proceed(a, IF data["bak"] = Missing THEN "last" ELSE "aside")
    BY <1>23, <2>1, <2>3
  <2> QED BY <1>1, <1>13, <1>24, <2>2, <2>3 DEF RenameCopy, c
<1>25. CASE MoveAside(a)
  <2>1. c.at = "aside"
    BY <1>25 DEF MoveAside, c
  <2>2. CASE Move("bak", "bak.old") /\ Proceed(a, "swap")
    <3>0. "bak.old" \in Files /\ data["bak"] # Missing
      BY <2>2 DEF Files, Move
    <3>1. /\ data'["bak.old"] = data["bak"]
          /\ data'["bak.recovering"] = data["bak.recovering"]
      BY <1>1, <2>2, <3>0, MoveIs
    <3>2. d.at = "swap" /\ d.to = "bak" /\ backed' = backed
      BY <1>20, <2>2
    <3>3. Valid("bak.recovering") /\ AtLeast(data["bak.recovering"])
      BY <1>2, <1>13, <2>1 DEF BackingUp, c
    <3>4. AtLeast(data["bak.recovering"])' /\ Valid("bak.recovering")'
      BY <1>7, <3>1, <3>3 DEF AtLeast, Valid
    <3>5. data'["bak.old"] = backed
      BY <1>14, <2>1, <3>0, <3>1 DEF InPlaceOrNone
    <3>6. BackingUp(a)'
      BY <3>2, <3>4, <3>5 DEF BackingUp, d
    <3>7. BackupAside(a)'
      BY <3>2 DEF BackupAside, d
    <3> QED BY <1>12, <1>15, <3>2, <3>6, <3>7 DEF KnownGood
  <2> QED BY <1>1, <1>13, <1>18, <1>25, <2>1, <2>2 DEF MoveAside, c
<1>26. CASE SwapIn(a)
  <2>1. c.at = "swap"
    BY <1>26 DEF SwapIn, c
  <2>2. CASE Move("bak.recovering", "bak") /\ Placed(a)
    BY <1>19, <2>1, <2>2
  <2>3. CASE Kept /\ Proceed(a, "rollback")
    BY <1>23, <2>1, <2>3
  <2> QED BY <1>1, <1>13, <1>26, <2>2, <2>3 DEF SwapIn, c
<1>27. CASE RollBack(a)
  <2>1. Move("bak.old", "bak") /\ Failed(a) /\ c.at = "rollback"
    BY <1>1, <1>13, <1>27 DEF RollBack, c
  <2>2. data'["bak"] = data["bak.old"]
    BY <1>1, <2>1, MoveIs
  <2>3. data["bak.old"] = backed
    BY <1>2, <1>13, <2>1 DEF BackingUp, c
  <2>4. InPlaceOrNone'
    BY <1>1, <2>1, <2>2, <2>3 DEF InPlaceOrNone, Failed, Valid
  <2> QED BY <1>17, <2>1, <2>4 DEF Failed
<1>28. CASE RenameLast(a)
  <2>1. c.at = "last"
    BY <1>28 DEF RenameLast, c
  <2> QED BY <1>1, <1>13, <1>18, <1>19, <1>28, <2>1 DEF RenameLast, c
<1> QED BY <1>21, <1>22, <1>24, <1>25, <1>26, <1>27, <1>28 DEF CopyStep

(* What the primary holds, if it validates, is between what the known-good *)
(* copy and the temporary file hold.                                       *)
Fits == Valid("primary") => /\ backed <= data["primary"]
                            /\ Valid("tmp") => data["primary"] <= data["tmp"]

(* A step of a copy to the primary, which only a starting program makes.   *)
LEMMA RestoreBacked ==
    ASSUME TypeOK, Roles, Backed, ~intruded, UNCHANGED inPlace, ~defeated',
           CopyStep("launch"), copier["launch"].to = "primary"
    PROVE  Backed'
<1> DEFINE c == copier["launch"]
           d == copier'["launch"]
<1>1. /\ FilesTyped /\ CopiersTyped /\ "launch" \in Copiers /\ c.ok \in BOOLEAN
      /\ {"primary", "tmp", "primary.recovering", "primary.old",
          "bak", "bak.recovering", "bak.old"} \subseteq Files
      /\ Rec("primary") = "primary.recovering" /\ Old("primary") = "primary.old"
  BY DEF TypeOK, FilesTyped, CopiersTyped, Copier, Files, Rec, Old
<1>2. /\ UNCHANGED <<live, memory, saver>> /\ c.at \in CopySteps
      /\ copier'["backup"] = copier["backup"]
  BY CopyMoves DEF CopierOnly
<1>3. ~live /\ saver.at = "idle" /\ copier["backup"].at = "idle" /\ c.from \in {"tmp", "bak"}
  BY <1>2, OneAtWork DEF Roles
<1>4. /\ backed \in Versions /\ \A v \in Versions : v \in Int
      /\ Missing \notin Versions /\ Torn \notin Versions /\ Missing # Torn
      /\ "idle" \notin CopySteps
  BY DEF TypeOK
<1>5. c.to = "primary" /\ Restoring /\ Promoting /\ FallingBack
  BY <1>2 DEF Backed, Starting, Restoring, c
<1>6. InPlaceOrNone
  BY <1>3, <1>5 DEF Backed, KnownGood, BackupAside, c
<1>7. AtLeast(backed) /\ PrimaryLeast /\ Saving
  BY DEF Backed
<1>8. ASSUME NEW l \in CopySteps, Goto("launch", l)
      PROVE  d.at = l /\ d.from = c.from /\ d.to = "primary" /\ d.ok = c.ok
  BY <1>1, <1>5, <1>8, GotoIs DEF d
<1>9. ASSUME NEW good \in BOOLEAN, After("launch", good)
      PROVE  /\ d.at = IF c.from = "bak" THEN "snapshot" ELSE IF good THEN "clear" ELSE "restore"
             /\ d.ok = c.ok
  BY <1>1, <1>3, <1>9, AfterIs DEF c, d
<1> HIDE DEF Versions, c, d
<1>10. backed' = backed
  BY <1>5 DEF CopyStep, Copy, Recheck, RenameCopy, MoveAside, SwapIn, RollBack, RenameLast,
              Proceed, Placed, Failed, c
<1>11. ASSUME Failed("launch") PROVE c.ok /\ c.from = "tmp" /\ d.at = "restore" /\ d.ok
  <2>1. c.ok
    BY <1>1, <1>5, <1>11 DEF Failed, c
  <2>2. c.from = "tmp"
    BY <1>3, <1>5, <2>1 DEF FallingBack, c
  <2> QED BY <1>9, <1>11, <2>1, <2>2 DEF Failed
<1>12. data'["bak"] = data["bak"] /\ data'["tmp"] = data["tmp"]
  <2>1. \/ Write("primary.recovering", data[c.from])
        \/ Kept
        \/ Drop("primary.recovering")
        \/ Move("primary.recovering", "primary") \/ Move("primary", "primary.old")
        \/ Move("primary.old", "primary")
    BY <1>1, <1>5 DEF CopyStep, Copy, Recheck, RenameCopy, MoveAside, SwapIn, RollBack,
                      RenameLast, c
  <2>2. CASE Write("primary.recovering", data[c.from])
    BY <1>1, <2>2, WriteIs
  <2>3. CASE Kept
    BY <2>3 DEF Kept
  <2>4. CASE Drop("primary.recovering")
    BY <1>1, <2>4, DropIs
  <2>5. CASE Move("primary.recovering", "primary")
    BY <1>1, <2>5, MoveIs
  <2>6. CASE Move("primary", "primary.old")
    BY <1>1, <2>6, MoveIs
  <2>7. CASE Move("primary.old", "primary")
    BY <1>1, <2>7, MoveIs
  <2> QED BY <2>1, <2>2, <2>3, <2>4, <2>5, <2>6, <2>7
<1>13. KnownGood' /\ Saving'
  BY <1>2, <1>3, <1>6, <1>7, <1>10, <1>12 DEF KnownGood, InPlaceOrNone, Saving, Valid
<1>14. BackingUp("backup")'
  BY <1>2, <1>3, <1>4 DEF BackingUp
<1>15. ASSUME d.at \in CopySteps => d.to = "primary" PROVE BackingUp("launch")'
  BY <1>15 DEF BackingUp, d
<1>16. ASSUME Fits', d.at \in CopySteps => d.to = "primary", Starting' PROVE Backed'
  <2>1. AtLeast(backed)' /\ PrimaryLeast'
    BY <1>2, <1>3, <1>4, <1>7, <1>10, <1>12, <1>16 DEF AtLeast, PrimaryLeast, Fits, Valid
  <2> QED BY <1>13, <1>14, <1>15, <1>16, <2>1 DEF Backed
<1>17. ASSUME data'["primary"] = data["primary"] PROVE Fits'
  BY <1>7, <1>10, <1>12, <1>17 DEF Fits, AtLeast, PrimaryLeast, Valid
<1>18. ASSUME Failed("launch"), data'["primary"] = data["primary"], Valid("primary") PROVE Backed'
  <2>1. d.at = "restore" /\ d.ok
    BY <1>11, <1>18
  <2>2. Starting'
    BY <1>18, <2>1 DEF Starting, Promoting, FallingBack, Restoring, Settled, Valid, d
  <2> QED BY <1>16, <1>17, <1>18, <2>1, <2>2
<1>19. ASSUME Failed("launch"), Drop("primary.recovering"),
              c.at \in {"copy", "recheck", "aside", "last"}
       PROVE  Backed'
  <2>1. data'["primary"] = data["primary"]
    BY <1>1, <1>19, DropIs
  <2>2. Valid("primary")
    BY <1>5, <1>11, <1>19 DEF Promoting, c
  <2> QED BY <1>18, <1>19, <2>1, <2>2
<1>20. ASSUME c.at # "copy"
       PROVE  data["primary.recovering"] = IF c.from = "tmp" THEN data["tmp"] ELSE backed
  BY <1>3, <1>5, <1>20 DEF Promoting, FallingBack, c
<1>21. c.from = "tmp" => Valid("tmp") /\ data["tmp"] >= backed
  BY <1>5, <1>7 DEF Promoting, AtLeast, c
<1>22. c.from = "bak" => ~c.ok /\ ~Valid("primary") /\ ~Valid("tmp")
  BY <1>5 DEF FallingBack, c
<1>23. ASSUME Move("primary.recovering", "primary"), Placed("launch"),
              c.at \in {"rename", "swap", "last"}
       PROVE  Backed'
  <2>1. data'["primary"] = IF c.from = "tmp" THEN data["tmp"] ELSE backed
    BY <1>1, <1>20, <1>23, MoveIs
  <2>2. Valid("primary")' /\ Fits'
    BY <1>3, <1>4, <1>10, <1>12, <1>21, <1>22, <2>1 DEF Fits, Valid
  <2>3. d.at \in {"snapshot", "clear"}
    BY <1>9, <1>23 DEF Placed
  <2>4. Starting'
    BY <2>2, <2>3 DEF Starting, Promoting, FallingBack, Restoring, Settled, d
  <2> QED BY <1>16, <2>2, <2>3, <2>4
<1>24. ASSUME NEW l \in CopySteps, Goto("launch", l), Fits', Promoting', FallingBack' PROVE Backed'
  <2>1. d.at = l /\ d.to = "primary"
    BY <1>8, <1>24
  <2>2. Starting'
    BY <1>24, <2>1 DEF Starting, Settled, d
  <2> QED BY <1>16, <1>24, <2>1, <2>2
<1>25. CASE Copy("launch")
  <2>1. CASE /\ data[c.from] # Missing
             /\ Write("primary.recovering", data[c.from]) /\ Goto("launch", "recheck")
    <3>1. /\ data'["primary"] = data["primary"]
          /\ data'["primary.recovering"] = data[c.from]
      BY <1>1, <2>1, WriteIs
    <3>2. d.at = "recheck" /\ d.from = c.from /\ d.ok = c.ok /\ c.at = "copy"
      BY <1>8, <1>25, <2>1 DEF Copy, c
    <3>3. Promoting'
      BY <1>5, <1>12, <3>1, <3>2 DEF Promoting, Restoring, Valid, c, d
    <3>4. c.from = "bak" => data["bak"] = backed
      BY <1>6, <2>1 DEF InPlaceOrNone
    <3>5. FallingBack'
      BY <1>10, <1>12, <1>22, <3>1, <3>2, <3>4 DEF FallingBack, Valid, d
    <3> QED BY <1>17, <1>24, <2>1, <3>1, <3>3, <3>5
  <2> QED BY <1>1, <1>5, <1>19, <1>25, <2>1 DEF Copy, Proceed, c
<1>26. ASSUME Kept, NEW l \in CopySteps, Goto("launch", l), c.at \notin {"copy", "last"},
              l \in {"swap", "rollback"} => c.at \in {"swap", "rollback"},
              l \in {"copy", "recheck", "rename", "aside"} => c.at \notin {"swap", "rollback"},
              l = "last" => ~c.ok
       PROVE  Backed'
  <2>1. data' = data /\ d.at = l /\ d.from = c.from /\ d.ok = c.ok
    BY <1>8, <1>26 DEF Kept
  <2>2. Promoting'
    BY <1>2, <1>5, <1>10, <1>26, <2>1 DEF Promoting, Restoring, Valid, c, d
  <2>3. FallingBack'
    BY <1>2, <1>5, <1>10, <1>26, <2>1 DEF FallingBack, Restoring, Valid, c, d
  <2> QED BY <1>17, <1>24, <1>26, <2>1, <2>2, <2>3
<1>27. CASE Recheck("launch")
  <2>1. CASE Kept /\ Goto("launch", "rename")
    BY <1>26, <1>27, <2>1 DEF Recheck, c
  <2> QED BY <1>1, <1>5, <1>19, <1>27, <2>1 DEF Recheck, Proceed, c
<1>28. CASE RenameCopy("launch")
  <2>1. c.at = "rename"
    BY <1>28 DEF RenameCopy, c
  <2>2. CASE Kept /\ Goto("launch", IF data["primary"] = Missing THEN "last" ELSE "aside")
    <3>1. data["primary"] = Missing => ~c.ok
      BY <1>3, <1>4, <1>5, <1>22, <2>1 DEF Promoting, Valid, c
    <3> QED BY <1>26, <2>1, <2>2, <3>1
  <2> QED BY <1>1, <1>5, <1>23, <1>28, <2>1, <2>2 DEF RenameCopy, Proceed, c
<1>29. CASE MoveAside("launch")
  <2>1. c.at = "aside"
    BY <1>29 DEF MoveAside, c
  <2>2. CASE Move("primary", "primary.old") /\ Goto("launch", "swap")
    <3>1. /\ data'["primary"] = Missing /\ data'["primary.old"] = data["primary"]
          /\ data'["primary.recovering"] = data["primary.recovering"]
      BY <1>1, <2>2, MoveIs
    <3>2. d.at = "swap" /\ d.from = c.from /\ d.ok = c.ok
      BY <1>8, <2>2
    <3>3. ~Valid("primary")' /\ Fits'
      BY <1>4, <3>1 DEF Fits, Valid
    <3>4. c.ok => Valid("primary") /\ backed <= data["primary"] /\ data["primary"] <= data["tmp"]
      BY <1>3, <1>5, <1>7, <1>21, <1>22, <2>1 DEF Promoting, AtLeast, PrimaryLeast, c
    <3>5. Promoting'
      BY <1>5, <1>10, <1>12, <2>1, <3>1, <3>2, <3>4 DEF Promoting, Restoring, Valid, c, d
    <3>6. FallingBack'
      BY <1>5, <1>10, <1>12, <1>22, <2>1, <3>1, <3>2, <3>3 DEF FallingBack, Restoring, Valid, c, d
    <3> QED BY <1>24, <2>2, <3>3, <3>5, <3>6
  <2> QED BY <1>1, <1>5, <1>19, <1>29, <2>1, <2>2 DEF MoveAside, Proceed, c
<1>30. CASE SwapIn("launch")
  <2>1. c.at = "swap"
    BY <1>30 DEF SwapIn, c
  <2>2. CASE Kept /\ Goto("launch", "rollback")
    BY <1>26, <2>1, <2>2
  <2> QED BY <1>1, <1>5, <1>23, <1>30, <2>1, <2>2 DEF SwapIn, Proceed, c
<1>31. CASE RollBack("launch")
  <2>1. Move("primary.old", "primary") /\ Failed("launch") /\ c.at = "rollback"
    BY <1>1, <1>5, <1>31 DEF RollBack, c
  <2>2. data'["primary"] = data["primary.old"]
    BY <1>1, <2>1, MoveIs
  <2>3. /\ Valid("primary.old")
        /\ backed <= data["primary.old"] /\ data["primary.old"] <= data["tmp"]
    BY <1>5, <1>11, <2>1 DEF Promoting, c
  <2>4. Valid("primary")' /\ Fits'
    BY <1>10, <1>12, <2>2, <2>3 DEF Fits, Valid
  <2>5. d.at = "restore" /\ d.ok
    BY <1>11, <2>1
  <2>6. Starting'
    BY <2>4, <2>5 DEF Starting, Promoting, FallingBack, Restoring, Settled, d
  <2> QED BY <1>16, <2>4, <2>5, <2>6
<1>32. CASE RenameLast("launch")
  <2>1. c.at = "last"
    BY <1>32 DEF RenameLast, c
  <2> QED BY <1>1, <1>5, <1>19, <1>23, <1>32, <2>1 DEF RenameLast, c
<1> QED BY <1>25, <1>27, <1>28, <1>29, <1>30, <1>31, <1>32 DEF CopyStep

(* Every step keeps what recovery can go by. *)
LEMMA BackupStep == TypeOK /\ Roles /\ Bounded /\ BackupInv /\ [Next]_vars => BackupInv'
<1> SUFFICES ASSUME TypeOK, Roles, Bounded, BackupInv, [Next]_vars, ~intruded', ~defeated'
             PROVE  Backed'
  BY DEF BackupInv
<1>1. inPlace' = inPlace /\ ~intruded /\ ~defeated
  BY Monotone DEF Grows, Next, vars
<1>2. Backed
  BY <1>1 DEF BackupInv
<1>3. /\ FilesTyped /\ CopiersTyped /\ "launch" \in Copiers /\ "backup" \in Copiers
      /\ {"primary", "tmp", "bak", "bak.recovering", "bak.old",
          "primary.recovering", "primary.old"} \subseteq Files
      /\ Target = IF inPlace THEN "primary" ELSE "tmp"
  BY DEF TypeOK, FilesTyped, CopiersTyped, Copier, Target, Files
<1>4. /\ memory \in Versions /\ saver.held \in Versions /\ backed \in Versions
      /\ \A v \in Versions : v \in Int /\ v >= 0
      /\ Torn \notin Versions /\ Missing \notin Versions /\ Missing # Torn
      /\ "idle" \notin CopySteps
  BY DEF TypeOK
<1>5. /\ live => copier["launch"].at = "idle"
      /\ ~live => copier["backup"].at = "idle" /\ saver.at = "idle"
      /\ saver.at # "idle" => live
  BY <1>1, OneAtWork
<1>6. AtLeast(backed) /\ PrimaryLeast /\ Saving /\ KnownGood /\ Starting
  BY <1>2 DEF Backed
<1>7. \A a \in Copiers : BackingUp(a)
  BY <1>2 DEF Backed
<1>8. copier["launch"].at \notin CopySteps /\ ~live => InPlaceOrNone
  BY <1>4, <1>5, <1>6 DEF KnownGood, BackupAside
<1> HIDE DEF Versions
(* The live program at work on the file and not on its known-good copy.    *)
<1>9. ASSUME live, UNCHANGED <<copier, backed>>, \A x \in Int : AtLeast(x) => AtLeast(x)',
             data'["bak"] = data["bak"], data'["bak.old"] = data["bak.old"],
             data'["bak.recovering"] = data["bak.recovering"], PrimaryLeast', Saving'
      PROVE  Backed'
  <2>1. AtLeast(backed)'
    BY <1>4, <1>6, <1>9 DEF AtLeast, Valid
  <2>2. ASSUME NEW a \in Copiers PROVE BackingUp(a)'
    BY <1>4, <1>7, <1>9 DEF BackingUp, AtLeast, Valid
  <2>3. KnownGood'
    BY <1>6, <1>9 DEF KnownGood, InPlaceOrNone, BackupAside, Valid
  <2>4. Starting'
    BY <1>5, <1>9 DEF Starting, Promoting, FallingBack, Restoring, Settled
  <2> QED BY <1>9, <2>1, <2>2, <2>3, <2>4 DEF Backed
(* The bookkeeping of a copier, with every file as it was. *)
<1>10. ASSUME UNCHANGED <<data, live, memory, saver, backed>>, Starting',
              \A a \in Copiers : BackingUp(a)',
              \A a \in Copiers : BackupAside(a) => BackupAside(a)'
       PROVE  Backed'
  <2>1. AtLeast(backed)' /\ PrimaryLeast' /\ Saving'
    BY <1>1, <1>6, <1>10 DEF AtLeast, PrimaryLeast, Saving, Valid
  <2>2. KnownGood'
    BY <1>6, <1>10 DEF KnownGood, InPlaceOrNone, Valid
  <2> QED BY <1>10, <2>1, <2>2 DEF Backed
<1>11. CASE Change
  <2>1. live /\ memory' = latest + 1 /\ UNCHANGED <<data, live, saver, copier, backed>>
    BY <1>11 DEF Change, history
  <2>2. memory' >= memory /\ latest \in Int
    BY <1>4, <2>1 DEF Bounded, TypeOK
  <2>3. \A x \in Int : AtLeast(x) => AtLeast(x)'
    BY <1>4, <2>1, <2>2 DEF AtLeast, Valid
  <2>4. PrimaryLeast' /\ Saving'
    BY <1>1, <1>4, <1>6, <2>1, <2>2, <2>3 DEF PrimaryLeast, Saving, AtLeast, Valid
  <2> QED BY <1>9, <2>1, <2>3, <2>4
<1>12. CASE BeginSave
  <2>1. /\ live /\ saver'.at = "open" /\ saver'.held = memory
        /\ UNCHANGED <<data, live, memory, copier, backed>>
    BY <1>12 DEF BeginSave, SaverOnly, Kept, history
  <2>2. \A x \in Int : AtLeast(x) => AtLeast(x)'
    BY <2>1 DEF AtLeast, Valid
  <2>3. PrimaryLeast' /\ Saving'
    BY <1>1, <1>4, <1>6, <2>1 DEF PrimaryLeast, Saving, AtLeast, Valid
  <2> QED BY <1>9, <2>1, <2>2, <2>3
(* A step of the save under way. *)
<1>13. ASSUME live, UNCHANGED <<live, memory, copier, backed>>, saver.at # "idle",
              saver'.held = saver.held,
              \/ data'["primary"] \in {data["primary"], Torn}
              \/ data'["primary"] = saver.held /\ data'["tmp"] = Missing,
              data'["tmp"] \in {data["tmp"], Torn, Missing, saver.held},
              \A f \in {"bak", "bak.old", "bak.recovering"} : data'[f] = data[f],
              Saving'
       PROVE  Backed'
  <2>1. saver.held <= memory
    BY <1>6, <1>13 DEF Saving
  <2>2. \A x \in Int : AtLeast(x) => AtLeast(x)'
    BY <1>4, <1>13, <2>1 DEF AtLeast, Valid
  <2>3. PrimaryLeast'
    BY <1>4, <1>6, <1>13, <2>1 DEF PrimaryLeast, AtLeast, Valid
  <2> QED BY <1>9, <1>13, <2>2, <2>3
<1>14. CASE OpenTarget
  <2>1. /\ saver.at = "open" /\ saver'.at \in {"idle", "write"} /\ saver'.held = saver.held
        /\ UNCHANGED <<live, memory, copier, backed>>
    BY <1>14 DEF OpenTarget, SaverOnly, history, TypeOK
  <2>2. \A f \in Files : data'[f] \in IF f = Target THEN {data[f], Torn} ELSE {data[f]}
    BY <1>3, <1>14, WriteIs DEF OpenTarget, Kept
  <2>3. Saving'
    BY <1>1, <1>3, <1>6, <2>1, <2>2 DEF Saving
  <2> QED BY <1>3, <1>5, <1>13, <2>1, <2>2, <2>3
<1>15. CASE WriteTarget
  <2>1. /\ saver.at = "write" /\ saver'.held = saver.held
        /\ UNCHANGED <<live, memory, copier, backed>>
    BY <1>15 DEF WriteTarget, SaverOnly, TypeOK
  <2>2. CASE Write(Target, saver.held) /\ saver'.at = IF Target = "primary" THEN "idle" ELSE "rename"
    <3>1. \A f \in Files : data'[f] = IF f = Target THEN saver.held ELSE data[f]
      BY <1>3, <2>2, WriteIs
    <3>2. Saving'
      BY <1>1, <1>3, <1>6, <2>1, <2>2, <3>1 DEF Saving
    <3>3. Target = "primary" => data["tmp"] = Missing
      BY <1>3, <1>6 DEF Saving
    <3> QED BY <1>3, <1>5, <1>13, <2>1, <3>1, <3>2, <3>3
  <2>3. CASE (Kept \/ Drop("tmp")) /\ saver'.at = "idle"
    <3>1. \A f \in Files : data'[f] \in IF f = "tmp" THEN {data[f], Missing} ELSE {data[f]}
      BY <1>3, <2>3, DropIs DEF Kept
    <3>2. Saving'
      BY <1>1, <1>3, <1>6, <2>1, <2>3, <3>1 DEF Saving
    <3> QED BY <1>3, <1>5, <1>13, <2>1, <3>1, <3>2
  <2>4. \/ Write(Target, saver.held) /\ saver'.at = IF Target = "primary" THEN "idle" ELSE "rename"
        \/ (Kept \/ Drop("tmp")) /\ saver'.at = "idle"
    BY <1>15 DEF WriteTarget, TypeOK
  <2> QED BY <2>2, <2>3, <2>4
<1>16. CASE RenameTmp
  <2>1. /\ saver.at = "rename" /\ saver'.at = "idle" /\ saver'.held = saver.held
        /\ UNCHANGED <<live, memory, copier, backed>>
    BY <1>16 DEF RenameTmp, SaverOnly, TypeOK
  <2>2. CASE Move("tmp", "primary")
    <3>1. \A f \in Files : data'[f] = IF f = "tmp" THEN Missing
                                      ELSE IF f = "primary" THEN data["tmp"] ELSE data[f]
      BY <1>3, <2>2, MoveIs
    <3>2. data["tmp"] = saver.held
      BY <1>6, <2>1 DEF Saving
    <3>3. Saving'
      BY <1>1, <1>3, <1>6, <2>1, <3>1 DEF Saving
    <3> QED BY <1>3, <1>5, <1>13, <2>1, <3>1, <3>2, <3>3
  <2>3. CASE Kept
    <3>1. Saving'
      BY <1>1, <1>6, <2>1, <2>3 DEF Saving, Kept
    <3> QED BY <1>3, <1>5, <1>13, <2>1, <2>3, <3>1 DEF Kept
  <2> QED BY <1>16, <2>2, <2>3 DEF RenameTmp
<1>17. CASE BackupTick
  <2>1. /\ live /\ copier'["backup"].at = "copy" /\ copier'["launch"] = copier["launch"]
        /\ copier["backup"].at = "idle" /\ copier["launch"].at = "idle"
        /\ UNCHANGED <<data, live, memory, saver, backed>>
    BY <1>3, <1>5, <1>17 DEF BackupTick, StartCopy, Kept, CopierOnly, CopiersTyped
  <2>2. Starting'
    BY <2>1 DEF Starting, Promoting, FallingBack, Restoring, Settled
  <2>3. \A a \in Copiers : BackingUp(a)'
    BY <1>4, <2>1 DEF BackingUp
  <2>4. \A a \in Copiers : ~BackupAside(a)
    BY <2>1 DEF BackupAside
  <2> QED BY <1>10, <2>1, <2>2, <2>3, <2>4
<1>18. ASSUME NEW a \in Copiers, CopyStep(a) PROVE Backed'
  <2>1. CASE copier[a].to = "bak"
    BY <1>1, <1>2, <1>18, <2>1, BackupBacked
  <2>2. CASE copier[a].to = "primary"
    <3>1. a = "launch"
      BY <1>18, <2>2, CopyMoves DEF Roles
    <3> QED BY <1>1, <1>2, <1>18, <2>2, <3>1, RestoreBacked
  <2> QED BY <1>3, <2>1, <2>2 DEF CopiersTyped, Copier
(* A start of the program on its way, between two copies. *)
<1>19. ASSUME copier["launch"].at \notin CopySteps, ~live, copier'["backup"] = copier["backup"],
              copier'["launch"].at \in CopySteps => copier'["launch"].at = "copy",
              UNCHANGED <<data, live, memory, saver, backed>>, Starting'
       PROVE  Backed'
  <2>1. \A a \in Copiers : BackingUp(a)'
    BY <1>4, <1>5, <1>19 DEF BackingUp
  <2>2. \A a \in Copiers : ~BackupAside(a)
    BY <1>4, <1>5, <1>19 DEF BackupAside
  <2> QED BY <1>10, <1>19, <2>1, <2>2
<1>20. CASE Launch
  <2>1. /\ copier["launch"].at = "idle" /\ copier'["launch"].at = "recover"
        /\ copier'["backup"] = copier["backup"]
        /\ UNCHANGED <<data, live, memory, saver, backed>>
    BY <1>3, <1>20 DEF Launch, At, Kept, CopiersTyped
  <2>2. ~live
    BY <1>20, Zenon DEF Launch
  <2>3. Starting'
    BY <2>1 DEF Starting, Promoting, FallingBack, Restoring, Settled
  <2> QED BY <1>4, <1>19, <2>1, <2>2, <2>3
<1>21. CASE Recover
  <2>1. /\ copier["launch"].at = "recover" /\ copier'["backup"] = copier["backup"]
        /\ UNCHANGED <<data, live, memory, saver, backed>>
    BY <1>3, <1>21 DEF Recover, LaunchOnly, Kept, CopierOnly, CopiersTyped
  <2>2. CASE Pending
    <3>1. /\ copier'["launch"].at = "copy" /\ copier'["launch"].from = "tmp"
          /\ copier'["launch"].to = "primary" /\ copier'["launch"].ok = Valid("primary")
      BY <1>3, <1>21, <2>2 DEF Recover, CopiersTyped
    <3>2. Starting'
      BY <2>1, <2>2, <3>1 DEF Starting, Promoting, FallingBack, Restoring, Settled, Pending, Valid
    <3> QED BY <1>5, <1>19, <2>1, <3>1, <3>2
  <2>3. CASE ~Pending
    <3>1. copier'["launch"].at = "restore" /\ copier'["launch"].ok = Valid("primary")
      BY <1>3, <1>21, <2>3 DEF Recover, CopiersTyped, At
    <3>2. Starting'
      BY <2>1, <2>3, <3>1 DEF Starting, Promoting, FallingBack, Restoring, Settled, Pending, Valid
    <3> QED BY <1>5, <1>19, <2>1, <3>1, <3>2
  <2> QED BY <2>2, <2>3
<1>22. CASE ClearPending
  <2>1. /\ copier["launch"].at = "clear" /\ copier'["launch"].at = "snapshot" /\ ~live
        /\ copier'["backup"] = copier["backup"] /\ UNCHANGED <<live, memory, saver, backed>>
    BY <1>3, <1>5, <1>22, GotoIs DEF ClearPending, CopierOnly
  <2>2. \A f \in Files : data'[f] \in IF f = "tmp" THEN {data[f], Missing} ELSE {data[f]}
    BY <1>3, <1>22, DropIs DEF ClearPending, Kept
  <2>3. data'["primary"] = data["primary"] /\ data'["tmp"] \in {data["tmp"], Missing}
    BY <1>3, <2>2
  <2>4. AtLeast(backed)' /\ PrimaryLeast' /\ Saving'
    BY <1>1, <1>4, <1>5, <1>6, <2>3, <2>1 DEF AtLeast, PrimaryLeast, Saving, Valid
  <2>5. \A a \in Copiers : BackingUp(a)'
    BY <1>4, <1>5, <2>1 DEF BackingUp
  <2>6. KnownGood'
    BY <1>3, <1>8, <2>1, <2>2 DEF KnownGood, InPlaceOrNone, Valid
  <2>7. Starting'
    BY <1>3, <1>6, <2>1, <2>2 DEF Starting, Promoting, FallingBack, Restoring, Settled, Valid
  <2> QED BY <2>4, <2>5, <2>6, <2>7 DEF Backed
<1>23. CASE Restore
  <2>1. /\ copier["launch"].at = "restore" /\ copier'["backup"] = copier["backup"] /\ ~live
        /\ UNCHANGED <<data, live, memory, saver, backed>>
    BY <1>3, <1>5, <1>23 DEF Restore, StartCopy, Goto, LaunchOnly, Kept, CopierOnly, CopiersTyped
  <2>2. IF copier["launch"].ok THEN Valid("primary") ELSE ~Valid("primary") /\ ~Valid("tmp")
    BY <1>6, <2>1 DEF Starting
  <2>3. CASE ~copier["launch"].ok /\ Valid("bak")
    <3>1. /\ copier'["launch"].at = "copy" /\ copier'["launch"].from = "bak"
          /\ copier'["launch"].to = "primary" /\ copier'["launch"].ok = copier["launch"].ok
      BY <1>3, <1>23, <2>3 DEF Restore, StartCopy, CopiersTyped
    <3>2. Starting'
      BY <2>1, <2>2, <2>3, <3>1 DEF Starting, Promoting, FallingBack, Restoring, Settled, Valid
    <3> QED BY <1>19, <2>1, <3>1, <3>2
  <2>4. CASE ~(~copier["launch"].ok /\ Valid("bak"))
    <3>1. copier'["launch"].at = "snapshot"
      BY <1>3, <1>23, <2>4, GotoIs DEF Restore
    <3>2. Valid("primary") \/ backed = 0
      BY <1>8, <2>1, <2>2, <2>4 DEF InPlaceOrNone
    <3>3. Starting'
      BY <2>1, <3>1, <3>2 DEF Starting, Promoting, FallingBack, Restoring, Settled, Valid
    <3> QED BY <1>19, <2>1, <3>1, <3>3
  <2> QED BY <2>3, <2>4
<1>24. CASE Snapshot
  <2>1. /\ copier["launch"].at = "snapshot" /\ copier'["backup"] = copier["backup"] /\ ~live
        /\ UNCHANGED <<data, live, memory, saver, backed>>
    BY <1>3, <1>5, <1>24 DEF Snapshot, StartCopy, Goto, LaunchOnly, Kept, CopierOnly, CopiersTyped
  <2>2. Valid("primary") \/ backed = 0
    BY <1>6, <2>1 DEF Starting, Settled
  <2>3. \/ copier'["launch"].at = "copy" /\ copier'["launch"].to = "bak" /\ Valid("primary")
        \/ copier'["launch"].at = "claim"
    BY <1>3, <1>24, GotoIs DEF Snapshot, StartCopy, CopiersTyped
  <2>4. Starting'
    BY <2>1, <2>2, <2>3 DEF Starting, Promoting, FallingBack, Restoring, Settled, Valid
  <2> QED BY <1>19, <2>1, <2>3, <2>4
<1>25. CASE Claim
  <2>1. /\ copier["launch"].at = "claim" /\ copier'["launch"].at = "idle"
        /\ copier'["backup"].at = "idle" /\ ~live /\ UNCHANGED <<data, saver, backed>>
    BY <1>3, <1>5, <1>25 DEF Claim, Kept, CopiersTyped, At, Idle, history
  <2>2. memory' = IF Valid("primary") THEN data["primary"] ELSE 0
    BY <1>25, <2>1 DEF Claim, Loaded
  <2>3. Valid("primary") \/ backed = 0
    BY <1>6, <2>1 DEF Starting, Settled
  <2>4. AtLeast(backed)' /\ PrimaryLeast' /\ Saving'
    BY <1>1, <1>4, <1>5, <1>6, <2>1, <2>2, <2>3 DEF AtLeast, PrimaryLeast, Saving, Valid
  <2>5. \A a \in Copiers : BackingUp(a)'
    BY <1>4, <2>1 DEF BackingUp
  <2>6. KnownGood'
    BY <1>8, <2>1 DEF KnownGood, InPlaceOrNone, Valid
  <2>7. Starting'
    BY <2>1 DEF Starting, Promoting, FallingBack, Restoring, Settled
  <2> QED BY <2>4, <2>5, <2>6, <2>7 DEF Backed
<1>26. CASE LiveEnds
  <2>1. /\ ~live' /\ saver'.at = "idle" /\ copier'["backup"].at = "idle"
        /\ copier'["launch"] = copier["launch"] /\ copier["launch"].at = "idle"
        /\ UNCHANGED <<data, backed>>
    BY <1>3, <1>5, <1>26 DEF LiveEnds, Kept, CopiersTyped, At, Idle
  <2>2. ~BackupAside("backup")
    BY <1>26, Zenon DEF LiveEnds
  <2>3. AtLeast(backed)' /\ PrimaryLeast' /\ Saving'
    BY <1>1, <1>4, <1>6, <2>1 DEF AtLeast, PrimaryLeast, Saving, Valid
  <2>4. \A a \in Copiers : BackingUp(a)'
    BY <1>4, <2>1 DEF BackingUp
  <2>5. ~BackupAside("launch")
    BY <2>1 DEF BackupAside
  <2>6. KnownGood'
    BY <1>6, <2>1, <2>2, <2>5 DEF KnownGood, InPlaceOrNone, Valid
  <2>7. Starting'
    BY <2>1 DEF Starting, Promoting, FallingBack, Restoring, Settled
  <2> QED BY <2>3, <2>4, <2>6, <2>7 DEF Backed
<1>27. CASE LaunchEnds
  <2>1. /\ copier["launch"].at # "idle" /\ copier'["launch"].at = "idle"
        /\ copier'["backup"] = copier["backup"]
        /\ UNCHANGED <<data, live, memory, saver, backed>>
    BY <1>3, <1>27 DEF LaunchEnds, Kept, CopiersTyped, At, Idle
  <2>2. ~BackupAside("launch")
    BY <1>27, Zenon DEF LaunchEnds
  <2>3. copier["backup"].at = "idle"
    BY <1>5, <2>1
  <2>4. \A a \in Copiers : BackingUp(a)'
    BY <1>4, <2>1, <2>3 DEF BackingUp
  <2>5. \A a \in Copiers : ~BackupAside(a)
    BY <2>2, <2>3 DEF BackupAside
  <2>6. Starting'
    BY <2>1 DEF Starting, Promoting, FallingBack, Restoring, Settled
  <2> QED BY <1>10, <2>1, <2>4, <2>5, <2>6
<1>28. CASE UNCHANGED vars
  <2>1. UNCHANGED <<data, live, memory, saver, backed, copier>>
    BY <1>28 DEF vars
  <2>2. Starting' /\ \A a \in Copiers : BackingUp(a)'
    BY <1>6, <1>7, <2>1 DEF Starting, Promoting, FallingBack, Restoring, Settled, BackingUp,
                            AtLeast, Valid
  <2>3. \A a \in Copiers : BackupAside(a) => BackupAside(a)'
    BY <2>1 DEF BackupAside
  <2> QED BY <1>10, <2>1, <2>2, <2>3
<1> QED
  BY <1>11, <1>12, <1>14, <1>15, <1>16, <1>17, <1>18, <1>20, <1>21, <1>22, <1>23, <1>24,
     <1>25, <1>26, <1>27, <1>28 DEF Next, Step

(* What the last finished backup holds is the least a restart finds, for   *)
(* config.json rewritten in place as for the others, and for any number of *)
(* versions, starts and failures, short of the ones recovery cannot answer *)
(* and of a start beside a live program.                                   *)
THEOREM BackupIsLeast == Spec => []BackupSurvives
<1>1. Init => BackupInv
  <2> SUFFICES ASSUME Init PROVE Backed
    BY DEF BackupInv
  <2>1. /\ \A a \in Copiers : copier[a].at = "idle"
        /\ saver.at = "idle" /\ ~live /\ backed = 0
        /\ \A f \in Files : data[f] = Missing
    BY DEF Init, At, Idle
  <2>2. /\ {"primary", "tmp", "bak"} \subseteq Files
        /\ Missing \notin Versions /\ "idle" \notin CopySteps
    BY DEF Files
  <2> HIDE DEF Versions
  <2>3. AtLeast(backed) /\ PrimaryLeast /\ Saving
    BY <2>1, <2>2 DEF AtLeast, PrimaryLeast, Saving, Valid
  <2>4. \A a \in Copiers : BackingUp(a)
    BY <2>1, <2>2 DEF BackingUp
  <2>5. KnownGood
    BY <2>1, <2>2 DEF KnownGood, InPlaceOrNone
  <2>6. Starting
    BY <2>1, <2>2 DEF Starting, Promoting, FallingBack, Restoring, Settled
  <2> QED BY <2>3, <2>4, <2>5, <2>6 DEF Backed
<1>2. TypeOK /\ BackupInv => BackupSurvives
  <2> SUFFICES ASSUME TypeOK, Backed, \A a \in Copiers : ~BackupAside(a)
               PROVE  Recovered >= backed
    BY DEF BackupSurvives, BackupInv
  <2>1. InPlaceOrNone /\ AtLeast(backed) /\ backed \in Versions
    BY DEF Backed, KnownGood, TypeOK
  <2>2. \A v \in Versions : v \in Int
    OBVIOUS
  <2>3. Missing \notin Versions
    OBVIOUS
  <2> HIDE DEF Versions
  <2> QED BY <2>1, <2>2, <2>3 DEF Recovered, Pending, InPlaceOrNone, AtLeast, Valid
<1>3. Init => SurvivalInv
  BY SurvivalInit
<1>4. SurvivalInv => Roles /\ Bounded
  BY DEF SurvivalInv
<1> QED BY <1>1, <1>2, <1>3, <1>4, TypeCorrectness, SurvivalStep, BackupStep, PTL DEF Spec

=============================================================================
