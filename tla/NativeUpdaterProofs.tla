------------------------ MODULE NativeUpdaterProofs ------------------------
(***************************************************************************)
(* Proofs about NativeUpdater: a complete executable survives, and a new   *)
(* version that never became healthy does not stay, whatever the number of *)
(* failing calls and of events.                                            *)
(***************************************************************************)
EXTENDS NativeUpdater, TLAPS

-----------------------------------------------------------------------------
(* Types *)

FilesTyped ==
    /\ current \in Contents /\ copying \in Contents /\ replacing \in Contents
    /\ backup \in [Movers -> Contents]
    /\ pending \in [Movers -> BOOLEAN] /\ request \in BOOLEAN
    /\ health \in Versions \cup {"none"}

ProgramTyped ==
    /\ app \in Versions \cup {"none"} /\ origin \in Origins /\ age \in Ages
    /\ (app = "none") = (age = "none") /\ leaving \in BOOLEAN
    /\ online \in BOOLEAN
    /\ helperAlive \in BOOLEAN /\ adopted \in BOOLEAN

MoversTyped ==
    /\ pc \in [Movers -> PCs]
    /\ source \in [Movers -> {"pending", "backup"}]
    /\ launched \in [Movers -> BOOLEAN]

HistoryTyped ==
    /\ faults \in 0 .. MaxFaults /\ events \in 0 .. MaxEvents
    /\ cut \in BOOLEAN /\ met \in BOOLEAN /\ meddled \in BOOLEAN
    /\ unbacked \in BOOLEAN /\ unrestored \in BOOLEAN /\ confirmed \in BOOLEAN

Typed == FilesTyped /\ ProgramTyped /\ MoversTyped /\ HistoryTyped

LEMMA TypedIsTypeOK == Typed => TypeOK
BY DEF Typed, TypeOK, FilesTyped, ProgramTyped, MoversTyped, HistoryTyped

LEMMA TypedInit == Init => Typed
<1> SUFFICES ASSUME Init PROVE Typed
  OBVIOUS
<1>1. FilesTyped
  BY DEF Init, FilesTyped, Contents, Versions
<1>2. ProgramTyped
  BY DEF Init, ProgramTyped, Versions, Origins, Ages
<1>3. MoversTyped
  BY DEF Init, MoversTyped, PCs
<1>4. HistoryTyped
  <2>1. faults \in 0 .. MaxFaults /\ events \in 0 .. MaxEvents
    BY UpdaterAssumption DEF Init
  <2> QED
    BY <2>1, Zenon DEF Init, HistoryTyped
<1> QED
  BY <1>1, <1>2, <1>3, <1>4 DEF Typed

(* What the pieces of a step write. *)
LEMMA FaultTyped ==
    ASSUME HistoryTyped, Fault
    PROVE  faults' \in 0 .. MaxFaults
BY UpdaterAssumption DEF HistoryTyped, Fault

LEMMA EventTyped ==
    ASSUME HistoryTyped, Event
    PROVE  events' \in 0 .. MaxEvents
BY UpdaterAssumption DEF HistoryTyped, Event

LEMMA FailsTyped ==
    ASSUME MoversTyped, HistoryTyped, NEW p \in Movers, Fails(p)
    PROVE  pc' \in [Movers -> PCs] /\ unrestored' \in BOOLEAN
BY DEF MoversTyped, HistoryTyped, Fails, Goto, PCs

LEMMA StartedTyped ==
    ASSUME ProgramTyped, NEW p \in Origins, current \in Versions, Started(p),
           UNCHANGED <<online, helperAlive>>
    PROVE  ProgramTyped'
BY DEF ProgramTyped, Started, program, Versions, Ages, Origins, Movers

LEMMA NoProgramTyped ==
    ASSUME ProgramTyped, NoProgram, UNCHANGED online, helperAlive' \in BOOLEAN
    PROVE  ProgramTyped'
BY DEF ProgramTyped, NoProgram, Ages

LEMMA RepairTyped ==
    ASSUME FilesTyped, Repair, FilesButSwap
    PROVE  FilesTyped'
BY DEF FilesTyped, Repair, FilesButSwap, Contents

LEMMA CopyTyped ==
    ASSUME Typed, NEW p \in Movers, CopyStep(p)
    PROVE  Typed'
<1> USE DEF Typed, Contents, PCs, FilesButSwap, files, program
<1>1. ProgramTyped'
  BY DEF CopyStep, ProgramTyped
<1>2. source' \in [Movers -> {"pending", "backup"}] /\ launched' \in [Movers -> BOOLEAN]
  BY DEF CopyStep, MoversTyped
<1>3. /\ events' \in 0 .. MaxEvents /\ cut' \in BOOLEAN /\ met' \in BOOLEAN
      /\ meddled' \in BOOLEAN /\ unbacked' \in BOOLEAN /\ confirmed' \in BOOLEAN
  BY DEF CopyStep, HistoryTyped
<1>4. ASSUME FilesTyped', pc' \in [Movers -> PCs], faults' \in 0 .. MaxFaults,
             unrestored' \in BOOLEAN
      PROVE  Typed'
  BY <1>1, <1>2, <1>3, <1>4 DEF MoversTyped, HistoryTyped
<1>5. CASE Open(p)
  <2>1. From(p) \in Contents
    <3>1. backup[p] \in Contents
      BY DEF FilesTyped
    <3> QED
      BY <3>1 DEF From, Versions
  <2>2. FilesTyped'
    BY <1>5, <2>1 DEF Open, FilesTyped
  <2>3. pc' \in [Movers -> PCs] /\ unrestored' \in BOOLEAN
    BY <1>5, FailsTyped DEF Open, Goto, MoversTyped, HistoryTyped
  <2>4. faults' \in 0 .. MaxFaults
    BY <1>5, FaultTyped DEF Open, HistoryTyped
  <2> QED
    BY <1>4, <2>2, <2>3, <2>4
<1>6. CASE Drop(p)
  <2>1. FilesTyped'
    BY <1>6 DEF Drop, FilesTyped
  <2>2. pc' \in [Movers -> PCs] /\ unrestored' \in BOOLEAN
    BY <1>6 DEF Drop, Goto, MoversTyped, HistoryTyped
  <2>3. faults' \in 0 .. MaxFaults
    BY <1>6, FaultTyped DEF Drop, HistoryTyped
  <2> QED
    BY <1>4, <2>1, <2>2, <2>3
<1>7. CASE Aside(p)
  <2>1. FilesTyped'
    BY <1>7 DEF Aside, FilesTyped
  <2>2. pc' \in [Movers -> PCs] /\ unrestored' \in BOOLEAN
    BY <1>7, FailsTyped DEF Aside, Goto, MoversTyped, HistoryTyped
  <2>3. faults' \in 0 .. MaxFaults
    BY <1>7, FaultTyped DEF Aside, HistoryTyped
  <2> QED
    BY <1>4, <2>1, <2>2, <2>3
<1>8. CASE Swap(p)
  <2>1. FilesTyped'
    BY <1>8 DEF Swap, FilesTyped
  <2>2. pc' \in [Movers -> PCs] /\ unrestored' \in BOOLEAN
    BY <1>8 DEF Swap, Goto, AfterSwap, MoversTyped, HistoryTyped
  <2>3. faults' \in 0 .. MaxFaults
    BY <1>8, FaultTyped DEF Swap, HistoryTyped
  <2> QED
    BY <1>4, <2>1, <2>2, <2>3
<1>9. CASE Back(p)
  <2>1. FilesTyped'
    BY <1>9 DEF Back, FilesTyped
  <2>2. pc' \in [Movers -> PCs] /\ unrestored' \in BOOLEAN
    BY <1>9, FailsTyped DEF Back
  <2>3. faults' \in 0 .. MaxFaults
    BY <1>9, FaultTyped DEF Back, HistoryTyped
  <2> QED
    BY <1>4, <2>1, <2>2, <2>3
<1>10. CASE Verify(p)
  <2>1. FilesTyped'
    BY <1>10 DEF Verify, FilesTyped
  <2>2. pc' \in [Movers -> PCs] /\ unrestored' \in BOOLEAN
    BY <1>10, FailsTyped DEF Verify, Goto, MoversTyped, HistoryTyped
  <2>3. faults' \in 0 .. MaxFaults
    BY <1>10, FaultTyped DEF Verify, HistoryTyped
  <2> QED
    BY <1>4, <2>1, <2>2, <2>3
<1> QED
  BY <1>5, <1>6, <1>7, <1>8, <1>9, <1>10 DEF CopyStep

LEMMA MoverTyped ==
    ASSUME Typed, NEW p \in Movers, MoverStep(p)
    PROVE  Typed'
<1> USE DEF Typed, Goto, history, files, program, movers, FilesButSwap
<1>1. CASE Fetch(p)
  <2>1. met' \in BOOLEAN
    <3>1. (met \/ Updating) \in BOOLEAN
      OBVIOUS
    <3> QED
      BY <1>1, <3>1 DEF Fetch, HistoryTyped
  <2>2. HistoryTyped'
    BY <1>1, <2>1 DEF Fetch, HistoryTyped
  <2>3. FilesTyped' /\ ProgramTyped' /\ MoversTyped'
    BY <1>1 DEF Fetch, FilesTyped, ProgramTyped, MoversTyped, PCs
  <2> QED
    BY <2>2, <2>3
<1>2. CASE Begin(p)
  <2>1. ProgramTyped'
    BY <1>2, NoProgramTyped DEF Begin, ProgramTyped
  <2>2. FilesTyped'
    BY <1>2, RepairTyped DEF Begin, FilesTyped
  <2>3. MoversTyped'
    BY <1>2 DEF Begin, MoversTyped, PCs
  <2>4. faults' \in 0 .. MaxFaults
    BY <1>2, FaultTyped DEF Begin, HistoryTyped
  <2>5. HistoryTyped'
    BY <1>2, <2>4 DEF Begin, HistoryTyped
  <2> QED
    BY <2>1, <2>2, <2>3, <2>5
<1>3. CASE CleanOld(p)
  <2>1. FilesTyped' /\ MoversTyped'
    BY <1>3 DEF CleanOld, FilesTyped, MoversTyped, PCs, Contents
  <2>2. ProgramTyped' /\ HistoryTyped'
    BY <1>3 DEF CleanOld, ProgramTyped, HistoryTyped
  <2> QED
    BY <2>1, <2>2
<1>4. CASE Backup(p)
  <2>1. FilesTyped' /\ MoversTyped' /\ ProgramTyped'
    BY <1>4 DEF Backup, FilesTyped, MoversTyped, ProgramTyped, PCs
  <2>2. faults' \in 0 .. MaxFaults
    BY <1>4, FaultTyped DEF Backup, HistoryTyped
  <2>3. HistoryTyped'
    BY <1>4, <2>2 DEF Backup, HistoryTyped
  <2> QED
    BY <2>1, <2>3
<1>5. CASE CopyStep(p)
  BY <1>5, CopyTyped
<1>6. CASE Start(p)
  <2>1. FilesTyped' /\ MoversTyped'
    BY <1>6 DEF Start, FilesTyped, MoversTyped, PCs
  <2>2. ProgramTyped'
    BY <1>6, StartedTyped DEF Start, ProgramTyped, Origins
  <2>3. faults' \in 0 .. MaxFaults
    BY <1>6, FaultTyped DEF Start, HistoryTyped
  <2>4. unrestored' \in BOOLEAN
    <3>1. (unrestored \/ source[p] = "backup") \in BOOLEAN
      OBVIOUS
    <3> QED
      BY <1>6, <3>1 DEF Start, HistoryTyped
  <2>5. HistoryTyped'
    BY <1>6, <2>3, <2>4 DEF Start, HistoryTyped
  <2> QED
    BY <2>1, <2>2, <2>5
<1>7. CASE Wait(p)
  <2>1. FilesTyped'
    BY <1>7 DEF Wait, FilesTyped, Contents
  <2>2. ProgramTyped'
    <3>1. (origin = p /\ app # "none") \in BOOLEAN
      OBVIOUS
    <3> QED
      BY <1>7, <3>1 DEF Wait, ProgramTyped
  <2>3. MoversTyped' /\ HistoryTyped'
    BY <1>7 DEF Wait, MoversTyped, HistoryTyped, PCs
  <2> QED
    BY <2>1, <2>2, <2>3
<1>8. CASE Kill(p)
  <2>1. ProgramTyped'
    BY <1>8, NoProgramTyped DEF Kill, ProgramTyped
  <2>2. FilesTyped' /\ HistoryTyped'
    BY <1>8 DEF Kill, FilesTyped, HistoryTyped
  <2>3. MoversTyped'
    BY <1>8 DEF Kill, MoversTyped, PCs
  <2> QED
    BY <2>1, <2>2, <2>3
<1>9. CASE AwaitParent(p)
  BY <1>9 DEF AwaitParent, FilesTyped, ProgramTyped, MoversTyped, HistoryTyped, PCs
<1>10. CASE Sweep(p)
  <2>1. faults' \in 0 .. MaxFaults
    BY <1>10, FaultTyped DEF Sweep, HistoryTyped
  <2>2. FilesTyped'
    BY <1>10 DEF Sweep, FilesTyped, Contents
  <2>3. ProgramTyped' /\ MoversTyped'
    BY <1>10 DEF Sweep, ProgramTyped, MoversTyped, PCs
  <2> QED
    BY <1>10, <2>1, <2>2, <2>3 DEF Sweep, HistoryTyped
<1> QED
  BY <1>1, <1>2, <1>3, <1>4, <1>5, <1>6, <1>7, <1>8, <1>9, <1>10 DEF MoverStep

LEMMA RestTyped ==
    ASSUME Typed, AppStep \/ Leaves \/ User \/ UNCHANGED vars
    PROVE  Typed'
<1> USE DEF Typed, Goto, history, files, program, movers, FilesButSwap
<1>1. CASE Repaired /\ AppStep
  <2>1. FilesTyped'
    BY <1>1, RepairTyped DEF Repaired
  <2>2. ProgramTyped'
    BY <1>1 DEF Repaired, AppStep, ProgramTyped, Ages
  <2>3. MoversTyped' /\ HistoryTyped'
    BY <1>1 DEF Repaired, AppStep, MoversTyped, HistoryTyped
  <2> QED
    BY <2>1, <2>2, <2>3
<1>2. CASE (MarksHealthy \/ Checks \/ Cleans) /\ AppStep
  <2>1. FilesTyped' /\ ProgramTyped'
    <3>1. CASE MarksHealthy
      BY <1>2, <3>1 DEF MarksHealthy, AppStep, FilesTyped, ProgramTyped, Ages
    <3>2. CASE Checks
      BY <1>2, <3>2 DEF Checks, AppStep, FilesTyped, ProgramTyped, Ages
    <3>3. CASE Cleans
      BY <1>2, <3>3 DEF Cleans, AppStep, FilesTyped, ProgramTyped, Ages, Contents
    <3> QED
      BY <1>2, <3>1, <3>2, <3>3
  <2>2. MoversTyped'
    BY <1>2 DEF AppStep, MoversTyped
  <2>3. confirmed' \in BOOLEAN /\ meddled' \in BOOLEAN
    <3>1. (confirmed \/ app = "new") \in BOOLEAN /\ (meddled \/ Updating) \in BOOLEAN
      OBVIOUS
    <3> QED
      BY <1>2, <3>1 DEF MarksHealthy, Checks, Cleans, HistoryTyped
  <2>4. HistoryTyped'
    BY <1>2, <2>3 DEF AppStep, HistoryTyped
  <2> QED
    BY <2>1, <2>2, <2>4
<1>3. CASE Leaves
  <2>1. ProgramTyped'
    BY <1>3, NoProgramTyped DEF Leaves, ProgramTyped
  <2> QED
    BY <1>3, <2>1 DEF Leaves, FilesTyped, MoversTyped, HistoryTyped
<1>4. CASE Stage
  <2>1. events' \in 0 .. MaxEvents
    BY <1>4, EventTyped DEF Stage
  <2>2. FilesTyped' /\ ProgramTyped' /\ MoversTyped'
    BY <1>4 DEF Stage, FilesTyped, ProgramTyped, MoversTyped, PCs
  <2>3. met' \in BOOLEAN
    <3>1. (met \/ Busy("helper")) \in BOOLEAN
      OBVIOUS
    <3> QED
      BY <1>4, <3>1 DEF Stage
  <2> QED
    BY <1>4, <2>1, <2>2, <2>3 DEF Stage, HistoryTyped
<1>5. CASE AskHelper
  <2>1. events' \in 0 .. MaxEvents
    BY <1>5, EventTyped DEF AskHelper
  <2>2. FilesTyped' /\ ProgramTyped' /\ MoversTyped'
    BY <1>5 DEF AskHelper, FilesTyped, ProgramTyped, MoversTyped, PCs
  <2> QED
    BY <1>5, <2>1, <2>2 DEF AskHelper, HistoryTyped
<1>6. CASE StartByHand
  <2>1. ProgramTyped'
    BY <1>6, StartedTyped DEF StartByHand, Origins
  <2>2. events' \in 0 .. MaxEvents
    BY <1>6, EventTyped DEF StartByHand
  <2>3. FilesTyped' /\ MoversTyped'
    BY <1>6 DEF StartByHand, FilesTyped, MoversTyped
  <2>4. meddled' \in BOOLEAN
    <3>1. (meddled \/ Updating) \in BOOLEAN
      OBVIOUS
    <3> QED
      BY <1>6, <3>1 DEF StartByHand
  <2> QED
    BY <1>6, <2>1, <2>2, <2>3, <2>4 DEF StartByHand, HistoryTyped
<1>7. CASE Close \/ PowerCut
  <2>1. ProgramTyped'
    BY <1>7, NoProgramTyped DEF Close, PowerCut
  <2>2. events' \in 0 .. MaxEvents
    BY <1>7, EventTyped DEF Close, PowerCut
  <2>3. FilesTyped' /\ MoversTyped'
    BY <1>7 DEF Close, PowerCut, FilesTyped, MoversTyped, PCs
  <2>4. meddled' \in BOOLEAN /\ cut' \in BOOLEAN
    <3>1. (meddled \/ Updating) \in BOOLEAN
      OBVIOUS
    <3> QED
      BY <1>7, <3>1 DEF Close, PowerCut, HistoryTyped
  <2> QED
    BY <1>7, <2>1, <2>2, <2>3, <2>4 DEF Close, PowerCut, HistoryTyped
<1>8. CASE UNCHANGED vars
  BY <1>8 DEF vars, FilesTyped, ProgramTyped, MoversTyped, HistoryTyped
<1> QED
  BY <1>1, <1>2, <1>3, <1>4, <1>5, <1>6, <1>7, <1>8
     DEF AppStep, User, ApplyLocal, InstallOnline

LEMMA TypedNext == Typed /\ [Next]_vars => Typed'
BY MoverTyped, RestTyped DEF Next

(* Every behaviour is of the declared types. *)
THEOREM TypeCorrectness == Spec => []TypeOK
BY TypedInit, TypedNext, TypedIsTypeOK, PTL DEF Spec

-----------------------------------------------------------------------------
(* The places of a mover: before it copies, while it may have replaced the *)
(* executable, and while it can rely on being alone.                       *)

Before == {"begin", "parent", "clean", "backup"}
Moving == {"open", "drop", "aside", "swap", "back", "verify", "start", "wait", "kill"}
Alone == {"backup", "open", "drop", "aside", "swap", "back", "verify", "start"}

OneBusy == ~met => ~(Busy("updater") /\ Busy("helper"))

(* A file is torn only by two movers at once. *)
NoTorn ==
    ~met => /\ current # "torn" /\ copying # "torn" /\ replacing # "torn"
            /\ \A p \in Movers : backup[p] # "torn"

(* While the updater replaces the executable the program does not run,     *)
(* unless the updater itself has started it or somebody meddles.  Of the   *)
(* helper this is not so: it may be asked again beside an instance that    *)
(* has not told it of itself yet, and then copies while that one runs.     *)
OwnProgram(p) ==
    /\ pc[p] \in Alone => app = "none"
    /\ pc[p] \in {"wait", "kill"} /\ app # "none" => origin = p /\ launched[p]

Roles == pc["updater"] # "fetch" /\ pc["helper"] \notin {"parent", "clean", "sweep"}

Calm == ~met /\ ~meddled

UpdaterAlone ==
    Calm => /\ OwnProgram("updater")
            /\ pc["updater"] = "clean" => app = "none"
            /\ pc["updater"] \in {"begin", "parent"} /\ ~leaving => app = "none"

(* The updater clears the old backups away only while the executable is in *)
(* its place or beside it, and while somebody moves it there is a backup.  *)
InPlace == current \in Versions \/ replacing \in Versions
Backed == \E p \in Movers : backup[p] \in Versions

Kept ==
    ~met => /\ pc["updater"] \in Before => InPlace
            /\ \A p \in Movers : pc[p] \in {"wait", "sweep"} => InPlace
            /\ \A p \in Movers : pc[p] \in Moving => Backed
            /\ InPlace \/ Backed

Safe ==
    /\ Roles /\ OneBusy /\ NoTorn /\ UpdaterAlone /\ Kept

LEMMA SafeInit == Init => Safe
BY DEF Init, Safe, Roles, OneBusy, NoTorn, UpdaterAlone, Kept, Calm, OwnProgram, InPlace,
       Backed, Busy, Movers, Versions, Alone, Moving

LEMMA SafeMover ==
    ASSUME Typed, Safe, NEW p \in Movers, MoverStep(p)
    PROVE  Safe'
<1> USE DEF Typed, FilesTyped, ProgramTyped, MoversTyped, HistoryTyped, Safe, Goto, history,
        files, program, movers, FilesButSwap, Movers
<1>1. CASE Fetch(p)
  <2>1. OneBusy'
    BY <1>1 DEF Fetch, OneBusy, Busy, Updating
  <2>2. NoTorn'
    BY <1>1 DEF Fetch, NoTorn
  <2>3. Roles'
    BY <1>1 DEF Fetch, Roles
  <2>4. UpdaterAlone'
    BY <1>1 DEF Fetch, UpdaterAlone, Roles, OwnProgram, Calm
  <2>5. Kept'
    BY <1>1 DEF Fetch, Kept, Roles, InPlace, Backed, Moving
  <2> QED
    BY <2>1, <2>2, <2>3, <2>4, <2>5
<1>2. CASE Begin(p)
  <2>1. OneBusy'
    BY <1>2 DEF Begin, OneBusy, Busy, Updating
  <2>2. NoTorn'
    BY <1>2 DEF Begin, Repair, NoTorn
  <2>3. Roles'
    BY <1>2 DEF Begin, NoProgram, Roles
  <2>4. UpdaterAlone'
    BY <1>2 DEF Begin, NoProgram, UpdaterAlone, Alone, OwnProgram, Calm
  <2>5. Kept'
    BY <1>2 DEF Begin, Repair, NoProgram, Kept, NoTorn, InPlace, Backed, Moving,
       Before, Contents
  <2> QED
    BY <2>1, <2>2, <2>3, <2>4, <2>5
<1>3. CASE CleanOld(p)
  <2>1. OneBusy'
    BY <1>3 DEF CleanOld, OneBusy, Busy, Updating
  <2>2. NoTorn'
    BY <1>3 DEF CleanOld, NoTorn
  <2>3. Roles'
    BY <1>3 DEF CleanOld, Roles
  <2>4. UpdaterAlone'
    BY <1>3 DEF CleanOld, UpdaterAlone, OwnProgram, Calm
  <2>5. Kept'
    BY <1>3 DEF CleanOld, Kept, Roles, OneBusy, Busy, InPlace, Moving, Before
  <2> QED
    BY <2>1, <2>2, <2>3, <2>4, <2>5
<1>4. CASE Backup(p)
  <2>1. OneBusy'
    BY <1>4 DEF Backup, OneBusy, Busy, Updating
  <2>2. NoTorn'
    BY <1>4 DEF Backup, NoTorn
  <2>3. Roles'
    BY <1>4 DEF Backup, Roles
  <2>4. UpdaterAlone'
    BY <1>4 DEF Backup, UpdaterAlone, OwnProgram, Calm, Alone
  <2>5. Kept'
    BY <1>4 DEF Backup, Kept, NoTorn, InPlace, Backed, Moving, Before, Contents
  <2> QED
    BY <2>1, <2>2, <2>3, <2>4, <2>5
<1>5. CASE Open(p) /\ CopyStep(p)
  <2>1. OneBusy'
    BY <1>5 DEF Open, CopyStep, Fails, OneBusy, Busy, Updating
  <2>2. NoTorn'
    BY <1>5 DEF Open, CopyStep, From, NoTorn, OneBusy, Busy
  <2>3. Roles'
    BY <1>5 DEF Open, CopyStep, Fails, Roles
  <2>4. UpdaterAlone'
    BY <1>5 DEF Open, CopyStep, Fails, UpdaterAlone, OwnProgram, Calm, Alone
  <2>5. Kept'
    BY <1>5 DEF Open, CopyStep, Fails, Kept, InPlace, Backed, Moving, Before
  <2> QED
    BY <2>1, <2>2, <2>3, <2>4, <2>5
<1>6. CASE Drop(p) /\ CopyStep(p)
  <2>1. OneBusy'
    BY <1>6 DEF Drop, CopyStep, OneBusy, Busy, Updating
  <2>2. NoTorn'
    BY <1>6 DEF Drop, CopyStep, NoTorn
  <2>3. Roles'
    BY <1>6 DEF Drop, CopyStep, Roles
  <2>4. UpdaterAlone'
    BY <1>6 DEF Drop, CopyStep, UpdaterAlone, OwnProgram, Calm, Alone
  <2>5. Kept'
    BY <1>6 DEF Drop, CopyStep, Kept, OneBusy, Busy, Backed, Moving, Before
  <2> QED
    BY <2>1, <2>2, <2>3, <2>4, <2>5
<1>7. CASE Aside(p) /\ CopyStep(p)
  <2>1. OneBusy'
    BY <1>7 DEF Aside, CopyStep, Fails, OneBusy, Busy, Updating
  <2>2. NoTorn'
    BY <1>7 DEF Aside, CopyStep, NoTorn
  <2>3. Roles'
    BY <1>7 DEF Aside, CopyStep, Fails, Roles
  <2>4. UpdaterAlone'
    BY <1>7 DEF Aside, CopyStep, Fails, UpdaterAlone, OwnProgram, Calm, Alone
  <2>5. Kept'
    BY <1>7 DEF Aside, CopyStep, Fails, Kept, NoTorn, InPlace, Backed, Moving,
       Before, Contents
  <2> QED
    BY <2>1, <2>2, <2>3, <2>4, <2>5
<1>8. CASE Swap(p) /\ CopyStep(p)
  <2>1. OneBusy'
    BY <1>8 DEF Swap, CopyStep, OneBusy, Busy, Updating
  <2>2. NoTorn'
    BY <1>8 DEF Swap, CopyStep, NoTorn
  <2>3. Roles'
    BY <1>8 DEF Swap, CopyStep, AfterSwap, Roles
  <2>4. UpdaterAlone'
    BY <1>8 DEF Swap, CopyStep, UpdaterAlone, OwnProgram, Calm, Alone
  <2>5. Kept'
    BY <1>8 DEF Swap, CopyStep, Kept, NoTorn, InPlace, Backed, Moving, Before, Contents
  <2> QED
    BY <2>1, <2>2, <2>3, <2>4, <2>5
<1>9. CASE Back(p) /\ CopyStep(p)
  <2>1. OneBusy'
    BY <1>9 DEF Back, CopyStep, Fails, OneBusy, Busy, Updating
  <2>2. NoTorn'
    BY <1>9 DEF Back, CopyStep, NoTorn
  <2>3. Roles'
    BY <1>9 DEF Back, CopyStep, Fails, Roles
  <2>4. UpdaterAlone'
    BY <1>9 DEF Back, CopyStep, Fails, UpdaterAlone, OwnProgram, Calm, Alone
  <2>5. Kept'
    BY <1>9 DEF Back, CopyStep, Fails, Kept, NoTorn, InPlace, Backed, Moving, Before,
       Contents
  <2> QED
    BY <2>1, <2>2, <2>3, <2>4, <2>5
<1>10. CASE Verify(p) /\ CopyStep(p)
  <2>1. OneBusy'
    BY <1>10 DEF Verify, CopyStep, Fails, OneBusy, Busy, Updating
  <2>2. NoTorn'
    BY <1>10 DEF Verify, CopyStep, NoTorn
  <2>3. Roles'
    BY <1>10 DEF Verify, CopyStep, Fails, Roles
  <2>4. UpdaterAlone'
    BY <1>10 DEF Verify, CopyStep, Fails, UpdaterAlone, OwnProgram, Calm, Alone
  <2>5. Kept'
    BY <1>10 DEF Verify, CopyStep, Fails, Kept, InPlace, Backed, Moving, Before
  <2> QED
    BY <2>1, <2>2, <2>3, <2>4, <2>5
<1>11. CASE Start(p)
  <2>1. OneBusy'
    BY <1>11 DEF Start, OneBusy, Busy, Updating
  <2>2. NoTorn'
    BY <1>11 DEF Start, NoTorn
  <2>3. Roles'
    BY <1>11 DEF Start, Started, Roles
  <2>4. UpdaterAlone'
    BY <1>11 DEF Start, Started, UpdaterAlone, OneBusy, Busy, OwnProgram, Calm, Alone
  <2>5. Kept'
    BY <1>11 DEF Start, Kept, InPlace, Backed, Moving, Before
  <2> QED
    BY <2>1, <2>2, <2>3, <2>4, <2>5
<1>12. CASE Wait(p)
  <2>1. OneBusy'
    BY <1>12 DEF Wait, OneBusy, Busy, Updating
  <2>2. NoTorn'
    BY <1>12 DEF Wait, NoTorn
  <2>3. Roles'
    BY <1>12 DEF Wait, Roles
  <2>4. UpdaterAlone'
    BY <1>12 DEF Wait, UpdaterAlone, OwnProgram, Calm, Alone
  <2>5. Kept'
    BY <1>12 DEF Wait, Kept, OneBusy, Busy, InPlace, Backed, Moving, Before
  <2> QED
    BY <2>1, <2>2, <2>3, <2>4, <2>5
<1>13. CASE Kill(p)
  <2>1. OneBusy'
    BY <1>13 DEF Kill, OneBusy, Busy, Updating
  <2>2. NoTorn'
    BY <1>13 DEF Kill, NoTorn
  <2>3. Roles'
    BY <1>13 DEF Kill, NoProgram, Roles
  <2>4. UpdaterAlone'
    BY <1>13 DEF Kill, NoProgram, UpdaterAlone, OneBusy, Busy, OwnProgram, Calm, Alone
  <2>5. Kept'
    BY <1>13 DEF Kill, Kept, InPlace, Backed, Moving, Before
  <2> QED
    BY <2>1, <2>2, <2>3, <2>4, <2>5
<1>14. CASE AwaitParent(p)
  <2>1. OneBusy'
    BY <1>14 DEF AwaitParent, OneBusy, Busy, Updating
  <2>2. NoTorn'
    BY <1>14 DEF AwaitParent, NoTorn
  <2>3. Roles'
    BY <1>14 DEF AwaitParent, Roles
  <2>4. UpdaterAlone'
    BY <1>14 DEF AwaitParent, UpdaterAlone, Roles, OwnProgram, Calm, Alone
  <2>5. Kept'
    BY <1>14 DEF AwaitParent, Kept, Roles, InPlace, Backed, Moving, Before
  <2> QED
    BY <2>1, <2>2, <2>3, <2>4, <2>5
<1>15. CASE Sweep(p)
  <2>1. OneBusy'
    BY <1>15 DEF Sweep, OneBusy, Busy, Updating
  <2>2. NoTorn'
    BY <1>15 DEF Sweep, NoTorn
  <2>3. Roles'
    BY <1>15 DEF Sweep, Roles
  <2>4. UpdaterAlone'
    BY <1>15 DEF Sweep, UpdaterAlone, Roles, OwnProgram, Calm, Alone
  <2>5. Kept'
    BY <1>15 DEF Sweep, Kept, Roles, OneBusy, Busy, InPlace, Backed, Moving, Before
  <2> QED
    BY <2>1, <2>2, <2>3, <2>4, <2>5
<1> QED
  BY <1>1, <1>2, <1>3, <1>4, <1>5, <1>6, <1>7, <1>8, <1>9, <1>10, <1>11, <1>12, <1>13, <1>14,
     <1>15 DEF MoverStep, CopyStep

LEMMA SafeRest ==
    ASSUME Typed, Safe, AppStep \/ Leaves \/ User \/ UNCHANGED vars
    PROVE  Safe'
<1> USE DEF Typed, FilesTyped, ProgramTyped, MoversTyped, HistoryTyped, Safe, Goto, history,
        files, program, movers, FilesButSwap, Movers
<1>1. CASE Repaired /\ AppStep
  <2>1. OneBusy'
    BY <1>1 DEF AppStep, OneBusy, Busy, Updating
  <2>2. NoTorn'
    BY <1>1 DEF Repaired, AppStep, Repair, NoTorn
  <2>3. Roles'
    BY <1>1 DEF Repaired, AppStep, Roles
  <2>4. UpdaterAlone'
    BY <1>1 DEF Repaired, AppStep, UpdaterAlone, OwnProgram, Calm
  <2>5. Kept'
    BY <1>1 DEF Repaired, AppStep, Repair, Kept, NoTorn, InPlace, Backed, Contents
  <2> QED
    BY <2>1, <2>2, <2>3, <2>4, <2>5
<1>2. CASE MarksHealthy /\ AppStep
  <2>1. OneBusy'
    BY <1>2 DEF AppStep, OneBusy, Busy, Updating
  <2>2. NoTorn'
    BY <1>2 DEF MarksHealthy, AppStep, NoTorn
  <2>3. Roles'
    BY <1>2 DEF MarksHealthy, AppStep, Roles
  <2>4. UpdaterAlone'
    BY <1>2 DEF MarksHealthy, AppStep, UpdaterAlone, OwnProgram, Calm
  <2>5. Kept'
    BY <1>2 DEF MarksHealthy, AppStep, Kept, InPlace, Backed
  <2> QED
    BY <2>1, <2>2, <2>3, <2>4, <2>5
<1>3. CASE Checks /\ AppStep
  <2>1. OneBusy'
    BY <1>3 DEF AppStep, OneBusy, Busy, Updating
  <2>2. NoTorn'
    BY <1>3 DEF Checks, AppStep, NoTorn
  <2>3. Roles'
    BY <1>3 DEF Checks, AppStep, Roles
  <2>4. UpdaterAlone'
    BY <1>3 DEF Checks, AppStep, UpdaterAlone, OwnProgram, Calm
  <2>5. Kept'
    BY <1>3 DEF Checks, AppStep, Kept, InPlace, Backed
  <2> QED
    BY <2>1, <2>2, <2>3, <2>4, <2>5
<1>4. CASE Cleans /\ AppStep
  <2>1. OneBusy'
    BY <1>4 DEF AppStep, OneBusy, Busy
  <2>2. NoTorn'
    BY <1>4 DEF Cleans, AppStep, NoTorn
  <2>3. Roles'
    BY <1>4 DEF Cleans, AppStep, Roles
  <2>4. UpdaterAlone'
    BY <1>4 DEF Cleans, AppStep, UpdaterAlone, OwnProgram, Calm
  <2>5. Kept'
    BY <1>4 DEF Cleans, AppStep, Kept, Updating, NoTorn, Busy, InPlace, Backed,
       Moving, Contents
  <2> QED
    BY <2>1, <2>2, <2>3, <2>4, <2>5
<1>5. CASE Leaves
  <2>1. OneBusy'
    BY <1>5 DEF Leaves, OneBusy, Busy, Updating
  <2>2. NoTorn'
    BY <1>5 DEF Leaves, NoTorn
  <2>3. Roles'
    BY <1>5 DEF Leaves, Roles
  <2>4. UpdaterAlone'
    BY <1>5 DEF Leaves, NoProgram, UpdaterAlone, OwnProgram
  <2>5. Kept'
    BY <1>5 DEF Leaves, NoProgram, Kept, InPlace, Backed
  <2> QED
    BY <2>1, <2>2, <2>3, <2>4, <2>5
<1>6. CASE Stage
  <2>1. OneBusy'
    BY <1>6 DEF Stage, OneBusy, Busy, Updating
  <2>2. NoTorn'
    BY <1>6 DEF Stage, NoTorn
  <2>3. Roles'
    BY <1>6 DEF Stage, Roles
  <2>4. UpdaterAlone'
    BY <1>6 DEF Stage, UpdaterAlone, OwnProgram, Alone
  <2>5. Kept'
    BY <1>6 DEF Stage, Kept, InPlace, Backed, Busy, Moving
  <2> QED
    BY <2>1, <2>2, <2>3, <2>4, <2>5
<1>7. CASE AskHelper
  <2>1. OneBusy'
    BY <1>7 DEF AskHelper, OneBusy, Busy, Updating
  <2>2. NoTorn'
    BY <1>7 DEF AskHelper, NoTorn
  <2>3. Roles'
    BY <1>7 DEF AskHelper, Roles
  <2>4. UpdaterAlone'
    BY <1>7 DEF AskHelper, UpdaterAlone, OwnProgram, Calm
  <2>5. Kept'
    BY <1>7 DEF AskHelper, Kept, InPlace, Backed, Moving
  <2> QED
    BY <2>1, <2>2, <2>3, <2>4, <2>5
<1>8. CASE StartByHand
  <2>1. OneBusy'
    BY <1>8 DEF StartByHand, OneBusy, Busy
  <2>2. NoTorn'
    BY <1>8 DEF StartByHand, NoTorn
  <2>3. Roles'
    BY <1>8 DEF StartByHand, Started, Roles
  <2>4. UpdaterAlone'
    BY <1>8 DEF StartByHand, UpdaterAlone, Updating, Busy, OwnProgram, Calm, Alone
  <2>5. Kept'
    BY <1>8 DEF StartByHand, Kept, InPlace, Backed
  <2> QED
    BY <2>1, <2>2, <2>3, <2>4, <2>5
<1>9. CASE Close
  <2>1. OneBusy'
    BY <1>9 DEF Close, OneBusy, Busy
  <2>2. NoTorn'
    BY <1>9 DEF Close, NoTorn
  <2>3. Roles'
    BY <1>9 DEF Close, NoProgram, Roles
  <2>4. UpdaterAlone'
    BY <1>9 DEF Close, NoProgram, UpdaterAlone, OwnProgram
  <2>5. Kept'
    BY <1>9 DEF Close, Kept, InPlace, Backed, Moving
  <2> QED
    BY <2>1, <2>2, <2>3, <2>4, <2>5
<1>10. CASE PowerCut
  <2>1. OneBusy'
    BY <1>10 DEF PowerCut, OneBusy, Busy
  <2>2. NoTorn'
    BY <1>10 DEF PowerCut, NoTorn
  <2>3. Roles'
    BY <1>10 DEF PowerCut, NoProgram, Roles
  <2>4. UpdaterAlone'
    BY <1>10 DEF PowerCut, NoProgram, UpdaterAlone, OwnProgram
  <2>5. Kept'
    BY <1>10 DEF PowerCut, NoProgram, Kept, InPlace, Backed, Moving, Before
  <2> QED
    BY <2>1, <2>2, <2>3, <2>4, <2>5
<1>11. CASE UNCHANGED vars
  <2>1. OneBusy'
    BY <1>11 DEF vars, OneBusy, Busy, Updating
  <2>2. NoTorn'
    BY <1>11 DEF vars, NoTorn
  <2>3. Roles'
    BY <1>11 DEF vars, Roles
  <2>4. UpdaterAlone'
    BY <1>11 DEF vars, UpdaterAlone, OwnProgram, Calm
  <2>5. Kept'
    BY <1>11 DEF vars, Kept, InPlace, Backed
  <2> QED
    BY <2>1, <2>2, <2>3, <2>4, <2>5
<1> QED
  BY <1>1, <1>2, <1>3, <1>4, <1>5, <1>6, <1>7, <1>8, <1>9, <1>10, <1>11
     DEF AppStep, User, ApplyLocal, InstallOnline

LEMMA SafeNext == Typed /\ Safe /\ [Next]_vars => Safe'
BY SafeMover, SafeRest DEF Next

(* Whatever calls fail, whenever the power goes and whatever the user does *)
(* meanwhile: while the two movers do not meet, an executable is left.     *)
THEOREM ExecutableSafe == Spec => []ExecutableSurvives
<1>1. Safe => ExecutableSurvives
  BY DEF Safe, Kept, InPlace, Backed, ExecutableSurvives
<1> QED
  BY TypedInit, TypedNext, SafeInit, SafeNext, <1>1, PTL DEF Spec

-----------------------------------------------------------------------------
(* Only what has been healthy stays. *)

MarkerIsTrue == health = "new" => confirmed

Undecided == ~(confirmed \/ cut \/ met \/ meddled \/ unrestored)

(* Until a new version has said that it is healthy, a mover that is not    *)
(* through has the old one in its backup, restores nothing else, and waits *)
(* for nobody else's marker.                                               *)
OldInPlace ==
    Undecided => ((\A p \in Movers : pc[p] \notin Moving) => current = "old")
OldBackedUp ==
    Undecided => \A p \in Movers : pc[p] \in Moving => backup[p] = "old"
OldRestored ==
    Undecided => \A p \in Movers : source[p] = "backup" =>
        /\ pc[p] \in {"drop", "aside", "swap"} => copying \in {"old", "none"}
        /\ pc[p] = "start" => current = "old"
        /\ pc[p] # "verify"
NewAwaited ==
    Undecided => /\ pc["updater"] = "start" /\ source["updater"] = "pending" => current = "new"
                 /\ pc["updater"] = "wait" => health # "old" /\ app # "old"

Restores == OldInPlace /\ OldBackedUp /\ OldRestored /\ NewAwaited
Healthy == MarkerIsTrue /\ Restores

LEMMA HealthyInit == Init => Healthy
BY DEF Init, Healthy, Restores, MarkerIsTrue, OldInPlace, OldBackedUp, OldRestored, NewAwaited,
       Moving, Movers

LEMMA HealthyMover ==
    ASSUME Typed, Safe, Healthy, NEW p \in Movers, MoverStep(p)
    PROVE  Healthy'
<1> USE DEF Typed, FilesTyped, ProgramTyped, MoversTyped, HistoryTyped, Safe, Healthy, Restores,
        Goto, history, files, program, movers, FilesButSwap, Movers
<1>1. CASE Fetch(p)
  <2>1. MarkerIsTrue'
    BY <1>1 DEF Fetch, MarkerIsTrue
  <2>2. OldInPlace'
    BY <1>1 DEF Fetch, OldInPlace, Undecided, Moving
  <2>3. OldBackedUp'
    BY <1>1 DEF Fetch, OldBackedUp, Undecided, Moving
  <2>4. OldRestored'
    BY <1>1 DEF Fetch, OldRestored, Undecided
  <2>5. NewAwaited'
    BY <1>1 DEF Fetch, NewAwaited, Undecided
  <2> QED
    BY <2>1, <2>2, <2>3, <2>4, <2>5
<1>2. CASE Begin(p)
  <2>1. MarkerIsTrue'
    BY <1>2 DEF Begin, MarkerIsTrue
  <2>2. OldInPlace'
    BY <1>2 DEF Begin, Repair, OldInPlace, Undecided, Moving
  <2>3. OldBackedUp'
    BY <1>2 DEF Begin, OldBackedUp, Undecided, Moving, Updating
  <2>4. OldRestored'
    BY <1>2 DEF Begin, Repair, OldRestored, Undecided, Updating
  <2>5. NewAwaited'
    BY <1>2 DEF Begin, Repair, NoProgram, NewAwaited, Undecided
  <2> QED
    BY <2>1, <2>2, <2>3, <2>4, <2>5
<1>3. CASE CleanOld(p)
  <2>1. MarkerIsTrue'
    BY <1>3 DEF CleanOld, MarkerIsTrue
  <2>2. OldInPlace'
    BY <1>3 DEF CleanOld, OldInPlace, Undecided, Moving
  <2>3. OldBackedUp'
    BY <1>3 DEF CleanOld, OldBackedUp, Undecided, Moving, OneBusy, Busy, Updating
  <2>4. OldRestored'
    BY <1>3 DEF CleanOld, OldRestored, Undecided, Updating
  <2>5. NewAwaited'
    BY <1>3 DEF CleanOld, NewAwaited, Undecided
  <2> QED
    BY <2>1, <2>2, <2>3, <2>4, <2>5
<1>4. CASE Backup(p)
  <2>1. MarkerIsTrue'
    BY <1>4 DEF Backup, MarkerIsTrue
  <2>2. OldInPlace'
    BY <1>4 DEF Backup, OldInPlace, Undecided, Moving
  <2>3. OldBackedUp'
    BY <1>4 DEF Backup, OldBackedUp, OldInPlace, Undecided, Moving, OneBusy, Busy, Updating
  <2>4. OldRestored'
    BY <1>4 DEF Backup, OldRestored, Undecided, Updating
  <2>5. NewAwaited'
    BY <1>4 DEF Backup, NewAwaited, Undecided
  <2> QED
    BY <2>1, <2>2, <2>3, <2>4, <2>5
<1>5. CASE Open(p) /\ CopyStep(p)
  <2>1. MarkerIsTrue'
    BY <1>5 DEF Open, CopyStep, MarkerIsTrue
  <2>2. OldInPlace'
    BY <1>5 DEF Open, Fails, OldInPlace, Undecided, Moving
  <2>3. OldBackedUp'
    BY <1>5 DEF Open, CopyStep, Fails, OldBackedUp, Undecided, Moving, Updating
  <2>4. OldRestored'
    BY <1>5 DEF Open, CopyStep, From, Fails, OldRestored, OldBackedUp, Undecided, Moving,
       OneBusy, Busy, Updating
  <2>5. NewAwaited'
    BY <1>5 DEF Open, CopyStep, Fails, NewAwaited, Undecided
  <2> QED
    BY <2>1, <2>2, <2>3, <2>4, <2>5
<1>6. CASE Drop(p) /\ CopyStep(p)
  <2>1. MarkerIsTrue'
    BY <1>6 DEF Drop, CopyStep, MarkerIsTrue
  <2>2. OldInPlace'
    BY <1>6 DEF Drop, OldInPlace, Moving
  <2>3. OldBackedUp'
    BY <1>6 DEF Drop, CopyStep, OldBackedUp, Undecided, Moving, Updating
  <2>4. OldRestored'
    BY <1>6 DEF Drop, CopyStep, OldRestored, Undecided, Updating
  <2>5. NewAwaited'
    BY <1>6 DEF Drop, CopyStep, NewAwaited, Undecided
  <2> QED
    BY <2>1, <2>2, <2>3, <2>4, <2>5
<1>7. CASE Aside(p) /\ CopyStep(p)
  <2>1. MarkerIsTrue'
    BY <1>7 DEF Aside, CopyStep, MarkerIsTrue
  <2>2. OldInPlace'
    BY <1>7 DEF Aside, Fails, OldInPlace, Undecided, Moving
  <2>3. OldBackedUp'
    BY <1>7 DEF Aside, CopyStep, Fails, OldBackedUp, Undecided, Moving, Updating
  <2>4. OldRestored'
    BY <1>7 DEF Aside, CopyStep, Fails, OldRestored, Undecided, OneBusy, Busy, Updating
  <2>5. NewAwaited'
    BY <1>7 DEF Aside, CopyStep, Fails, NewAwaited, Undecided, OneBusy, Busy
  <2> QED
    BY <2>1, <2>2, <2>3, <2>4, <2>5
<1>8. CASE Swap(p) /\ CopyStep(p)
  <2>1. MarkerIsTrue'
    BY <1>8 DEF Swap, CopyStep, MarkerIsTrue
  <2>2. OldInPlace'
    BY <1>8 DEF Swap, CopyStep, AfterSwap, OldInPlace, OldRestored, Undecided, Moving
  <2>3. OldBackedUp'
    BY <1>8 DEF Swap, CopyStep, OldBackedUp, Undecided, Moving, Updating
  <2>4. OldRestored'
    BY <1>8 DEF Swap, CopyStep, AfterSwap, OldRestored, Undecided, OneBusy, Busy, Updating
  <2>5. NewAwaited'
    BY <1>8 DEF Swap, CopyStep, AfterSwap, NewAwaited, Undecided, OneBusy, Busy
  <2> QED
    BY <2>1, <2>2, <2>3, <2>4, <2>5
<1>9. CASE Back(p) /\ CopyStep(p)
  <2>1. MarkerIsTrue'
    BY <1>9 DEF Back, CopyStep, MarkerIsTrue
  <2>2. OldInPlace'
    BY <1>9 DEF Back, Fails, OldInPlace, Undecided, Moving
  <2>3. OldBackedUp'
    BY <1>9 DEF Back, CopyStep, Fails, OldBackedUp, Undecided, Moving, Updating
  <2>4. OldRestored'
    BY <1>9 DEF Back, CopyStep, Fails, OldRestored, Undecided, OneBusy, Busy, Updating
  <2>5. NewAwaited'
    BY <1>9 DEF Back, CopyStep, Fails, NewAwaited, Undecided, OneBusy, Busy
  <2> QED
    BY <2>1, <2>2, <2>3, <2>4, <2>5
<1>10. CASE Verify(p) /\ CopyStep(p)
  <2>1. MarkerIsTrue'
    BY <1>10 DEF Verify, CopyStep, MarkerIsTrue
  <2>2. OldInPlace'
    BY <1>10 DEF Verify, Fails, OldInPlace, Undecided, Moving
  <2>3. OldBackedUp'
    BY <1>10 DEF Verify, CopyStep, Fails, OldBackedUp, Undecided, Moving, Updating
  <2>4. OldRestored'
    BY <1>10 DEF Verify, CopyStep, Fails, OldRestored, Undecided, Updating
  <2>5. NewAwaited'
    BY <1>10 DEF Verify, CopyStep, Fails, NewAwaited, Undecided
  <2> QED
    BY <2>1, <2>2, <2>3, <2>4, <2>5
<1>11. CASE Start(p)
  <2>1. MarkerIsTrue'
    BY <1>11 DEF Start, MarkerIsTrue
  <2>2. OldInPlace'
    BY <1>11 DEF Start, OldInPlace, OldRestored, Undecided, Moving
  <2>3. OldBackedUp'
    BY <1>11 DEF Start, OldBackedUp, Undecided, Moving, Updating
  <2>4. OldRestored'
    BY <1>11 DEF Start, OldRestored, Undecided, Updating
  <2>5. NewAwaited'
    BY <1>11 DEF Start, Started, NewAwaited, Undecided, UpdaterAlone, Calm, OneBusy, Busy,
       OwnProgram, Alone
  <2> QED
    BY <2>1, <2>2, <2>3, <2>4, <2>5
<1>12. CASE Wait(p)
  <2>1. MarkerIsTrue'
    BY <1>12 DEF Wait, MarkerIsTrue
  <2>2. OldInPlace'
    BY <1>12 DEF Wait, OldInPlace, NewAwaited, MarkerIsTrue, Undecided, Moving, Expected,
       Versions
  <2>3. OldBackedUp'
    BY <1>12 DEF Wait, OldBackedUp, Undecided, Moving, OneBusy, Busy, Updating
  <2>4. OldRestored'
    BY <1>12 DEF Wait, OldRestored, Undecided, Updating
  <2>5. NewAwaited'
    BY <1>12 DEF Wait, NewAwaited, Undecided
  <2> QED
    BY <2>1, <2>2, <2>3, <2>4, <2>5
<1>13. CASE Kill(p)
  <2>1. MarkerIsTrue'
    BY <1>13 DEF Kill, MarkerIsTrue
  <2>2. OldInPlace'
    BY <1>13 DEF Kill, OldInPlace, Moving
  <2>3. OldBackedUp'
    BY <1>13 DEF Kill, OldBackedUp, Undecided, Moving, Updating
  <2>4. OldRestored'
    BY <1>13 DEF Kill, OldRestored, Undecided, Updating
  <2>5. NewAwaited'
    BY <1>13 DEF Kill, NoProgram, NewAwaited, Undecided
  <2> QED
    BY <2>1, <2>2, <2>3, <2>4, <2>5
<1>14. CASE AwaitParent(p)
  <2>1. MarkerIsTrue'
    BY <1>14 DEF AwaitParent, MarkerIsTrue
  <2>2. OldInPlace'
    BY <1>14 DEF AwaitParent, OldInPlace, Undecided, Moving
  <2>3. OldBackedUp'
    BY <1>14 DEF AwaitParent, OldBackedUp, Roles, OneBusy, Busy, Undecided, Moving
  <2>4. OldRestored'
    BY <1>14 DEF AwaitParent, OldRestored, Undecided
  <2>5. NewAwaited'
    BY <1>14 DEF AwaitParent, NewAwaited, Undecided
  <2> QED
    BY <2>1, <2>2, <2>3, <2>4, <2>5
<1>15. CASE Sweep(p)
  <2>1. MarkerIsTrue'
    BY <1>15 DEF Sweep, MarkerIsTrue
  <2>2. OldInPlace'
    BY <1>15 DEF Sweep, OldInPlace, Undecided, Moving
  <2>3. OldBackedUp'
    BY <1>15 DEF Sweep, OldBackedUp, Roles, OneBusy, Busy, Undecided, Moving
  <2>4. OldRestored'
    BY <1>15 DEF Sweep, OldRestored, Undecided
  <2>5. NewAwaited'
    BY <1>15 DEF Sweep, NewAwaited, Undecided
  <2> QED
    BY <2>1, <2>2, <2>3, <2>4, <2>5
<1> QED
  BY <1>1, <1>2, <1>3, <1>4, <1>5, <1>6, <1>7, <1>8, <1>9, <1>10, <1>11, <1>12, <1>13, <1>14,
     <1>15 DEF MoverStep, CopyStep

LEMMA HealthyRest ==
    ASSUME Typed, Safe, Healthy, AppStep \/ Leaves \/ User \/ UNCHANGED vars
    PROVE  Healthy'
<1> USE DEF Typed, FilesTyped, ProgramTyped, MoversTyped, HistoryTyped, Safe, Healthy, Restores,
        Goto, history, files, program, movers, FilesButSwap, Movers
<1>1. CASE Repaired /\ AppStep
  <2>1. MarkerIsTrue'
    BY <1>1 DEF Repaired, MarkerIsTrue
  <2>2. OldInPlace'
    BY <1>1 DEF Repaired, AppStep, Repair, OldInPlace, Undecided
  <2>3. OldBackedUp'
    BY <1>1 DEF Repaired, AppStep, OldBackedUp, Undecided, Updating
  <2>4. OldRestored'
    BY <1>1 DEF Repaired, AppStep, Repair, OldRestored, Undecided, Updating
  <2>5. NewAwaited'
    BY <1>1 DEF Repaired, AppStep, Repair, NewAwaited, Undecided
  <2> QED
    BY <2>1, <2>2, <2>3, <2>4, <2>5
<1>2. CASE MarksHealthy /\ AppStep
  <2>1. MarkerIsTrue'
    BY <1>2 DEF MarksHealthy, MarkerIsTrue
  <2>2. OldInPlace'
    BY <1>2 DEF MarksHealthy, AppStep, OldInPlace, Undecided
  <2>3. OldBackedUp'
    BY <1>2 DEF MarksHealthy, AppStep, OldBackedUp, Undecided, Updating
  <2>4. OldRestored'
    BY <1>2 DEF MarksHealthy, AppStep, OldRestored, Undecided, Updating
  <2>5. NewAwaited'
    BY <1>2 DEF MarksHealthy, AppStep, NewAwaited, Undecided
  <2> QED
    BY <2>1, <2>2, <2>3, <2>4, <2>5
<1>3. CASE Checks /\ AppStep
  <2>1. MarkerIsTrue'
    BY <1>3 DEF Checks, MarkerIsTrue
  <2>2. OldInPlace'
    BY <1>3 DEF Checks, AppStep, OldInPlace, Undecided
  <2>3. OldBackedUp'
    BY <1>3 DEF Checks, AppStep, OldBackedUp, Undecided, Updating
  <2>4. OldRestored'
    BY <1>3 DEF Checks, AppStep, OldRestored, Undecided, Updating
  <2>5. NewAwaited'
    BY <1>3 DEF Checks, AppStep, NewAwaited, Undecided
  <2> QED
    BY <2>1, <2>2, <2>3, <2>4, <2>5
<1>4. CASE Cleans /\ AppStep
  <2>1. MarkerIsTrue'
    BY <1>4 DEF Cleans, MarkerIsTrue
  <2>2. OldInPlace'
    BY <1>4 DEF Cleans, AppStep, OldInPlace, Undecided
  <2>3. OldBackedUp'
    BY <1>4 DEF Cleans, AppStep, OldBackedUp, Undecided, Moving, Busy, Updating
  <2>4. OldRestored'
    BY <1>4 DEF Cleans, AppStep, OldRestored, Undecided
  <2>5. NewAwaited'
    BY <1>4 DEF Cleans, AppStep, NewAwaited, Undecided
  <2> QED
    BY <2>1, <2>2, <2>3, <2>4, <2>5
<1>5. CASE Leaves
  <2>1. MarkerIsTrue'
    BY <1>5 DEF Leaves, MarkerIsTrue
  <2>2. OldInPlace'
    BY <1>5 DEF Leaves, OldInPlace, Undecided
  <2>3. OldBackedUp'
    BY <1>5 DEF Leaves, OldBackedUp, Undecided, Updating
  <2>4. OldRestored'
    BY <1>5 DEF Leaves, OldRestored, Undecided, Updating
  <2>5. NewAwaited'
    BY <1>5 DEF Leaves, NoProgram, NewAwaited, Undecided
  <2> QED
    BY <2>1, <2>2, <2>3, <2>4, <2>5
<1>6. CASE Stage
  <2>1. MarkerIsTrue'
    BY <1>6 DEF Stage, MarkerIsTrue
  <2>2. OldInPlace'
    BY <1>6 DEF Stage, OldInPlace, Undecided, Moving
  <2>3. OldBackedUp'
    BY <1>6 DEF Stage, OldBackedUp, Undecided, Moving, Updating
  <2>4. OldRestored'
    BY <1>6 DEF Stage, OldRestored, Undecided, Updating
  <2>5. NewAwaited'
    BY <1>6 DEF Stage, NewAwaited
  <2> QED
    BY <2>1, <2>2, <2>3, <2>4, <2>5
<1>7. CASE AskHelper
  <2>1. MarkerIsTrue'
    BY <1>7 DEF AskHelper, MarkerIsTrue
  <2>2. OldInPlace'
    BY <1>7 DEF AskHelper, OldInPlace, Undecided, Moving
  <2>3. OldBackedUp'
    BY <1>7 DEF AskHelper, OldBackedUp, Undecided, Moving, Updating
  <2>4. OldRestored'
    BY <1>7 DEF AskHelper, OldRestored, Undecided, Updating
  <2>5. NewAwaited'
    BY <1>7 DEF AskHelper, NewAwaited, Undecided
  <2> QED
    BY <2>1, <2>2, <2>3, <2>4, <2>5
<1>8. CASE StartByHand
  <2>1. MarkerIsTrue'
    BY <1>8 DEF StartByHand, MarkerIsTrue
  <2>2. OldInPlace'
    BY <1>8 DEF StartByHand, OldInPlace, Undecided
  <2>3. OldBackedUp'
    BY <1>8 DEF StartByHand, OldBackedUp, Undecided
  <2>4. OldRestored'
    BY <1>8 DEF StartByHand, OldRestored, Undecided
  <2>5. NewAwaited'
    BY <1>8 DEF StartByHand, NewAwaited, Undecided, Busy, Updating
  <2> QED
    BY <2>1, <2>2, <2>3, <2>4, <2>5
<1>9. CASE Close
  <2>1. MarkerIsTrue'
    BY <1>9 DEF Close, MarkerIsTrue
  <2>2. OldInPlace'
    BY <1>9 DEF Close, OldInPlace, Undecided, Moving, Busy, Updating
  <2>3. OldBackedUp'
    BY <1>9 DEF Close, OldBackedUp, Undecided, Moving
  <2>4. OldRestored'
    BY <1>9 DEF Close, OldRestored, Undecided
  <2>5. NewAwaited'
    BY <1>9 DEF Close, NoProgram, NewAwaited, Undecided
  <2> QED
    BY <2>1, <2>2, <2>3, <2>4, <2>5
<1>10. CASE PowerCut
  <2>1. MarkerIsTrue'
    BY <1>10 DEF PowerCut, MarkerIsTrue
  <2>2. OldInPlace'
    BY <1>10 DEF PowerCut, OldInPlace, Undecided
  <2>3. OldBackedUp'
    BY <1>10 DEF PowerCut, OldBackedUp, Undecided
  <2>4. OldRestored'
    BY <1>10 DEF PowerCut, OldRestored
  <2>5. NewAwaited'
    BY <1>10 DEF PowerCut, NewAwaited
  <2> QED
    BY <2>1, <2>2, <2>3, <2>4, <2>5
<1>11. CASE UNCHANGED vars
  <2>1. MarkerIsTrue'
    BY <1>11 DEF vars, MarkerIsTrue
  <2>2. OldInPlace'
    BY <1>11 DEF vars, OldInPlace, Undecided
  <2>3. OldBackedUp'
    BY <1>11 DEF vars, OldBackedUp, Undecided, Updating
  <2>4. OldRestored'
    BY <1>11 DEF vars, OldRestored, Undecided, Updating
  <2>5. NewAwaited'
    BY <1>11 DEF vars, NewAwaited, Undecided
  <2> QED
    BY <2>1, <2>2, <2>3, <2>4, <2>5
<1> QED
  BY <1>1, <1>2, <1>3, <1>4, <1>5, <1>6, <1>7, <1>8, <1>9, <1>10, <1>11
     DEF AppStep, User, ApplyLocal, InstallOnline

LEMMA HealthyNext == Typed /\ Safe /\ Healthy /\ [Next]_vars => Healthy'
BY HealthyMover, HealthyRest DEF Next

(* However often copies fail and are repeated, a mover that is through     *)
(* leaves a new version in place only if that one wrote its marker.        *)
THEOREM OnlyHealthy == Spec => []OnlyHealthyStays
<1>1. Safe /\ Healthy => OnlyHealthyStays
  BY DEF Healthy, Restores, OldInPlace, Undecided, OnlyHealthyStays, Updating, Busy, Moving
<1> QED
  BY TypedInit, TypedNext, SafeInit, SafeNext, HealthyInit, HealthyNext, <1>1, PTL DEF Spec

=============================================================================
