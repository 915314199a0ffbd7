--------------------------- MODULE NativeUpdater ----------------------------
(***************************************************************************)
(* How one executable replaces another (updater_native.go, the staging in  *)
(* v8_extra.go, the recovery helper, the clean-up after a healthy start).  *)
(* Two processes of their own can do it: the native updater, a copy of the *)
(* running program it started before it left, and the recovery helper,     *)
(* which outlives the program and is asked by a page that has lost its     *)
(* backend.  Each takes a backup, copies its new executable beside the     *)
(* current one, swaps the two by renames, starts the result and waits for  *)
(* its health marker; failing that, it puts the backup back.  Any file     *)
(* call may fail, and the machine may lose its power at any point.         *)
(***************************************************************************)
EXTENDS Naturals

CONSTANTS
    MaxFaults,   \* file calls that fail
    MaxEvents    \* power cuts, updates staged, starts and closes by the user

ASSUME UpdaterAssumption ==
    MaxFaults \in Nat /\ MaxEvents \in Nat

Movers == {"updater", "helper"}
Origins == Movers \cup {"user"}

VARIABLES
    (* files: what version they hold; "torn" is no program at all *)
    current, copying, replacing,
    backup,      \* of each mover
    pending,     \* the new executable, until it is cleaned up
    request,     \* apply_update.json
    health,      \* the version in health.ok
    (* the program *)
    app,         \* version of the instance that holds the mutex, or "none"
    origin,      \* who started it
    age,         \* how far its start-up tasks have come
    leaving,     \* it has staged an update and is about to end
    online,      \* whether the update says what version its marker must show
    (* the movers *)
    pc,
    source,      \* what a mover is copying to the current executable
    launched,    \* a mover has tried to start the new version
    helperAlive, \* the recovery helper runs
    adopted,     \* and knows the instance that is running
    (* bounds *)
    faults, events,
    (* history *)
    cut,         \* the power was cut during an update
    met,         \* both movers were at work at once
    meddled,     \* the user or a clean-up of the old instance took part in an update
    unbacked,    \* a mover gave up taking its backup
    unrestored,  \* a mover gave up putting it back
    confirmed    \* the new version has written its marker

files == <<current, copying, replacing, backup, pending, request, health>>
program == <<app, origin, age, leaving, adopted>>
movers == <<pc, source, launched>>
history == <<cut, met, meddled, unbacked, unrestored, confirmed>>
vars == <<files, program, online, movers, helperAlive, faults, events, history>>

Versions == {"old", "new"}
Contents == Versions \cup {"none", "torn"}
Ages == {"none", "started", "repaired", "healthy", "checked", "cleaned"}
PCs == {"idle", "fetch", "begin", "parent", "clean", "backup",
        "open", "drop", "aside", "swap", "back", "verify", "start", "wait", "sweep", "kill", "done"}

TypeOK ==
    /\ current \in Contents /\ copying \in Contents /\ replacing \in Contents
    /\ backup \in [Movers -> Contents]
    /\ pending \in [Movers -> BOOLEAN] /\ request \in BOOLEAN
    /\ health \in Versions \cup {"none"}
    /\ app \in Versions \cup {"none"} /\ origin \in Origins /\ age \in Ages
    /\ (app = "none") = (age = "none") /\ leaving \in BOOLEAN
    /\ online \in BOOLEAN
    /\ pc \in [Movers -> PCs]
    /\ source \in [Movers -> {"pending", "backup"}]
    /\ launched \in [Movers -> BOOLEAN]
    /\ helperAlive \in BOOLEAN /\ adopted \in BOOLEAN
    /\ faults \in 0 .. MaxFaults /\ events \in 0 .. MaxEvents
    /\ cut \in BOOLEAN /\ met \in BOOLEAN /\ meddled \in BOOLEAN
    /\ unbacked \in BOOLEAN /\ unrestored \in BOOLEAN /\ confirmed \in BOOLEAN

Init ==
    /\ current = "old" /\ copying = "none" /\ replacing = "none"
    /\ backup = [p \in Movers |-> "none"]
    /\ pending = [p \in Movers |-> FALSE] /\ request = FALSE
    /\ health = "none"
    /\ app = "old" /\ origin = "user" /\ age = "started" /\ leaving = FALSE
    /\ online \in BOOLEAN
    /\ pc = [p \in Movers |-> "idle"]
    /\ source = [p \in Movers |-> "pending"]
    /\ launched = [p \in Movers |-> FALSE]
    /\ helperAlive = FALSE /\ adopted = FALSE
    /\ faults = 0 /\ events = 0
    /\ cut = FALSE /\ met = FALSE /\ meddled = FALSE
    /\ unbacked = FALSE /\ unrestored = FALSE /\ confirmed = FALSE

-----------------------------------------------------------------------------
(* Helpers *)

Fault == faults < MaxFaults /\ faults' = faults + 1
Event == events < MaxEvents /\ events' = events + 1
Busy(p) == pc[p] \notin {"idle", "fetch", "done"}
Updating == \E p \in Movers : Busy(p)
Goto(p, l) == pc' = [pc EXCEPT ![p] = l]

(* The mutex: a second instance of the program leaves at once. *)
Started(by) ==
    IF app = "none"
    THEN /\ app' = current /\ origin' = by /\ age' = "started"
         /\ adopted' = FALSE /\ UNCHANGED leaving
    ELSE UNCHANGED program

NoProgram ==
    app' = "none" /\ age' = "none" /\ leaving' = FALSE /\ adopted' = FALSE /\ UNCHANGED origin

FilesButSwap == UNCHANGED <<backup, pending, request, health>>

-----------------------------------------------------------------------------
(* copyFileDurable to the current executable, from the new one or from the *)
(* backup, then replaceFile.                                               *)

From(p) == IF source[p] = "backup" THEN backup[p] ELSE IF pending[p] THEN "new" ELSE "none"

(* The updater tries for a minute, the helper once; the helper starts what *)
(* it restored only if it had started the new version.                     *)
Fails(p) ==
    \/ p = "updater" /\ Goto(p, "open") /\ UNCHANGED unrestored
    \/ source[p] = "pending" /\ Goto(p, "kill") /\ UNCHANGED unrestored
    \/ /\ source[p] = "backup"
       /\ Goto(p, IF p = "helper" /\ launched[p] THEN "start" ELSE "done")
       /\ unrestored' = TRUE

(* Faulty variant: what was restored is not started. *)
AfterSwap_JustRestores(p) == IF source[p] = "pending" THEN "verify" ELSE "done"

AfterSwap(p) ==
    IF source[p] = "pending" THEN "verify"
    ELSE IF p = "updater" \/ launched[p] THEN "start" ELSE "done"

(* copying is written as a whole, or a part of it is and it is removed; a  *)
(* mover that meets the file of the other may leave it torn.               *)
Open(p) ==
    /\ pc[p] = "open"
    /\ \/ /\ From(p) # "none"
          /\ copying' \in {From(p)} \cup
                (IF \E q \in Movers \ {p} : pc[q] \in {"drop", "aside", "swap"}
                 THEN {"torn"} ELSE {})
          /\ Goto(p, "drop")
          /\ UNCHANGED <<faults, unrestored>>
       \/ /\ From(p) # "none"
          /\ copying' = "none"
          /\ Fault /\ Fails(p)
       \/ From(p) = "none" /\ UNCHANGED <<copying, faults>> /\ Fails(p)
    /\ FilesButSwap
    /\ UNCHANGED <<current, replacing>>

Drop(p) ==
    /\ pc[p] = "drop"
    /\ \/ replacing' = "none" /\ UNCHANGED faults
       \/ replacing # "none" /\ Fault /\ UNCHANGED replacing
    /\ Goto(p, "aside")
    /\ FilesButSwap
    /\ UNCHANGED <<current, copying, unrestored>>

Aside(p) ==
    /\ pc[p] = "aside"
    /\ \/ /\ replacing' = IF current = "none" THEN replacing ELSE current
          /\ current' = "none"
          /\ Goto(p, "swap")
          /\ UNCHANGED <<copying, faults, unrestored>>
       \/ /\ Fault /\ Fails(p)
          /\ copying' = "none"
          /\ UNCHANGED <<current, replacing>>
    /\ FilesButSwap

Swap(p) ==
    /\ pc[p] = "swap"
    /\ \/ /\ copying # "none"
          /\ current' = copying
          /\ copying' = "none"
          /\ Goto(p, AfterSwap(p))
          /\ replacing' \in {"none", replacing}
          /\ UNCHANGED faults
       \/ /\ Goto(p, "back")
          /\ IF copying = "none" THEN UNCHANGED faults ELSE Fault
          /\ UNCHANGED <<current, copying, replacing>>
    /\ FilesButSwap
    /\ UNCHANGED unrestored

(* The error of the rename back is ignored. *)
Back(p) ==
    /\ pc[p] = "back"
    /\ \/ replacing # "none" /\ current' = replacing /\ replacing' = "none" /\ UNCHANGED faults
       \/ replacing = "none" /\ UNCHANGED <<current, replacing, faults>>
       \/ Fault /\ UNCHANGED <<current, replacing>>
    /\ copying' = "none"
    /\ Fails(p)
    /\ FilesButSwap

(* The SHA-256 of what is now the current executable. *)
Verify(p) ==
    /\ pc[p] = "verify"
    /\ \/ current = "new" /\ Goto(p, "start") /\ UNCHANGED <<faults, unrestored>>
       \/ current # "new" /\ Fails(p) /\ UNCHANGED faults
       \/ Fault /\ Fails(p)
    /\ UNCHANGED files

CopyStep(p) ==
    /\ Open(p) \/ Drop(p) \/ Aside(p) \/ Swap(p) \/ Back(p) \/ Verify(p)
    /\ UNCHANGED <<program, online, source, launched, helperAlive, events, cut, met,
                   meddled, unbacked, confirmed>>

-----------------------------------------------------------------------------
(* Both movers *)

(* repairInterruptedExecutable: only the two names of replaceFile. *)
Repair ==
    IF current = "none" /\ replacing = "none"
    THEN UNCHANGED <<current, copying, replacing>>
    ELSE /\ current' = IF current = "none" THEN replacing ELSE current
         /\ copying' = "none" /\ replacing' = "none"

(* The helper downloads the new executable and checks its SHA-256; when    *)
(* that fails it can be asked again.                                       *)
Fetch(p) ==
    /\ pc[p] = "fetch"
    /\ \/ /\ Goto(p, "begin")
          /\ pending' = [pending EXCEPT ![p] = TRUE]
          /\ met' = (met \/ Updating)
       \/ Goto(p, "idle") /\ UNCHANGED <<pending, met>>
    /\ UNCHANGED <<current, copying, replacing, backup, request, health, program, online,
                   source, launched, helperAlive, faults, events, cut, meddled, unbacked,
                   unrestored, confirmed>>

(* The updater reads its request; the helper kills the instance that       *)
(* adopted it, and repairs an interrupted swap first.                      *)
Begin(p) ==
    /\ pc[p] = "begin"
    /\ \/ /\ p = "updater"
          /\ Goto(p, IF request THEN "parent" ELSE "done")
          /\ UNCHANGED <<current, copying, replacing, program, faults>>
       \/ /\ p = "helper"
          /\ IF adopted THEN NoProgram ELSE UNCHANGED program
          /\ \/ Repair /\ Goto(p, IF current' = "none" THEN "done" ELSE "backup")
                /\ UNCHANGED faults
             \/ /\ current = "none" /\ Fault /\ Goto(p, "done")
                /\ UNCHANGED <<current, copying, replacing>>
    /\ FilesButSwap
    /\ UNCHANGED <<online, source, launched, helperAlive, events, history>>

(* Its parent must be gone before the updater touches the executable. *)
AwaitParent(p) ==
    /\ pc[p] = "parent"
    /\ ~leaving
    /\ Goto(p, "clean")
    /\ UNCHANGED <<files, program, online, source, launched, helperAlive, faults, events,
                   history>>

(* Backups of older updates are removed before the new one is taken. *)
CleanOld(p) ==
    /\ pc[p] = "clean"
    /\ backup' = [q \in Movers |-> "none"]
    /\ Goto(p, "backup")
    /\ UNCHANGED <<current, copying, replacing, pending, request, health, program,
                   online, source, launched, helperAlive, faults, events, history>>

(* Faulty variant: the backups are cleaned up after this one is taken. *)
Backup_CleansAfter(p) ==
    /\ pc[p] = "backup"
    /\ current # "none"
    /\ backup' = [q \in Movers |-> "none"]
    /\ Goto(p, "open") /\ UNCHANGED <<faults, unbacked>>
    /\ UNCHANGED <<current, copying, replacing, pending, request, health, program, online,
                   source, launched, helperAlive, events, cut, met, meddled, unrestored,
                   confirmed>>

(* An attempt of the updater that fails and is repeated changes nothing.   *)
Backup(p) ==
    /\ pc[p] = "backup"
    /\ \/ /\ current # "none"
          /\ backup' = [backup EXCEPT ![p] = current]
          /\ Goto(p, "open") /\ UNCHANGED <<faults, unbacked>>
       \/ /\ IF current = "none" THEN UNCHANGED faults ELSE Fault
          /\ UNCHANGED backup
          /\ Goto(p, "done") /\ unbacked' = TRUE
    /\ UNCHANGED <<current, copying, replacing, pending, request, health, program, online,
                   source, launched, helperAlive, events, cut, met, meddled, unrestored,
                   confirmed>>

(* Faulty variant: the marker of an earlier start is left in place. *)
Start_KeepsMarker(p) ==
    /\ pc[p] = "start"
    /\ launched' = [launched EXCEPT ![p] = TRUE]
    /\ \/ /\ current \in Versions
          /\ Started(p)
          /\ Goto(p, IF source[p] = "pending" THEN "wait" ELSE "done")
          /\ UNCHANGED <<faults, unrestored>>
       \/ /\ IF current \in Versions THEN Fault ELSE UNCHANGED faults
          /\ Goto(p, IF source[p] = "pending" THEN "kill" ELSE "done")
          /\ unrestored' = (unrestored \/ source[p] = "backup")
          /\ UNCHANGED program
    /\ UNCHANGED <<health, current, copying, replacing, backup, pending, request, online,
                   source, helperAlive, events, cut, met, meddled, unbacked, confirmed>>

(* The marker is removed and the current executable started. *)
Start(p) ==
    /\ pc[p] = "start"
    /\ health' = IF source[p] = "pending" THEN "none" ELSE health
    /\ launched' = [launched EXCEPT ![p] = TRUE]
    /\ \/ /\ current \in Versions
          /\ Started(p)
          /\ Goto(p, IF source[p] = "pending" THEN "wait" ELSE "done")
          /\ UNCHANGED <<faults, unrestored>>
       \/ /\ IF current \in Versions THEN Fault ELSE UNCHANGED faults
          /\ Goto(p, IF source[p] = "pending" THEN "kill" ELSE "done")
          /\ unrestored' = (unrestored \/ source[p] = "backup")
          /\ UNCHANGED program
    /\ UNCHANGED <<current, copying, replacing, backup, pending, request, online, source,
                   helperAlive, events, cut, met, meddled, unbacked, confirmed>>

(* A manifest gives the version; a local update is content with any. *)
Expected(p) == IF p = "helper" \/ online THEN {"new"} ELSE Versions

(* 35 seconds: a marker that matches, or the end of patience, which may    *)
(* come for a version that is only slow.                                   *)
Wait(p) ==
    /\ pc[p] = "wait"
    /\ \/ /\ health \in Expected(p) /\ p = "updater"
          /\ Goto(p, "sweep")
          /\ UNCHANGED <<pending, adopted>>
       \/ /\ health \in Expected(p) /\ p = "helper"
          /\ Goto(p, "done")
          /\ pending' = [pending EXCEPT ![p] = FALSE]
          /\ adopted' = (origin = p /\ app # "none")
       \/ /\ health \notin Expected(p)
          /\ Goto(p, "kill")
          /\ UNCHANGED <<pending, adopted>>
    /\ UNCHANGED <<current, copying, replacing, backup, request, health, app, origin, age,
                   leaving, online, source, launched, helperAlive, faults, events, history>>

(* A process of its own clears up once the updater is gone; if it cannot   *)
(* be started, the updater leaves the backups alone.                       *)
Sweep(p) ==
    /\ pc[p] = "sweep"
    /\ Goto(p, "done")
    /\ pending' = [pending EXCEPT ![p] = FALSE]
    /\ request' = FALSE
    /\ \/ /\ backup' = [q \in Movers |-> IF q = p THEN backup[q] ELSE "none"]
          /\ UNCHANGED faults
       \/ Fault /\ UNCHANGED backup
    /\ UNCHANGED <<current, copying, replacing, health, program, online, source, launched,
                   helperAlive, events, history>>

(* What it started is killed and the backup put back. *)
Kill(p) ==
    /\ pc[p] = "kill"
    /\ IF launched[p] /\ origin = p /\ app # "none" THEN NoProgram ELSE UNCHANGED program
    /\ source' = [source EXCEPT ![p] = "backup"]
    /\ Goto(p, "open")
    /\ UNCHANGED <<files, online, launched, helperAlive, faults, events, history>>

MoverStep(p) ==
    \/ Fetch(p) \/ Begin(p) \/ AwaitParent(p) \/ CleanOld(p) \/ Backup(p) \/ CopyStep(p)
    \/ Start(p) \/ Wait(p) \/ Sweep(p) \/ Kill(p)

-----------------------------------------------------------------------------
(* The program *)

(* Its start-up tasks: an interrupted swap is repaired, and the recovery   *)
(* helper adopts the new instance or is started; the marker is written;    *)
(* once that has been read back, the remains of an update are removed.  A  *)
(* new version that is no good never gets so far: see Fairness.            *)
Repaired ==
    /\ age = "started"
    /\ age' = "repaired"
    /\ helperAlive' = TRUE /\ adopted' = TRUE
    /\ Repair
    /\ FilesButSwap
    /\ UNCHANGED <<meddled, confirmed>>

MarksHealthy ==
    /\ age = "repaired"
    /\ age' = "healthy"
    /\ health' = app
    /\ confirmed' = (confirmed \/ app = "new")
    /\ UNCHANGED <<current, copying, replacing, backup, pending, request, helperAlive,
                   adopted, meddled>>

Checks ==
    /\ age = "healthy"
    /\ age' = IF health = app THEN "checked" ELSE "cleaned"
    /\ UNCHANGED <<files, helperAlive, adopted, meddled, confirmed>>

(* Everything but the newest backup is removed. *)
Cleans ==
    /\ age = "checked"
    /\ age' = "cleaned"
    /\ pending' = [pending EXCEPT !["updater"] = FALSE] /\ request' = FALSE
    /\ \E p \in Movers :
        /\ backup[p] # "none" \/ \A q \in Movers : backup[q] = "none"
        /\ backup' = [q \in Movers |-> IF q = p THEN backup[q] ELSE "none"]
    /\ meddled' = (meddled \/ Updating)
    /\ UNCHANGED <<current, copying, replacing, health, helperAlive, adopted, confirmed>>

AppStep ==
    /\ Repaired \/ MarksHealthy \/ Checks \/ Cleans
    /\ UNCHANGED <<app, origin, leaving, online, movers, faults, events, cut, met, unbacked,
                   unrestored>>

Leaves ==
    /\ leaving
    /\ NoProgram
    /\ UNCHANGED <<files, online, movers, helperAlive, faults, events, history>>

-----------------------------------------------------------------------------
(* The user, and the power *)

(* stageUpdateAndRestart: the new executable and the request are written,  *)
(* the updater, a copy of the executable that is in place, is started, and *)
(* 900 ms later the program leaves.                                        *)
Stage ==
    /\ Event
    /\ app = "old" /\ ~leaving
    /\ current \in Versions
    /\ pc["updater"] = "idle"
    /\ pending' = [pending EXCEPT !["updater"] = TRUE] /\ request' = TRUE
    /\ health' = "none"
    /\ Goto("updater", "begin")
    /\ leaving' = TRUE
    /\ met' = (met \/ Busy("helper"))
    /\ UNCHANGED <<current, copying, replacing, backup, app, origin, age, adopted, online,
                   source, launched, helperAlive, faults, cut, meddled, unbacked,
                   unrestored, confirmed>>

(* An executable the user has at hand, whose version nobody knows, or the  *)
(* one a manifest names, checked against its SHA-256.  A second click      *)
(* before the program leaves would start a second updater; that is left    *)
(* out, and so is an update by the instance that comes after.              *)
ApplyLocal == ~online /\ Stage
InstallOnline == online /\ Stage

(* A page without a backend asks the helper, unless it is at work. *)
AskHelper ==
    /\ Event
    /\ helperAlive
    /\ pc["helper"] \in {"idle", "done"}
    /\ Goto("helper", "fetch")
    /\ source' = [source EXCEPT !["helper"] = "pending"]
    /\ launched' = [launched EXCEPT !["helper"] = FALSE]
    /\ UNCHANGED <<files, program, online, helperAlive, faults, history>>

StartByHand ==
    /\ Event
    /\ app = "none" /\ current \in Versions
    /\ Started("user")
    /\ meddled' = (meddled \/ Updating)
    /\ UNCHANGED <<files, online, movers, helperAlive, faults, cut, met, unbacked,
                   unrestored, confirmed>>

(* A controlled end takes the helper along, whatever it is doing. *)
Close ==
    /\ Event
    /\ app # "none"
    /\ NoProgram
    /\ helperAlive' = FALSE
    /\ pc' = [pc EXCEPT !["helper"] = IF @ = "idle" THEN @ ELSE "done"]
    /\ meddled' = (meddled \/ Updating)
    /\ UNCHANGED <<files, online, source, launched, faults, cut, met, unbacked, unrestored,
                   confirmed>>

(* Outside an update a power cut is like Close. *)
PowerCut ==
    /\ Event
    /\ Updating
    /\ NoProgram
    /\ helperAlive' = FALSE
    /\ pc' = [p \in Movers |-> IF pc[p] = "idle" THEN "idle" ELSE "done"]
    /\ cut' = TRUE
    /\ UNCHANGED <<files, online, source, launched, faults, met, meddled, unbacked,
                   unrestored, confirmed>>

User == ApplyLocal \/ InstallOnline \/ AskHelper \/ StartByHand \/ Close \/ PowerCut

Next ==
    \/ \E p \in Movers : MoverStep(p)
    \/ AppStep
    \/ Leaves
    \/ User

(* The movers and the program run, but a new version may be slow to start  *)
(* or never come to it; the user does as they please.                      *)
Fairness ==
    /\ \A p \in Movers : WF_vars(MoverStep(p))
    /\ WF_vars(AppStep /\ (app = "new" => age # "started"))
    /\ WF_vars(Leaves)

Spec == Init /\ [][Next]_vars /\ Fairness

-----------------------------------------------------------------------------
(* Properties *)

(* Whatever fails, whenever the power goes and whatever the user starts or *)
(* closes meanwhile, a complete executable is left: in its place, or       *)
(* beside it under the name the repair looks for, or as a backup.  Not so  *)
(* if both movers were at work at once.                                    *)
ExecutableSurvives ==
    ~met => \/ current \in Versions
            \/ replacing \in Versions
            \/ \E p \in Movers : backup[p] \in Versions

(* A new version stays only if it has said that it is healthy: a mover     *)
(* that is through with its work has otherwise put the old one back.       *)
OnlyHealthyStays ==
    (~Updating /\ current # "old") =>
        confirmed \/ cut \/ met \/ meddled \/ unrestored

(* An update whose parent has left ends with the program running, the new  *)
(* version or the old, whatever the helper and the user do meanwhile.      *)
UpdateEndsRunning ==
    pc["updater"] = "clean" ~>
        app # "none" \/ cut \/ unbacked \/ unrestored

=============================================================================
