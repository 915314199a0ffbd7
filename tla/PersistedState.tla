--------------------------- MODULE PersistedState ---------------------------
(***************************************************************************)
(* One of the four files that hold the program's state (config.json,       *)
(* manual_decisions.json, index.gob.gz, last_results.json.gz), from a save *)
(* under persistMu (main.go) to the recovery that every start of the       *)
(* program runs before anything else, with the known-good copy refreshed   *)
(* every three seconds (persistence_recovery.go).                          *)
(*                                                                         *)
(* config.json is rewritten in place; the others are written to <file>.tmp *)
(* and renamed.  Copies made by recovery and backup go to <copy>.recovering*)
(* and are put in place by replaceCacheFileV85.  A file system call is a   *)
(* step that may fail, and a process may end before any step.              *)
(***************************************************************************)
EXTENDS Integers

CONSTANTS
    MaxVersion,   \* bound on the changes of the state
    MaxLaunches,  \* bound on the starts of the program
    MaxTime,      \* bound on the modification times when a save begins
    Missing,      \* there is no such file
    Torn          \* a file that does not validate

ASSUME PersistAssumption ==
    /\ MaxVersion \in Nat /\ MaxLaunches \in Nat /\ MaxTime \in Nat
    /\ Missing # Torn
    /\ {Missing, Torn} \cap Nat = {}

VARIABLES
    inPlace,   \* which file: config.json is rewritten in place
    data,      \* what the file and its companions hold
    time,      \* their modification times
    clock,     \* the last modification time given
    live,      \* the program runs, past its claim of the single instance
    memory,    \* the version of the state in its memory
    latest,    \* the last version produced
    saver,     \* the save in progress; persistMu admits one
    copier,    \* the 3 s backup of the live program, and a starting program
    launches,  \* starts so far
    saved,     \* history: the last version whose save returned nil
    backed,    \* history: the version last put into the known-good copy
    intruded,  \* history: a program was started beside a live one
    defeated   \* history: a failure that recovery has no answer to has happened

vars == <<inPlace, data, time, clock, live, memory, latest, saver, copier,
          launches, saved, backed, intruded, defeated>>
history == <<saved, backed, intruded, defeated>>

Files == {"primary", "primary.recovering", "primary.old", "tmp",
          "bak", "bak.recovering", "bak.old"}
Versions == 0 .. MaxVersion
Contents == Versions \cup {Missing, Torn}

Rec(f) == IF f = "primary" THEN "primary.recovering" ELSE "bak.recovering"
Old(f) == IF f = "primary" THEN "primary.old" ELSE "bak.old"

CopySteps == {"copy", "recheck", "rename", "aside", "swap", "rollback", "last"}
LaunchSteps == {"recover", "clear", "restore", "snapshot", "claim"}
Copiers == {"backup", "launch"}
At(l, ok, stamp) ==
    [at |-> l, from |-> "primary", to |-> "bak", ok |-> ok, seen |-> 0, stamp |-> stamp]
Idle == At("idle", FALSE, 0)

TypeOK ==
    /\ inPlace \in BOOLEAN
    /\ data \in [Files -> Contents]
    /\ time \in [Files -> Nat]
    /\ clock \in Nat
    /\ live \in BOOLEAN
    /\ memory \in Versions
    /\ latest \in Versions
    /\ saver \in [at : {"idle", "open", "write", "rename"}, held : Versions]
    /\ copier \in [Copiers -> [at : CopySteps \cup LaunchSteps \cup {"idle"},
                               from : {"primary", "tmp", "bak"}, to : {"primary", "bak"},
                               ok : BOOLEAN, seen : Nat, stamp : Nat]]
    /\ launches \in 0 .. MaxLaunches
    /\ saved \in Versions
    /\ backed \in Versions
    /\ intruded \in BOOLEAN
    /\ defeated \in BOOLEAN

Init ==
    /\ inPlace \in BOOLEAN
    /\ data = [f \in Files |-> Missing]
    /\ time = [f \in Files |-> 0]
    /\ clock = 0
    /\ live = FALSE
    /\ memory = 0
    /\ latest = 0
    /\ saver = [at |-> "idle", held |-> 0]
    /\ copier = [c \in Copiers |-> Idle]
    /\ launches = 0
    /\ saved = 0
    /\ backed = 0
    /\ intruded = FALSE
    /\ defeated = FALSE

(* validate...FileV85: only a complete file decodes to its end. *)
Valid(f) == data[f] \in Versions

(* A file gets new contents and a modification time.  The times of the     *)
(* known-good copy, of its companions and of files that do not validate are*)
(* never looked at.                                                        *)
Write(f, c) ==
    /\ data' = [data EXCEPT ![f] = c]
    /\ IF f \in {"primary", "tmp", "primary.recovering"} /\ c # Torn
         THEN clock' = clock + 1 /\ time' = [time EXCEPT ![f] = clock']
         ELSE UNCHANGED <<clock, time>>

(* A rename keeps the modification time. *)
Move(f, g) ==
    /\ data[f] # Missing
    /\ data' = [data EXCEPT ![g] = data[f], ![f] = Missing]
    /\ time' = [time EXCEPT ![g] = time[f], ![f] = 0]
    /\ UNCHANGED clock

Drop(f) == data' = [data EXCEPT ![f] = Missing] /\ UNCHANGED <<time, clock>>
Kept == UNCHANGED <<data, time, clock>>

-----------------------------------------------------------------------------
(* The live program: its state changes, and is saved under persistMu. *)

Change ==
    /\ live
    /\ latest < MaxVersion
    /\ latest' = latest + 1
    /\ memory' = latest'
    /\ UNCHANGED <<data, time, clock, live, saver, copier, launches, history>>

SaverOnly == UNCHANGED <<live, memory, latest, copier, launches>>

(* The file a save writes. *)
Target == IF inPlace THEN "primary" ELSE "tmp"

BeginSave ==
    /\ live
    /\ saver.at = "idle"
    /\ clock < MaxTime
    /\ saver' = [at |-> "open", held |-> memory]
    /\ Kept /\ SaverOnly /\ UNCHANGED history

(* os.Create, or the opening half of os.WriteFile. *)
OpenTarget ==
    /\ saver.at = "open"
    /\ \/ Write(Target, Torn) /\ saver' = [saver EXCEPT !.at = "write"]
       \/ Kept /\ saver' = [saver EXCEPT !.at = "idle"]
    /\ SaverOnly /\ UNCHANGED history

(* The save of a file rewritten in place ends here.  When the write fails  *)
(* the temporary file stays, or is removed by saveResults.                 *)
WriteTarget ==
    /\ saver.at = "write"
    /\ \/ /\ Write(Target, saver.held)
          /\ saver' = [saver EXCEPT !.at = IF Target = "primary" THEN "idle" ELSE "rename"]
          /\ saved' = IF Target = "primary" THEN saver.held ELSE saved
       \/ /\ Kept \/ (Target = "tmp" /\ Drop("tmp"))
          /\ saver' = [saver EXCEPT !.at = "idle"]
          /\ UNCHANGED saved
    /\ SaverOnly /\ UNCHANGED <<backed, intruded, defeated>>

(* The final rename; when it fails the complete temporary file stays. *)
RenameTmp ==
    /\ saver.at = "rename"
    /\ saver' = [saver EXCEPT !.at = "idle"]
    /\ \/ Move("tmp", "primary") /\ saved' = saver.held
       \/ Kept /\ UNCHANGED saved
    /\ SaverOnly /\ UNCHANGED <<backed, intruded, defeated>>

-----------------------------------------------------------------------------
(* copyValidatedPersistenceV85 and replaceCacheFileV85, as a copier (the   *)
(* backup or a starting program) runs them.                                *)

CopierOnly == UNCHANGED <<live, memory, latest, saver, launches, saved, intruded>>

Goto(a, l) == copier' = [copier EXCEPT ![a].at = l]

StartCopy(a, f, g) ==
    copier' = [copier EXCEPT ![a] = [at |-> "copy", from |-> f, to |-> g, ok |-> @.ok,
                                     seen |-> time[f], stamp |-> @.stamp]]

(* Where a copier goes when its copy is made, or has failed: the backup    *)
(* remembers the stamp it copied, recovery tries the known-good copy.      *)
After(a, good) ==
    LET c == copier[a]
        l == IF a = "backup" THEN "idle"
             ELSE [primary |-> "claim", bak |-> "snapshot",
                   tmp |-> IF good THEN "clear" ELSE "restore"][c.from]
        s == IF good /\ c.from = "primary" THEN c.seen ELSE c.stamp
    IN copier' = [copier EXCEPT ![a] = At(l, c.ok, s)]

Placed(a) ==
    /\ After(a, TRUE)
    /\ backed' = IF copier[a].to = "bak" /\ Valid(Rec("bak")) THEN data[Rec("bak")] ELSE backed
    /\ UNCHANGED defeated

(* Recovery has no answer to its own failure when the primary was no good. *)
Failed(a) ==
    /\ After(a, FALSE)
    /\ defeated' = (defeated \/ (copier[a].to = "primary" /\ ~copier[a].ok))
    /\ UNCHANGED backed

Proceed(a, l) == Goto(a, l) /\ UNCHANGED <<backed, defeated>>

(* A fresh <copy>.recovering gets what the source holds by now. *)
Copy(a) ==
    LET c == copier[a] IN
    /\ c.at = "copy"
    /\ \/ /\ data[c.from] # Missing
          /\ Write(Rec(c.to), data[c.from])
          /\ Proceed(a, "recheck")
       \/ Drop(Rec(c.to)) /\ Failed(a)
    /\ CopierOnly

(* Faulty variant: the copy is not validated. *)
Recheck_Trusting(a) ==
    /\ copier[a].at = "recheck"
    /\ Kept /\ Proceed(a, "rename")
    /\ CopierOnly

(* The copy itself is validated. *)
Recheck(a) ==
    LET rec == Rec(copier[a].to) IN
    /\ copier[a].at = "recheck"
    /\ IF Valid(rec) THEN Kept /\ Proceed(a, "rename") ELSE Drop(rec) /\ Failed(a)
    /\ CopierOnly

(* replaceCacheFileV85: the rename over the destination; if it fails the   *)
(* destination is moved aside first, if it exists.                         *)
RenameCopy(a) ==
    LET c == copier[a] IN
    /\ c.at = "rename"
    /\ \/ Move(Rec(c.to), c.to) /\ Placed(a)
       \/ Kept /\ Proceed(a, IF data[c.to] = Missing THEN "last" ELSE "aside")
    /\ CopierOnly

MoveAside(a) ==
    LET c == copier[a] IN
    /\ c.at = "aside"
    /\ \/ Move(c.to, Old(c.to)) /\ Proceed(a, "swap")
       \/ Drop(Rec(c.to)) /\ Failed(a)
    /\ CopierOnly

SwapIn(a) ==
    LET c == copier[a] IN
    /\ c.at = "swap"
    /\ \/ Move(Rec(c.to), c.to) /\ Placed(a)
       \/ Kept /\ Proceed(a, "rollback")
    /\ CopierOnly

(* When the destination cannot be brought back it is lost to recovery.     *)
RollBack(a) ==
    LET c == copier[a] IN
    /\ c.at = "rollback"
    /\ \/ Move(Old(c.to), c.to) /\ Failed(a)
       \/ Drop(Rec(c.to)) /\ After(a, FALSE) /\ defeated' = TRUE /\ UNCHANGED backed
    /\ CopierOnly

RenameLast(a) ==
    LET c == copier[a] IN
    /\ c.at = "last"
    /\ \/ Move(Rec(c.to), c.to) /\ Placed(a)
       \/ Drop(Rec(c.to)) /\ Failed(a)
    /\ CopierOnly

CopyStep(a) ==
    \/ Copy(a) \/ Recheck(a) \/ RenameCopy(a) \/ MoveAside(a)
    \/ SwapIn(a) \/ RollBack(a) \/ RenameLast(a)

(* snapshotPersistenceDirV85, every three seconds: a primary with a new    *)
(* stamp that validates is copied over the known-good copy.                *)
BackupTick ==
    /\ live
    /\ copier["backup"].at = "idle"
    /\ Valid("primary")
    /\ copier["backup"].stamp # time["primary"]
    /\ StartCopy("backup", "primary", "bak")
    /\ Kept /\ CopierOnly /\ UNCHANGED <<backed, defeated>>

-----------------------------------------------------------------------------
(* A start of the program.  The recovery is a package-level initialiser: it*)
(* runs before the init function that claims the single instance, so also  *)
(* when the program is already running.                                    *)

LaunchOnly == Kept /\ CopierOnly /\ UNCHANGED <<backed, defeated>>

Launch ==
    /\ copier["launch"].at = "idle"
    /\ launches < MaxLaunches
    /\ launches' = launches + 1
    /\ copier' = [copier EXCEPT !["launch"] = At("recover", FALSE, 0)]
    /\ intruded' = (intruded \/ live)
    /\ Kept /\ UNCHANGED <<live, memory, latest, saver, saved, backed, defeated>>

(* A complete temporary file that is newer than the primary, or all there is. *)
Pending == Valid("tmp") /\ (~Valid("primary") \/ time["tmp"] > time["primary"])

Recover ==
    /\ copier["launch"].at = "recover"
    /\ IF Pending
         THEN copier' = [copier EXCEPT !["launch"] =
                [at |-> "copy", from |-> "tmp", to |-> "primary", ok |-> Valid("primary"),
                 seen |-> 0, stamp |-> 0]]
         ELSE copier' = [copier EXCEPT !["launch"] = At("restore", Valid("primary"), 0)]
    /\ LaunchOnly

(* The promoted temporary file is removed, if that works. *)
ClearPending ==
    /\ copier["launch"].at = "clear"
    /\ Kept \/ Drop("tmp")
    /\ Goto("launch", "snapshot")
    /\ CopierOnly /\ UNCHANGED <<backed, defeated>>

(* Faulty variant: the known-good copy replaces a good primary. *)
Restore_Always ==
    /\ copier["launch"].at = "restore"
    /\ IF Valid("bak") THEN StartCopy("launch", "bak", "primary") ELSE Goto("launch", "snapshot")
    /\ LaunchOnly

(* The known-good copy, for a primary that did not validate. *)
Restore ==
    /\ copier["launch"].at = "restore"
    /\ IF ~copier["launch"].ok /\ Valid("bak")
         THEN StartCopy("launch", "bak", "primary")
         ELSE Goto("launch", "snapshot")
    /\ LaunchOnly

(* The first snapshot, before the three second loop starts. *)
Snapshot ==
    /\ copier["launch"].at = "snapshot"
    /\ IF Valid("primary") THEN StartCopy("launch", "primary", "bak") ELSE Goto("launch", "claim")
    /\ LaunchOnly

(* loadConfig, loadIndex, loadResults, loadDecisions. *)
Loaded == IF Valid("primary") THEN data["primary"] ELSE 0

(* Beside a live program the new one exits.  Otherwise it goes live, loads *)
(* the primary, and its backup loop goes on from the stamps it has.        *)
Claim ==
    /\ copier["launch"].at = "claim"
    /\ live' = TRUE
    /\ memory' = IF live THEN memory ELSE Loaded
    /\ copier' = [copier EXCEPT !["launch"] = Idle,
                                !["backup"] = IF live THEN @ ELSE At("idle", FALSE, copier["launch"].stamp)]
    /\ Kept /\ UNCHANGED <<latest, saver, launches, history>>

-----------------------------------------------------------------------------
(* Processes end at any point. *)

(* The known-good copy is moved aside; nothing looks for it there. *)
BackupAside(a) == copier[a].at \in {"swap", "rollback"} /\ copier[a].to = "bak"

LiveEnds ==
    /\ live
    /\ live' = FALSE
    /\ saver' = [at |-> "idle", held |-> 0]
    /\ copier' = [copier EXCEPT !["backup"] = Idle]
    /\ defeated' = (defeated \/ BackupAside("backup"))
    /\ memory' = 0
    /\ Kept /\ UNCHANGED <<latest, launches, saved, backed, intruded>>

LaunchEnds ==
    /\ copier["launch"].at # "idle"
    /\ copier' = [copier EXCEPT !["launch"] = Idle]
    /\ defeated' = (defeated \/ BackupAside("launch"))
    /\ Kept /\ UNCHANGED <<live, memory, latest, saver, launches, saved, backed, intruded>>

Step ==
    \/ Change \/ BeginSave \/ OpenTarget \/ WriteTarget \/ RenameTmp
    \/ BackupTick \/ \E a \in Copiers : CopyStep(a)
    \/ Launch \/ Recover \/ ClearPending \/ Restore \/ Snapshot \/ Claim
    \/ LiveEnds \/ LaunchEnds

Next == Step /\ UNCHANGED inPlace

Spec == Init /\ [][Next]_vars

-----------------------------------------------------------------------------
(* Properties *)

(* What the next start would find, if no call of its recovery failed. *)
Recovered ==
    IF Pending THEN data["tmp"]
    ELSE IF Valid("primary") THEN data["primary"]
    ELSE IF Valid("bak") THEN data["bak"]
    ELSE 0

(* For index, results and decisions: a state whose save returned without an*)
(* error is never lost or set back, by a crash, a failed call, a recovery  *)
(* that fails half way or a backup made at any moment, and the program that*)
(* starts has it in memory.  Not so after two failures in a row that       *)
(* recovery cannot answer, or a program started beside the live one.       *)
SavedSurvives ==
    ~inPlace /\ ~intruded /\ ~defeated => Recovered >= saved /\ (live => memory >= saved)

(* For config.json, rewritten in place: whatever dies or fails, what the   *)
(* last finished backup holds is the least a restart finds; a half written *)
(* file is never mistaken for a good one, by recovery or by the backup.    *)
BackupSurvives ==
    ~intruded /\ ~defeated /\ (\A a \in Copiers : ~BackupAside(a)) => Recovered >= backed

(* ui_window_cleanup.go:96, a second launch must only restore the running  *)
(* instance and never clean up around it: it takes nothing back that the   *)
(* live program has put in place.                                          *)
SecondLaunchIsHarmless ==
    [][live /\ Valid("primary") /\ data'["primary"] \in Versions
         => data'["primary"] >= data["primary"]]_data

=============================================================================
