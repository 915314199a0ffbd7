---------------------------- MODULE MCComponents ----------------------------
(***************************************************************************)
(* The model-checking instance of six small specifications: the media      *)
(* caches, the queue file, the index of local files, the results table, the*)
(* history of downloads and the verdict on a file.  They share no state, so*)
(* each behaviour is one of one of them, which "of" names; the variables of*)
(* the others stay as they begin.                                          *)
(***************************************************************************)
EXTENDS CacheFile, QueueFile, LocalIndex, ResultsTable, FileVerdict, HistoryRegistry, TLC

VARIABLE of

(* The savers, the local files of FileVerdict and the remote files of the *)
(* others are the same two values, and so are the comparisons and the      *)
(* synchronisations: what is interchangeable in the specification that is  *)
(* followed is exchanged by the same few permutations.                     *)
Symmetry ==
    Permutations(Savers) \cup Permutations(Files) \cup Permutations(Remotes)
        \cup Permutations(Scans) \cup Permutations(Syncs)

(* The variables of a specification that is not followed: what its         *)
(* properties look at is as in the beginning, and the rest is nothing.     *)
NoQueue ==
    /\ overlapped = TRUE
    /\ qDisk = 0 /\ qStep = 0 /\ qHeld = 0 /\ qLatest = 0 /\ qJobs = 0 /\ failed = 0

NoIndex ==
    /\ files = Nothing /\ index = NoEntries /\ gSure = {}
    /\ last = 0 /\ changes = 0 /\ wAt = 0 /\ wOld = 0 /\ wTodo = 0
    /\ wFound = 0 /\ walks = 0 /\ snapshot = 0 /\ fresh = 0
    /\ jAt = 0 /\ jPath = 0 /\ jEntry = 0 /\ jGot = 0
    /\ gAt = 0 /\ gRemote = 0 /\ gSeen = 0 /\ gLeft = 0

NoTable ==
    /\ table = << >>
    /\ decisions = 0 /\ undo = 0 /\ scan = 0 /\ scans = 0
    /\ marks = 0 /\ task = 0 /\ tasks = 0 /\ overtaken = 0

NoHistory ==
    /\ reused = TRUE
    /\ file = 0 /\ stamp = 0 /\ queue = 0 /\ qFile = 0 /\ saves = 0
    /\ results = 0 /\ times = 0 /\ registry = 0 /\ stored = 0 /\ seen = 0
    /\ sync = 0 /\ starts = 0 /\ lost = 0 /\ edited = 0

NoVerdict ==
    /\ at = "compare" /\ row = NoRow
    /\ remote = 0 /\ local = 0 /\ byHash = 0 /\ guard = 0

MCInit ==
    /\ of \in {"cache", "queue", "index", "table", "history", "verdict"}
    /\ Init
    /\ IF of = "queue" THEN QueueInit ELSE NoQueue
    /\ IF of = "index" THEN IndexInit ELSE NoIndex
    /\ IF of = "table" THEN TableInit ELSE NoTable
    /\ IF of = "history" THEN HistoryInit ELSE NoHistory
    /\ IF of = "verdict" THEN VerdictInit ELSE NoVerdict

(* Only the variables of one specification may move. *)
Only(name) ==
    /\ of = name
    /\ UNCHANGED of
    /\ name # "cache" => UNCHANGED vars
    /\ name # "queue" => UNCHANGED queueVars
    /\ name # "index" => UNCHANGED indexVars
    /\ name # "table" => UNCHANGED tableVars
    /\ name # "history" => UNCHANGED historyVars
    /\ name # "verdict" => UNCHANGED verdictVars

MCNext ==
    \/ Only("cache") /\ Next
    \/ Only("queue") /\ QueueNext
    \/ Only("index") /\ IndexNext
    \/ Only("table") /\ TableNext
    \/ Only("history") /\ HistoryNext
    \/ Only("verdict") /\ VerdictNext

MCSpec == MCInit /\ [][MCNext]_<<vars, queueVars, indexVars, tableVars, historyVars,
                                verdictVars, of>>

=============================================================================
