----------------------------- MODULE ResultsTable -----------------------------
(***************************************************************************)
(* The table of results (App.results), the user's decisions that outlive it*)
(* (App.decisions), and the stack of marks that can be undone (undoMarks). *)
(*                                                                         *)
(* A comparison reads the decisions one item at a time and replaces the    *)
(* table when it has been through all of them.  Several may be under way:  *)
(* besides the MEGA scan, which holds the operation slot, a scan of a URL, *)
(* of a batch or of a page and an import of a CSV run in their own handler *)
(* and hold nothing.  Verifications, ExactGuard and downloads copy a row,  *)
(* work for a while, and then write to the row that has its ID.            *)
(***************************************************************************)
EXTENDS Naturals, Sequences, SequencesExt, FiniteSets

CONSTANTS
    Remotes,    \* remote files, as decisionKey tells them apart
    Scans,      \* comparisons
    Checks,     \* verifications and runs of ExactGuard
    Downloads,  \* rows being downloaded
    Compared,   \* the verdicts a comparison may come to
    Outcomes,   \* the verdicts a check may come to
    MaxRows,    \* bound on the rows of a table
    MaxScans,   \* bound on the comparisons begun
    MaxMarks,   \* bound on the marks set
    MaxTasks,   \* bound on the checks and downloads begun
    MaxUndo     \* the marks that can be undone, 50

Manual == {"HAVE", "MISSING", "DIFFERENT"}
Verdicts == {"VERIFIED", "HAVE", "SAMPLED", "POSSIBLE", "DIFFERENT", "MISSING"}

VARIABLES
    table,      \* a.results; the ID of a row is its place
    decisions,  \* a.decisions, "none" where there is none
    undo,       \* a.undoMarks
    scan,       \* what each comparison has so far
    scans,
    marks,
    task,       \* the row each check and each download has copied
    tasks,
    overtaken   \* history: files decided on during a comparison that had read
                \* them, or by undoing a mark when their row had moved

tableVars == <<table, decisions, undo, scan, scans, marks, task, tasks, overtaken>>

Row == [remote : Remotes, auto : Verdicts, status : Verdicts,
        manual : Manual \cup {"none"}]
Snapshot == [id : Nat, before : Row, decision : Manual \cup {"none"}]
NoScan == [at |-> "idle", items |-> << >>, rows |-> << >>, stale |-> {}]
NoTask == [at |-> "idle", id |-> 0, remotes |-> {}]

TableTypeOK ==
    /\ table \in Seq(Row)
    /\ decisions \in [Remotes -> Manual \cup {"none"}]
    /\ \A i \in DOMAIN undo : undo[i] \subseteq Snapshot
    /\ \A s \in Scans :
        /\ scan[s].at \in {"idle", "compare"}
        /\ scan[s].items \in Seq(Remotes) /\ scan[s].rows \in Seq(Row)
        /\ scan[s].stale \subseteq Remotes
    /\ \A t \in Checks \cup Downloads :
        /\ task[t].at \in {"idle", "work", "same"}
        /\ task[t].id \in Nat
        /\ task[t].remotes \subseteq Remotes
    /\ scans \in Nat /\ marks \in Nat /\ tasks \in Nat
    /\ overtaken \subseteq Remotes

TableInit ==
    /\ table = << >>
    /\ decisions \in [Remotes -> {"none", "MISSING"}]
    /\ undo = << >>
    /\ scan = [s \in Scans |-> NoScan]
    /\ scans = 0 /\ marks = 0
    /\ task = [t \in Checks \cup Downloads |-> NoTask]
    /\ tasks = 0
    /\ overtaken = {}

-----------------------------------------------------------------------------
(* Comparisons *)

(* Files that comparisons under way have been through. *)
Read == UNION {{scan[s].rows[i].remote : i \in DOMAIN scan[s].rows} : s \in Scans}

StartScan(s, items) ==
    /\ scan[s].at = "idle"
    /\ scans < MaxScans
    /\ scans' = scans + 1
    /\ scan' = [scan EXCEPT ![s] = [NoScan EXCEPT !.at = "compare", !.items = items]]
    /\ UNCHANGED <<table, decisions, undo, marks, task, tasks, overtaken>>

(* persistedDecisionApplies: a decision that the file is missing or differs*)
(* yields to evidence of a local copy; any may be out of date otherwise.   *)
MayApply(decision, auto) ==
    decision = "HAVE" \/ auto \notin {"VERIFIED", "HAVE", "SAMPLED"}

(* An item gets its verdict from the index; a decision that applies goes   *)
(* before it, one that does not is to be forgotten.                        *)
CompareItem(s) ==
    LET r == scan[s].items[Len(scan[s].rows) + 1]
        Compare(auto, applies) ==
            LET manual == IF applies THEN decisions[r] ELSE "none"
            IN [scan EXCEPT
                 ![s].rows = Append(@, [remote |-> r, auto |-> auto, manual |-> manual,
                                        status |-> IF manual = "none" THEN auto ELSE manual]),
                 ![s].stale = IF decisions[r] # "none" /\ ~applies
                              THEN @ \cup {r} ELSE @]
    IN /\ scan[s].at = "compare"
       /\ Len(scan[s].rows) < Len(scan[s].items)
       /\ \E auto \in Compared, applies \in BOOLEAN :
            /\ applies => MayApply(decisions[r], auto)
            /\ scan' = Compare(auto, applies)
       /\ UNCHANGED <<table, decisions, undo, scans, marks, task, tasks,
                      overtaken>>

PublishTable(s) ==
    /\ scan[s].at = "compare"
    /\ Len(scan[s].rows) = Len(scan[s].items)
    /\ table' = scan[s].rows
    /\ decisions' = [r \in Remotes |->
                        IF r \in scan[s].stale THEN "none" ELSE decisions[r]]
    /\ overtaken' = overtaken \cup (scan[s].stale \cap
            UNION {{scan[u].rows[i].remote : i \in DOMAIN scan[u].rows} :
                   u \in Scans \ {s}})
    /\ scan' = [scan EXCEPT ![s] = NoScan]
    /\ UNCHANGED <<undo, scans, marks, task, tasks>>

(* A cancelled comparison leaves the table as it is. *)
Abandon(s) ==
    /\ scan[s].at = "compare"
    /\ scan' = [scan EXCEPT ![s] = NoScan]
    /\ UNCHANGED <<table, decisions, undo, scans, marks, task, tasks,
                   overtaken>>

(* handleClearResults: the marks can still be undone. *)
ClearResults ==
    /\ table # << >>
    /\ table' = << >>
    /\ UNCHANGED <<decisions, undo, scan, scans, marks, task, tasks, overtaken>>

-----------------------------------------------------------------------------
(* Marks *)

Marked(ids) == {table[i].remote : i \in ids}

(* The oldest mark is forgotten when there are too many. *)
Pushed(items) == Append(IF Len(undo) < MaxUndo THEN undo ELSE Tail(undo), items)

(* The user marks rows, or, with AUTO ("none"), takes their marks back.    *)
Mark(ids, status) ==
    /\ ids # {}
    /\ marks < MaxMarks
    /\ marks' = marks + 1
    /\ undo' = Pushed({[id |-> i, before |-> table[i],
                        decision |-> decisions[table[i].remote]] : i \in ids})
    /\ table' = [i \in DOMAIN table |->
                    IF i \notin ids THEN table[i]
                    ELSE IF status = "none"
                    THEN [table[i] EXCEPT !.status = table[i].auto, !.manual = "none"]
                    ELSE [table[i] EXCEPT !.status = status, !.manual = status]]
    /\ decisions' = [r \in Remotes |-> IF r \in Marked(ids) THEN status ELSE decisions[r]]
    /\ overtaken' = overtaken \cup (Marked(ids) \cap Read)
    /\ UNCHANGED <<scan, scans, task, tasks>>

LastMark == undo[Len(undo)]
At(i) == CHOOSE x \in LastMark : x.id = i
Undone(r) == \E x \in LastMark : x.before.remote = r
Of(r) == CHOOSE x \in LastMark : x.before.remote = r

(* Files whose row is not where it was marked. *)
Moved ==
    {x.before.remote : x \in {y \in LastMark :
        y.id \in DOMAIN table => table[y.id].remote # y.before.remote}}

(* Faulty variant: a decision made since is not taken back with the mark. *)
UndoMark_OnlyHad ==
    /\ undo # << >>
    /\ table' = [i \in DOMAIN table |-> IF \E x \in LastMark : x.id = i
                                       THEN At(i).before ELSE table[i]]
    /\ decisions' = [r \in Remotes |->
                        IF Undone(r) /\ Of(r).decision # "none"
                        THEN Of(r).decision ELSE decisions[r]]
    /\ overtaken' = overtaken \cup Moved \cup {r \in Read : Undone(r)}
    /\ undo' = Front(undo)
    /\ UNCHANGED <<scan, scans, marks, task, tasks>>

(* The rows of the last mark go back, whole, to where they were, whatever  *)
(* is there now, and the decisions become what they were.                  *)
UndoMark ==
    /\ undo # << >>
    /\ table' = [i \in DOMAIN table |-> IF \E x \in LastMark : x.id = i
                                       THEN At(i).before ELSE table[i]]
    /\ decisions' = [r \in Remotes |-> IF Undone(r) THEN Of(r).decision ELSE decisions[r]]
    /\ overtaken' = overtaken \cup Moved \cup {r \in Read : Undone(r)}
    /\ undo' = Front(undo)
    /\ UNCHANGED <<scan, scans, marks, task, tasks>>

-----------------------------------------------------------------------------
(* Verdicts *)

(* A row's automatic verdict, which shows unless the row is marked. *)
Judged(row, auto) ==
    [row EXCEPT !.auto = auto, !.status = IF row.manual = "none" THEN auto ELSE row.status]

(* handleSelectCandidate: a file that was missing has a candidate now. *)
PickCandidate(i) ==
    /\ table[i].auto = "MISSING"
    /\ table' = [table EXCEPT ![i] = Judged(@, "POSSIBLE")]
    /\ UNCHANGED <<decisions, undo, scan, scans, marks, task, tasks, overtaken>>

Copy(t, i) ==
    /\ task[t].at = "idle"
    /\ tasks < MaxTasks
    /\ tasks' = tasks + 1
    /\ task' = [task EXCEPT ![t] = [at |-> "work", id |-> i, remotes |-> {table[i].remote}]]
    /\ UNCHANGED <<table, decisions, undo, scan, scans, marks, overtaken>>

Done(t) ==
    /\ task' = [task EXCEPT ![t] = NoTask]
    /\ UNCHANGED <<undo, scan, scans, marks, tasks>>

(* A verification ends with an error or without a verdict. *)
GiveUp(t) ==
    /\ task[t].at = "work"
    /\ Done(t)
    /\ UNCHANGED <<table, decisions, overtaken>>

(* updateVerification, handleDeepVerify, applyGuardDecisions. *)
Verdict(c) ==
    /\ task[c].at = "work"
    /\ task[c].id \in DOMAIN table
    /\ \E auto \in Outcomes :
        table' = [table EXCEPT ![task[c].id] = Judged(@, auto)]
    /\ Done(c)
    /\ UNCHANGED <<decisions, overtaken>>

(* The row with the ID is marked, and the mark remembered for whatever file*)
(* that row is about by now.                                               *)
markDownloaded(d) ==
    IF task[d].id \in DOMAIN table
    THEN LET r == table[task[d].id].remote
         IN /\ table' = [table EXCEPT ![task[d].id] =
                            [@ EXCEPT !.status = "HAVE", !.manual = "HAVE"]]
            /\ decisions' = [decisions EXCEPT ![r] = "HAVE"]
            /\ overtaken' = overtaken \cup ({r} \cap Read)
    ELSE UNCHANGED <<table, decisions, overtaken>>

(* runDownloadRows and downloadMegaResults mark the row there and then.    *)
MarkRow(d) ==
    /\ task[d].at = "work"
    /\ markDownloaded(d)
    /\ Done(d)

(* markDownloadedResult, for a job of the queue: first it looks whether the*)
(* row still is about the file of the job, and then it marks the row.      *)
StillSame(d) ==
    /\ task[d].at = "work"
    /\ IF task[d].id \in DOMAIN table /\ table[task[d].id].remote \in task[d].remotes
       THEN task' = [task EXCEPT ![d].at = "same"]
       ELSE task' = [task EXCEPT ![d] = NoTask]
    /\ UNCHANGED <<table, decisions, undo, scan, scans, marks, tasks, overtaken>>

MarkSame(d) ==
    /\ task[d].at = "same"
    /\ markDownloaded(d)
    /\ Done(d)

-----------------------------------------------------------------------------

Items == {s \in UNION {[1 .. n -> Remotes] : n \in 1 .. MaxRows} : IsInjective(s)}

TableNext ==
    \/ \E s \in Scans :
        \/ \E items \in Items : StartScan(s, items)
        \/ CompareItem(s)
        \/ PublishTable(s)
        \/ Abandon(s)
    \/ ClearResults
    \/ \E ids \in SUBSET DOMAIN table, status \in Manual \cup {"none"} : Mark(ids, status)
    \/ UndoMark
    \/ \E i \in DOMAIN table :
        \/ PickCandidate(i)
        \/ \E t \in Checks \cup Downloads : Copy(t, i)
    \/ \E t \in Checks \cup Downloads : GiveUp(t)
    \/ \E c \in Checks : Verdict(c)
    \/ \E d \in Downloads : MarkRow(d) \/ StillSame(d) \/ MarkSame(d)

TableSpec == TableInit /\ [][TableNext]_tableVars

-----------------------------------------------------------------------------
(* Properties *)

OnlyRowOf(i) == \A j \in DOMAIN table : table[j].remote = table[i].remote => j = i

(* What a row shows is the user's decision on its file if there is one and *)
(* the automatic verdict if there is none, however marks, undone marks,    *)
(* comparisons, verifications and downloads, of this table or of an earlier*)
(* one, follow each other: for every file that has one row, that was not   *)
(* decided on while a comparison that had already read it was under way,   *)
(* and whose row had not moved when a mark of it was undone.               *)
RowsShowDecisions ==
    \A i \in DOMAIN table :
        OnlyRowOf(i) /\ table[i].remote \notin overtaken =>
            /\ table[i].manual = decisions[table[i].remote]
            /\ table[i].status = IF table[i].manual = "none"
                                 THEN table[i].auto ELSE table[i].manual

=============================================================================
