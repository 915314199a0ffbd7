---------------------------- MODULE MegaSession ----------------------------
(***************************************************************************)
(* The one MEGAcmd session and the operations that share it: preview       *)
(* selections (mega_preview_controller_v8526.go), a folder scan (main.go), *)
(* a download (v7_extra.go), a stop of the preview and a preview started   *)
(* outside the controller (main.go), and the shutdown (lifecycle.go),      *)
(* serialised by megaSessionGate (mega_session.go).                        *)
(*                                                                         *)
(* A step is one critical section of c.mu or previewMu, or one MEGAcmd     *)
(* command.  A command whose context was cancelled before it began does    *)
(* not run; one that has begun runs to its end.  MEGAcmd is external: only *)
(* what it is logged in to is kept.                                        *)
(***************************************************************************)
EXTENDS Integers

CONSTANTS
    Urls,           \* public folders
    Items,          \* files of those folders
    UrlOf,          \* the folder of a file
    Account,        \* the user's own session
    NoSession,      \* logged out; no session remembered
    Scan, Download, Stop, Target, Settle,   \* the operations beside the selections
    Free,           \* nobody holds the gate
    MaxSelections,  \* bound on the preview selections
    Initially,      \* what MEGAcmd may be logged in to at the start
    Unreliable      \* the commands that may fail with a live context

Jobs == 1 .. MaxSelections
Ops == {Scan, Download, Stop, Target, Settle}
Procs == Jobs \cup Ops
Sessions == Urls \cup {Account, NoSession}
Commands == {"webdav", "login", "find", "get", "recover"}

Previews == [active : BOOLEAN, url : Sessions, prev : Sessions]
Selected == [item : Items, force : BOOLEAN, warm : Previews]

ASSUME MegaAssumption ==
    /\ MaxSelections \in Nat
    /\ UrlOf \in [Items -> Urls]
    /\ Account \notin Urls /\ NoSession \notin Urls /\ Account # NoSession
    /\ Scan # Download /\ Scan # Stop /\ Scan # Settle
    /\ Download # Stop /\ Download # Settle /\ Stop # Settle
    /\ Target \notin {Scan, Download, Stop, Settle}
    /\ Ops \cap Jobs = {} /\ Free \notin Procs /\ Free \notin Selected
    /\ Initially \subseteq {Account, NoSession}
    /\ Unreliable \subseteq Commands

VARIABLES
    session,     \* external: what MEGAcmd is logged in to
    gate,        \* who took the token out of megaSessionGate
    preview,     \* App.preview: the public session DDG says it keeps open
    generation, selection, closed, source, routes,   \* the controller
    sources,     \* the sources made so far, by the generation that made them
    jobs,        \* the preview jobs, by generation
    click,       \* a /start request between its two locks
    pc,          \* where each operation is
    link,        \* the folder each operation has to open
    todo,        \* the folders the download has left
    old,         \* the session each operation remembers to restore
    cancelled,   \* the operations whose context is cancelled
    committed    \* history: the generation last written to App.preview

controller == <<generation, selection, closed, source, routes, sources, jobs>>
vars == <<session, gate, preview, controller, click, pc, link, todo, old,
          cancelled, committed>>

NoPreview == [active |-> FALSE, url |-> NoSession, prev |-> NoSession]
Keep(u, prev) == [active |-> TRUE, url |-> u, prev |-> prev]

JobSteps == {"wait", "direct", "claim", "recover", "retry", "decide", "resume",
             "probe", "detach", "login", "opened", "again", "check", "remember",
             "commit", "publish"}
OpSteps == {"invalidate", "look", "wait", "lock", "stopOut", "stopIn", "probe",
            "detach", "login", "use", "next", "compare", "keep", "undoOut",
            "undoIn", "close", "take", "settleOut", "settleIn", "switch", "record"}
Results == {"none", "ok", "pipe", "auth", "missing", "other", "superseded"}


TypeOK ==
    /\ session \in Sessions
    /\ gate \in Procs \cup {Free}
    /\ preview \in Previews
    /\ generation \in 0 .. MaxSelections
    /\ selection \in 0 .. generation
    /\ closed \in BOOLEAN
    /\ source \in 0 .. generation
    /\ routes \subseteq Items
    /\ sources \in [Jobs -> [live : BOOLEAN, proven : BOOLEAN, prev : Sessions,
                             recoveries : 0 .. 1]]
    /\ jobs \in [Jobs -> [item : Items \cup {Free}, live : BOOLEAN, src : 0 .. MaxSelections,
                          result : Results]]
    /\ click \in Selected \cup {Free}
    /\ pc \in [Procs -> JobSteps \cup OpSteps \cup {"idle", "leave", "done"}]
    /\ link \in [Procs -> Sessions]
    /\ todo \subseteq Urls
    /\ old \in [Procs -> Sessions]
    /\ cancelled \subseteq Ops
    /\ committed \in 0 .. MaxSelections

Init ==
    /\ session \in Initially
    /\ gate = Free
    /\ preview = NoPreview
    /\ generation = 0 /\ selection = 0 /\ source = 0
    /\ closed = FALSE
    /\ routes = {}
    /\ sources = [s \in Jobs |-> [live |-> FALSE, proven |-> FALSE, prev |-> NoSession,
                                  recoveries |-> 0]]
    /\ jobs = [j \in Jobs |-> [item |-> Free, live |-> FALSE, src |-> 0, result |-> "none"]]
    /\ click = Free
    /\ pc = [p \in Procs |-> "idle"]
    /\ link = [p \in Procs |-> NoSession]
    /\ todo = {}
    /\ old = [p \in Procs |-> NoSession]
    /\ cancelled = {}
    /\ committed = 0

(***************************************************************************)
(* Pieces of steps.                                                        *)
(***************************************************************************)
Exited == pc[Settle] = "done"
Go(p, l) == pc' = [pc EXCEPT ![p] = l]
At(p, l) == ~Exited /\ pc[p] = l

(* previewMu is held while stopMegaPreviewLocked runs its commands, and by *)
(* startMegaPreview until it leaves.                                       *)
HoldsPreview(p) ==
    \/ pc[p] \in {"stopOut", "stopIn"}
    \/ /\ p = Target
       /\ pc[p] \in {"switch", "probe", "detach", "login", "use", "record",
                     "undoOut", "undoIn"}
PreviewFree == \A p \in Ops : ~HoldsPreview(p)

(* Mutant: a wait for the gate that ends whether or not it is free. *)
Acquire_Barging(p, l) == At(p, "wait") /\ gate' = p /\ Go(p, l)

Acquire(p, l) == At(p, "wait") /\ gate = Free /\ gate' = p /\ Go(p, l)

(* What `login` with a remembered session does; without one it is not run. *)
LogBackIn(prev) ==
    \/ prev # NoSession /\ session' = prev
    \/ (prev = NoSession \/ "login" \in Unreliable) /\ UNCHANGED session

(* invalidate: the selection and its source are cancelled and forgotten. *)
Invalidate ==
    /\ jobs' = [j \in Jobs |-> [jobs[j] EXCEPT !.live = @ /\ j # selection]]
    /\ sources' = [s \in Jobs |-> [sources[s] EXCEPT !.live = @ /\ s # source]]
    /\ selection' = 0
    /\ source' = 0
    /\ routes' = {}
    /\ UNCHANGED <<generation, closed>>

(***************************************************************************)
(* begin: the request reads App.preview under previewMu, and uses what it  *)
(* read under c.mu.                                                        *)
(***************************************************************************)
ClickRead(i, f) ==
    /\ ~Exited /\ PreviewFree
    /\ click = Free /\ generation < MaxSelections
    /\ click' = [item |-> i, force |-> f, warm |-> preview]
    /\ UNCHANGED <<session, gate, preview, controller, pc, link, todo, old,
                   cancelled, committed>>

ClickRefused ==
    /\ ~Exited /\ click # Free /\ closed
    /\ click' = Free
    /\ UNCHANGED <<session, gate, preview, controller, pc, link, todo, old,
                   cancelled, committed>>

(* Mutant: the overtaken job is left running. *)
NewJob_KeepsOld(g, i, s, r) ==
    jobs' = [jobs EXCEPT ![g] = [item |-> i, live |-> TRUE, src |-> s, result |-> r]]

(* The previous selection is cancelled, and nothing else. *)
NewJob(g, i, s, r) ==
    jobs' = [j \in Jobs |->
        IF j = g THEN [item |-> i, live |-> TRUE, src |-> s, result |-> r]
        ELSE [jobs[j] EXCEPT !.live = @ /\ j # selection]]

ClickCached ==
    LET g == generation + 1 IN
    /\ ~Exited /\ click # Free /\ ~closed
    /\ ~click.force /\ click.item \in routes
    /\ generation' = g /\ selection' = g /\ click' = Free
    /\ NewJob(g, click.item, 0, "ok")
    /\ Go(g, "done")
    /\ UNCHANGED <<session, gate, preview, closed, source, routes, sources, link,
                   todo, old, cancelled, committed>>

SourceUrl == UrlOf[jobs[source].item]

(* A source of another folder is cancelled, the commands of its jobs with  *)
(* it, and the cached routes are dropped.                                  *)
ClickManaged ==
    LET g == generation + 1
        u == UrlOf[click.item]
        same == source # 0 /\ SourceUrl = u
    IN
    /\ ~Exited /\ click # Free /\ ~closed
    /\ click.force \/ click.item \notin routes
    /\ generation' = g /\ selection' = g /\ click' = Free
    /\ NewJob(g, click.item, IF same THEN source ELSE g, "none")
    /\ Go(g, "wait")
    /\ link' = [link EXCEPT ![g] = u]
    /\ \/ same /\ UNCHANGED <<source, sources, routes>>
       \/ /\ ~same
          /\ source' = g
          /\ routes' = IF source = 0 THEN routes ELSE {}
          /\ sources' = [s \in Jobs |->
                IF s = g
                THEN [live |-> TRUE, recoveries |-> 0,
                      proven |-> click.warm.active /\ click.warm.url = u,
                      prev |-> IF click.warm.url = u THEN click.warm.prev ELSE NoSession]
                ELSE [sources[s] EXCEPT !.live = @ /\ s # source]]
    /\ UNCHANGED <<session, gate, preview, closed, todo, old, cancelled, committed>>

(* The UI's stop cancels the transfer and keeps selection, source, routes. *)
CancelCurrent ==
    /\ ~Exited /\ selection # 0 /\ jobs[selection].live
    /\ jobs' = [jobs EXCEPT ![selection].live = FALSE]
    /\ UNCHANGED <<session, gate, preview, generation, selection, closed, source,
                   routes, sources, click, pc, link, todo, old, cancelled, committed>>

(* A media request that fails upstream drops the cached route. *)
Evict ==
    /\ ~Exited /\ selection # 0
    /\ LET j == jobs[selection] IN
       j.live /\ j.result = "ok" /\ j.item \in routes /\ routes' = routes \ {j.item}
    /\ UNCHANGED <<session, gate, preview, generation, selection, closed, source,
                   sources, jobs, click, pc, link, todo, old, cancelled, committed>>

(***************************************************************************)
(* preparePerFile, one job: everything from "direct" on is under the gate. *)
(***************************************************************************)
Live(j) == jobs[j].live
Src(j) == sources[jobs[j].src]
Current(j) == source = jobs[j].src
Answer(j, r) == jobs' = [jobs EXCEPT ![j].result = r]
NoServer == UNCHANGED <<session, gate, preview, click, link, todo, cancelled, committed>>
NoControl == UNCHANGED <<generation, selection, closed, source, routes>>

(* A select with both channels ready picks either: a cancelled job may     *)
(* still get the gate.                                                     *)
JobAcquire(j) ==
    /\ Acquire(j, "direct")
    /\ UNCHANGED <<session, preview, controller, click, link, todo, old, cancelled,
                   committed>>

JobGiveUp(j) ==
    /\ At(j, "wait")
    /\ ~Live(j) \/ gate # Free
    /\ Answer(j, IF Live(j) THEN "other" ELSE "superseded")
    /\ Go(j, "done")
    /\ NoServer /\ NoControl /\ UNCHANGED <<sources, old>>

(* `webdav H:handle`: the folder the session is in decides. *)
Lookup(j) ==
    IF ~Src(j).live THEN {"other"}
    ELSE {IF session = link[j] THEN "ok"
          ELSE IF session = NoSession THEN "auth" ELSE "missing"}
         \cup (IF "webdav" \in Unreliable THEN {"pipe", "missing", "other"} ELSE {})

JobDirect(j) ==
    /\ At(j, "direct")
    /\ \E r \in Lookup(j) :
        /\ Answer(j, r)
        /\ Go(j, IF r = "ok" THEN "check" ELSE IF r = "pipe" THEN "claim" ELSE "decide")
    /\ NoServer /\ NoControl /\ UNCHANGED <<sources, old>>

(* Mutant: every job may restart the server. *)
JobClaim_Again(j) ==
    /\ At(j, "claim")
    /\ sources' = [sources EXCEPT ![jobs[j].src].recoveries = @ + 1]
    /\ Go(j, "recover")
    /\ NoServer /\ NoControl /\ UNCHANGED <<jobs, old>>

JobClaim(j) ==
    /\ At(j, "claim")
    /\ \/ /\ ~closed /\ Current(j) /\ Src(j).live /\ Src(j).recoveries = 0
          /\ sources' = [sources EXCEPT ![jobs[j].src].recoveries = 1]
          /\ Go(j, "recover")
       \/ /\ closed \/ ~Current(j) \/ ~Src(j).live \/ Src(j).recoveries # 0
          /\ Go(j, "decide")
          /\ UNCHANGED sources
    /\ NoServer /\ NoControl /\ UNCHANGED <<jobs, old>>

(* The restarted server has the session it persisted, or none. *)
JobRecover(j) ==
    /\ At(j, "recover")
    /\ session' \in {session, NoSession}
    /\ \/ /\ "recover" \in Unreliable
          /\ Go(j, "decide")
          /\ UNCHANGED <<jobs, sources>>
       \/ /\ sources' = IF Current(j)
                        THEN [sources EXCEPT ![jobs[j].src].proven = FALSE] ELSE sources
          /\ \/ Live(j) /\ Src(j).live /\ Go(j, "retry") /\ UNCHANGED jobs
             \/ ~(Live(j) /\ Src(j).live) /\ Go(j, "leave") /\ Answer(j, "superseded")
    /\ NoControl
    /\ UNCHANGED <<gate, preview, click, link, todo, old, cancelled, committed>>

JobRetry(j) ==
    /\ At(j, "retry")
    /\ \E r \in Lookup(j) :
        Answer(j, r) /\ Go(j, IF r = "ok" THEN "check" ELSE "decide")
    /\ NoServer /\ NoControl /\ UNCHANGED <<sources, old>>

(* shouldResumeSource: a session proven to be this folder's is not opened  *)
(* again, unless MEGAcmd said that it is logged out.                       *)
JobDecide(j) ==
    LET loggedOut == jobs[j].result = "auth"
        proven == Current(j) /\ Src(j).proven /\ ~loggedOut
    IN
    /\ At(j, "decide")
    /\ Go(j, IF Live(j) /\ ~proven /\ jobs[j].result \in {"auth", "missing"}
             THEN "resume" ELSE "leave")
    /\ sources' = IF Live(j) /\ loggedOut /\ Current(j)
                  THEN [sources EXCEPT ![jobs[j].src].proven = FALSE] ELSE sources
    /\ NoServer /\ NoControl /\ UNCHANGED <<jobs, old>>

(* Mutant: a job whose source was replaced waits for it to come back. *)
JobResume_Waits(j) ==
    /\ At(j, "resume") /\ Current(j)
    /\ Go(j, IF Src(j).proven THEN "again" ELSE "probe")
    /\ NoServer /\ NoControl /\ UNCHANGED <<jobs, sources, old>>

JobResume(j) ==
    /\ At(j, "resume")
    /\ \/ /\ ~Current(j)
          /\ Answer(j, "superseded") /\ Go(j, "leave") /\ UNCHANGED old
       \/ /\ Current(j) /\ Src(j).proven
          /\ Go(j, "again") /\ UNCHANGED <<jobs, old>>
       \/ /\ Current(j) /\ ~Src(j).proven /\ Src(j).recoveries = 0
          /\ Go(j, "probe") /\ UNCHANGED <<jobs, old>>
       \/ /\ Current(j) /\ ~Src(j).proven /\ Src(j).recoveries # 0
          /\ old' = [old EXCEPT ![j] = Src(j).prev]
          /\ Go(j, "detach") /\ UNCHANGED jobs
    /\ NoServer /\ NoControl /\ UNCHANGED sources

JobProbe(j) ==
    /\ At(j, "probe")
    /\ old' = [old EXCEPT ![j] = IF Src(j).live THEN session ELSE NoSession]
    /\ Go(j, "detach")
    /\ NoServer /\ NoControl /\ UNCHANGED <<jobs, sources>>

JobDetach(j) ==
    /\ At(j, "detach")
    /\ session' = IF Src(j).live THEN NoSession ELSE session
    /\ Go(j, "login")
    /\ NoControl
    /\ UNCHANGED <<gate, preview, jobs, sources, click, link, todo, old, cancelled,
                   committed>>

JobLogin(j) ==
    /\ At(j, "login")
    /\ \/ /\ Src(j).live
          /\ session' = link[j]
          /\ Go(j, "opened") /\ UNCHANGED jobs
       \/ /\ ~Src(j).live \/ "login" \in Unreliable
          /\ Answer(j, "other") /\ Go(j, "leave")
          /\ UNCHANGED session
    /\ NoControl
    /\ UNCHANGED <<gate, preview, sources, click, link, todo, old, cancelled, committed>>

(* Only now does the source remember the session it replaced. *)
JobOpened(j) ==
    /\ At(j, "opened")
    /\ sources' = IF Current(j) /\ Src(j).live
                  THEN [sources EXCEPT ![jobs[j].src].prev = old[j],
                                       ![jobs[j].src].proven = TRUE]
                  ELSE sources
    /\ Go(j, "again")
    /\ NoServer /\ NoControl /\ UNCHANGED <<jobs, old>>

JobAgain(j) ==
    /\ At(j, "again")
    /\ \/ ~Live(j) /\ Answer(j, "superseded") /\ Go(j, "leave")
       \/ /\ Live(j)
          /\ \E r \in Lookup(j) :
              Answer(j, r) /\ Go(j, IF r = "ok" THEN "check" ELSE "leave")
    /\ NoServer /\ NoControl /\ UNCHANGED <<sources, old>>

JobCheck(j) ==
    /\ At(j, "check")
    /\ \/ ~Live(j) /\ Answer(j, "superseded") /\ Go(j, "leave")
       \/ Live(j) /\ Go(j, "remember") /\ UNCHANGED jobs
    /\ NoServer /\ NoControl /\ UNCHANGED <<sources, old>>

(* Mutant: the gate is released as soon as the command has answered. *)
JobRemember_Releases(j) ==
    /\ At(j, "remember")
    /\ gate' = Free
    /\ routes' = routes \cup {jobs[j].item}
    /\ sources' = sources
    /\ Go(j, "commit")
    /\ UNCHANGED <<session, preview, generation, selection, closed, source, jobs,
                   click, link, todo, old, cancelled, committed>>

(* Under c.mu, but without a second look at the job's context. *)
JobRemember(j) ==
    /\ At(j, "remember")
    /\ routes' = routes \cup {jobs[j].item}
    /\ sources' = IF Current(j)
                  THEN [sources EXCEPT ![jobs[j].src].proven = TRUE] ELSE sources
    /\ Go(j, "commit")
    /\ NoServer /\ UNCHANGED <<generation, selection, closed, source, jobs, old>>

JobCommit(j) ==
    /\ At(j, "commit")
    /\ \/ ~(Live(j) /\ Current(j)) /\ Go(j, "leave") /\ UNCHANGED old
       \/ /\ Live(j) /\ Current(j)
          /\ old' = [old EXCEPT ![j] = Src(j).prev]
          /\ Go(j, "publish")
    /\ NoServer /\ NoControl /\ UNCHANGED <<jobs, sources>>

JobPublish(j) ==
    /\ At(j, "publish") /\ PreviewFree
    /\ preview' = Keep(link[j], old[j])
    /\ committed' = j
    /\ Go(j, "leave")
    /\ UNCHANGED <<session, gate, controller, click, link, todo, old, cancelled>>

(* The deferred calls: the gate is released, ready is closed. *)
Leave(p) ==
    /\ At(p, "leave")
    /\ gate' = Free
    /\ old' = [old EXCEPT ![p] = NoSession]
    /\ Go(p, "done")
    /\ UNCHANGED <<session, preview, controller, click, link, todo, cancelled, committed>>

JobStep(j) ==
    \/ JobAcquire(j) \/ JobGiveUp(j) \/ JobDirect(j) \/ JobClaim(j) \/ JobRecover(j)
    \/ JobRetry(j) \/ JobDecide(j) \/ JobResume(j) \/ JobProbe(j) \/ JobDetach(j)
    \/ JobLogin(j) \/ JobOpened(j) \/ JobAgain(j) \/ JobCheck(j) \/ JobRemember(j)
    \/ JobCommit(j) \/ JobPublish(j) \/ Leave(j)

(***************************************************************************)
(* What a scan, a download, a stop and startMegaPreview share: they take   *)
(* the gate and end the preview under previewMu (stopMegaPreviewLocked).   *)
(***************************************************************************)
OpFrame == UNCHANGED <<click, link, todo, committed>>
Workers == {Scan, Download}

(* A scan or a download with a cancelled context gives up; the others wait *)
(* a bounded time.                                                         *)
OpAcquire(p) ==
    /\ Acquire(p, IF p = Settle THEN "take"
                  ELSE IF p \in {Stop, Target} THEN "lock" ELSE "invalidate")
    /\ UNCHANGED <<session, preview, controller, old, cancelled>> /\ OpFrame

OpGiveUp(p) ==
    /\ At(p, "wait")
    /\ IF p \in Workers THEN p \in cancelled ELSE gate # Free
    /\ Go(p, "done")
    /\ UNCHANGED <<session, gate, preview, controller, old, cancelled>> /\ OpFrame

OpInvalidate(p) ==
    /\ At(p, "invalidate")
    /\ Invalidate
    /\ Go(p, IF p = Stop THEN "look" ELSE IF p = Settle THEN "close" ELSE "lock")
    /\ UNCHANGED <<session, gate, preview, old, cancelled>> /\ OpFrame

AfterStop(p) == IF p = Stop THEN "leave" ELSE "probe"

OpLock(p) ==
    /\ At(p, "lock") /\ PreviewFree
    /\ Go(p, IF preview.active THEN "stopOut" ELSE AfterStop(p))
    /\ UNCHANGED <<session, gate, preview, controller, old, cancelled>> /\ OpFrame

OpStopOut(p) ==
    /\ At(p, "stopOut")
    /\ session' = NoSession
    /\ Go(p, "stopIn")
    /\ UNCHANGED <<gate, preview, controller, old, cancelled>> /\ OpFrame

(* Mutant: the preview is stopped and stays recorded. *)
OpStopIn_NoReset(p) ==
    /\ At(p, "stopIn")
    /\ LogBackIn(preview.prev)
    /\ Go(p, AfterStop(p))
    /\ UNCHANGED <<gate, preview, controller, old, cancelled>> /\ OpFrame

OpStopIn(p) ==
    /\ At(p, "stopIn")
    /\ LogBackIn(preview.prev)
    /\ preview' = NoPreview
    /\ Go(p, AfterStop(p))
    /\ UNCHANGED <<gate, controller, old, cancelled>> /\ OpFrame

(* Mutant: the stop goes on without the gate. *)
StopLook_NoGate ==
    /\ At(Stop, "look") /\ PreviewFree
    /\ Go(Stop, IF preview.active THEN "lock" ELSE "done")
    /\ UNCHANGED <<session, gate, preview, controller, old, cancelled>> /\ OpFrame

(***************************************************************************)
(* stopMegaPreview: a new scan, the 60 minute timer, ExactGuard's end.     *)
(***************************************************************************)
StopLook ==
    /\ At(Stop, "look") /\ PreviewFree
    /\ Go(Stop, IF preview.active THEN "wait" ELSE "done")
    /\ UNCHANGED <<session, gate, preview, controller, old, cancelled>> /\ OpFrame

(***************************************************************************)
(* runMegaScan and downloadMegaResults.                                    *)
(***************************************************************************)
Running(p) == p \notin cancelled

(* A command of a cancelled operation fails at once.  The scan looks at    *)
(* its context and returns; the download goes on and restores "nothing".   *)
WorkProbe(p) ==
    /\ At(p, "probe")
    /\ old' = [old EXCEPT ![p] = IF Running(p) THEN session ELSE NoSession]
    /\ Go(p, IF p = Scan /\ ~Running(p) THEN "leave" ELSE "detach")
    /\ UNCHANGED <<session, gate, preview, controller, cancelled>> /\ OpFrame

WorkDetach(p) ==
    /\ At(p, "detach")
    /\ session' = IF Running(p) THEN NoSession ELSE session
    /\ Go(p, IF p = Scan /\ ~Running(p) THEN "leave" ELSE "login")
    /\ UNCHANGED <<gate, preview, controller, old, cancelled>> /\ OpFrame

WorkLogin(p) ==
    /\ At(p, "login")
    /\ \E u \in IF p = Download THEN todo ELSE {link[p]} :
        /\ link' = [link EXCEPT ![p] = u]
        /\ \/ Running(p) /\ session' = u /\ Go(p, "use")
           \/ /\ ~Running(p) \/ "login" \in Unreliable
              /\ UNCHANGED session /\ Go(p, "undoOut")
    /\ UNCHANGED <<gate, preview, controller, click, todo, old, cancelled, committed>>

ScanFind ==
    /\ At(Scan, "use")
    /\ \/ Running(Scan) /\ Go(Scan, "compare")
       \/ (~Running(Scan) \/ "find" \in Unreliable) /\ Go(Scan, "undoOut")
    /\ UNCHANGED <<session, gate, preview, controller, old, cancelled>> /\ OpFrame

ScanCompare ==
    /\ At(Scan, "compare")
    /\ Go(Scan, IF Running(Scan) THEN "keep" ELSE "leave")
    /\ UNCHANGED <<session, gate, preview, controller, old, cancelled>> /\ OpFrame

(* With or without a WebDAV root, the folder's session is kept open. *)
ScanKeep ==
    /\ At(Scan, "keep") /\ PreviewFree
    /\ preview' = Keep(link[Scan], old[Scan])
    /\ Go(Scan, "leave")
    /\ UNCHANGED <<session, gate, controller, old, cancelled>> /\ OpFrame

DownloadGet ==
    /\ At(Download, "use")
    /\ \/ /\ Running(Download)
          /\ todo' = todo \ {link[Download]}
          /\ Go(Download, "next")
       \/ /\ ~Running(Download) \/ "get" \in Unreliable
          /\ Go(Download, "undoOut") /\ UNCHANGED todo
    /\ UNCHANGED <<session, gate, preview, controller, click, link, old, cancelled,
                   committed>>

DownloadNext ==
    /\ At(Download, "next")
    /\ session' = IF Running(Download) THEN NoSession ELSE session
    /\ Go(Download, IF todo = {} THEN "undoOut" ELSE "login")
    /\ UNCHANGED <<gate, preview, controller, old, cancelled>> /\ OpFrame

(* restoreMega and the deferred restoreMegaSessionSilent run on a context  *)
(* of their own.                                                           *)
UndoOut(p) ==
    /\ At(p, "undoOut")
    /\ session' = NoSession
    /\ Go(p, "undoIn")
    /\ UNCHANGED <<gate, preview, controller, old, cancelled>> /\ OpFrame

UndoIn(p) ==
    /\ At(p, "undoIn")
    /\ LogBackIn(old[p])
    /\ Go(p, "leave")
    /\ UNCHANGED <<gate, preview, controller, old, cancelled>> /\ OpFrame

(***************************************************************************)
(* startMegaPreview: an ExactGuard check, a Deep Verify, media data or the *)
(* player asks for a stream (remoteTarget).  The controller is not told.   *)
(* With the folder already recorded as open, its known stream is handed    *)
(* out, or the file is looked up in it first; else the preview is ended    *)
(* and the folder opened, on a context that nobody cancels.                *)
(***************************************************************************)
SameFolder == preview.active /\ preview.url = link[Target]

TargetLock ==
    /\ At(Target, "lock") /\ PreviewFree
    /\ \/ SameFolder /\ (Go(Target, "leave") \/ Go(Target, "switch"))
       \/ ~SameFolder /\ Go(Target, IF preview.active THEN "stopOut" ELSE "probe")
    /\ UNCHANGED <<session, gate, preview, controller, old, cancelled>> /\ OpFrame

(* A switch that fails leaves the preview as it was. *)
TargetSwitch ==
    /\ At(Target, "switch")
    /\ \/ /\ session = link[Target]
          /\ old' = [old EXCEPT ![Target] = preview.prev]
          /\ Go(Target, "record")
       \/ /\ session # link[Target] \/ "webdav" \in Unreliable
          /\ Go(Target, "leave") /\ UNCHANGED old
    /\ UNCHANGED <<session, gate, preview, controller, cancelled>> /\ OpFrame

TargetServe ==
    /\ At(Target, "use")
    /\ \/ Go(Target, "record")
       \/ "webdav" \in Unreliable /\ Go(Target, "undoOut")
    /\ UNCHANGED <<session, gate, preview, controller, old, cancelled>> /\ OpFrame

TargetRecord ==
    /\ At(Target, "record")
    /\ preview' = Keep(link[Target], old[Target])
    /\ Go(Target, "leave")
    /\ UNCHANGED <<session, gate, controller, old, cancelled>> /\ OpFrame

(***************************************************************************)
(* shutdownApp and settleMegaOnShutdown.                                   *)
(***************************************************************************)
SettleClose ==
    /\ At(Settle, "close")
    /\ closed' = TRUE
    /\ Go(Settle, "wait")
    /\ cancelled' = cancelled \cup {Download}
    /\ UNCHANGED <<session, gate, preview, generation, selection, source, routes,
                   sources, jobs, old>> /\ OpFrame

SettleTake ==
    /\ At(Settle, "take") /\ PreviewFree
    /\ old' = [old EXCEPT ![Settle] = preview.prev]
    /\ preview' = NoPreview
    /\ Go(Settle, IF preview.active /\ preview.prev # NoSession
                  THEN "settleOut" ELSE "leave")
    /\ UNCHANGED <<session, gate, controller, cancelled>> /\ OpFrame

SettleOut ==
    /\ At(Settle, "settleOut")
    /\ session' = NoSession
    /\ Go(Settle, "settleIn")
    /\ UNCHANGED <<gate, preview, controller, old, cancelled>> /\ OpFrame

SettleIn ==
    /\ At(Settle, "settleIn")
    /\ LogBackIn(old[Settle])
    /\ Go(Settle, "leave")
    /\ UNCHANGED <<gate, preview, controller, old, cancelled>> /\ OpFrame

StopStep == OpAcquire(Stop) \/ OpGiveUp(Stop) \/ OpInvalidate(Stop) \/ StopLook
            \/ OpLock(Stop) \/ OpStopOut(Stop) \/ OpStopIn(Stop) \/ Leave(Stop)

TargetStep ==
    \/ OpAcquire(Target) \/ OpGiveUp(Target) \/ TargetLock \/ TargetSwitch
    \/ OpStopOut(Target) \/ OpStopIn(Target) \/ WorkProbe(Target) \/ WorkDetach(Target)
    \/ WorkLogin(Target) \/ TargetServe \/ TargetRecord \/ UndoOut(Target)
    \/ UndoIn(Target) \/ Leave(Target)

WorkStep(p) ==
    \/ OpAcquire(p) \/ OpGiveUp(p) \/ OpInvalidate(p) \/ OpLock(p) \/ OpStopOut(p)
    \/ OpStopIn(p) \/ WorkProbe(p) \/ WorkDetach(p) \/ WorkLogin(p) \/ UndoOut(p)
    \/ UndoIn(p) \/ Leave(p)

ScanStep == WorkStep(Scan) \/ ScanFind \/ ScanCompare \/ ScanKeep
DownloadStep == WorkStep(Download) \/ DownloadGet \/ DownloadNext

SettleStep == OpAcquire(Settle) \/ OpGiveUp(Settle) \/ OpInvalidate(Settle)
              \/ SettleClose \/ SettleTake \/ SettleOut \/ SettleIn \/ Leave(Settle)

(***************************************************************************)
(* What starts and cancels the operations.                                 *)
(***************************************************************************)
StartStop ==
    /\ At(Stop, "idle") /\ Go(Stop, "invalidate")
    /\ UNCHANGED <<session, gate, preview, controller, old, cancelled>> /\ OpFrame

StartScan(u) ==
    /\ At(Scan, "idle")
    /\ Go(Scan, "wait") /\ link' = [link EXCEPT ![Scan] = u]
    /\ UNCHANGED <<session, gate, preview, controller, click, todo, old, cancelled,
                   committed>>

StartTarget(u) ==
    /\ At(Target, "idle")
    /\ Go(Target, "wait") /\ link' = [link EXCEPT ![Target] = u]
    /\ UNCHANGED <<session, gate, preview, controller, click, todo, old, cancelled,
                   committed>>

StartDownload(us) ==
    /\ At(Download, "idle")
    /\ Go(Download, "wait") /\ todo' = us
    /\ UNCHANGED <<session, gate, preview, controller, click, link, old, cancelled,
                   committed>>

(* shutdownApp begins by cancelling the scan. *)
StartShutdown ==
    /\ At(Settle, "idle") /\ Go(Settle, "invalidate")
    /\ cancelled' = cancelled \cup {Scan}
    /\ UNCHANGED <<session, gate, preview, controller, old>> /\ OpFrame

Cancel(p) ==
    /\ ~Exited /\ pc[p] \notin {"idle", "done"} /\ Running(p)
    /\ cancelled' = cancelled \cup {p}
    /\ UNCHANGED <<session, gate, preview, controller, click, pc, link, todo, old,
                   committed>>

User ==
    \/ \E i \in Items, f \in BOOLEAN : ClickRead(i, f)
    \/ CancelCurrent \/ Evict
    \/ StartStop \/ StartShutdown
    \/ \E u \in Urls : StartScan(u) \/ StartTarget(u)
    \/ \E us \in SUBSET Urls \ {{}} : StartDownload(us)
    \/ \E p \in Workers : Cancel(p)

Request == ClickRefused \/ ClickCached \/ ClickManaged

(* The program has ended. *)
Ended == Exited /\ UNCHANGED vars

Next == User \/ Request \/ (\E j \in Jobs : JobStep(j)) \/ StopStep \/ ScanStep
        \/ DownloadStep \/ TargetStep \/ SettleStep \/ Ended

Spec == Init /\ [][Next]_vars

(* Every command and every wait for the gate has a timeout, so what has    *)
(* begun goes on; nobody has to click, cancel, start or close anything.    *)
FairSpec ==
    /\ Spec
    /\ \A j \in Jobs : WF_vars(JobStep(j))
    /\ WF_vars(Request) /\ WF_vars(StopStep) /\ WF_vars(ScanStep)
    /\ WF_vars(DownloadStep) /\ WF_vars(TargetStep) /\ WF_vars(SettleStep)

(***************************************************************************)
(* Properties.                                                             *)
(***************************************************************************)

(* README.md:24: nobody logs in or out but the operation that holds the    *)
(* gate, and the gate changes hands only when it is free.                  *)
Exclusive == INSTANCE ExclusiveSession
Arbitrated == Exclusive!Spec

(* While a scan lists, compares and keeps its folder, while a download     *)
(* gets a file, and from the answer that a preview file is served until    *)
(* the preview is recorded, by a selection or by startMegaPreview, MEGAcmd *)
(* is in the folder that operation wants: no other selection, preview, stop*)
(* or shutdown moves the session under it (README.md:24).                  *)
Using == {"use", "compare", "keep", "opened", "check", "remember", "commit", "publish",
          "record"}
WorksInItsFolder == \A p \in Procs : pc[p] \in Using => session = link[p]

(* A preview is recorded as open (App.preview) only for the folder that    *)
(* MEGAcmd is in at that moment, however long ago the command that said so *)
(* returned and whatever has been clicked since.                           *)
RecordsOpenFolder ==
    [][preview' # preview /\ preview'.active => session = preview'.url]_vars

(* As long as a preview is recorded, MEGAcmd is not in the user's account. *)
(* The plain `logout` of stopMegaPreviewLocked, which would discard that   *)
(* session for good, therefore never meets it.                             *)
Ending(p) == pc[p] \in {"stopOut", "stopIn"}
AccountNotEnded ==
    preview.active /\ (\A p \in Ops : ~Ending(p)) => session # Account

(* The last selection wins: a job that was overtaken does not write        *)
(* App.preview after a later one did, although jobs do not get the gate in *)
(* the order of their clicks.                                              *)
LatestWins == [][committed' >= committed]_vars

(* Every selection is answered: its ready channel is closed, with a target *)
(* or an error, unless the program has ended.                              *)
SelectionAnswered == \A j \in Jobs : pc[j] = "wait" ~> pc[j] = "done" \/ Exited

(* lifecycle.go:163-165: "If DDG did replace a previous session, the old   *)
(* session is still restored exactly as before."  Stated for a program that*)
(* only shows previews, begins in the user's account and ends with every   *)
(* selection answered.                                                     *)
OnlyPreviews == \A p \in {Scan, Download, Stop, Target} : pc[p] = "idle"
Answered == \A j \in Jobs : pc[j] \in {"idle", "done"}
SessionRestored ==
    Initially = {Account} /\ OnlyPreviews /\ Answered /\ Exited => session = Account

=============================================================================
