------------------------- MODULE MegaSessionProofs -------------------------
(***************************************************************************)
(* Proofs about MegaSession: its types, the exclusive use of the session,  *)
(* and what follows from it for those who use it.                          *)
(***************************************************************************)
EXTENDS MegaSession, TLAPS

Steps == JobSteps \cup OpSteps \cup {"idle", "leave", "done"}
Source == [live : BOOLEAN, proven : BOOLEAN, prev : Sessions, recoveries : 0 .. 1]
Job == [item : Items \cup {Free}, live : BOOLEAN, src : 0 .. MaxSelections,
        result : Results]

ServerTyped ==
    /\ session \in Sessions
    /\ gate \in Procs \cup {Free}
    /\ preview \in Previews
    /\ committed \in 0 .. MaxSelections

ProcsTyped ==
    /\ pc \in [Procs -> Steps]
    /\ link \in [Procs -> Sessions]
    /\ todo \subseteq Urls
    /\ old \in [Procs -> Sessions]
    /\ cancelled \subseteq Ops

ControlTyped ==
    /\ generation \in 0 .. MaxSelections
    /\ selection \in 0 .. generation
    /\ closed \in BOOLEAN
    /\ source \in 0 .. generation
    /\ routes \subseteq Items
    /\ click \in Selected \cup {Free}

TablesTyped ==
    /\ sources \in [Jobs -> Source]
    /\ jobs \in [Jobs -> Job]

(* A request between its locks has a generation left to take; a job under  *)
(* way has its source, file and folder.                                     *)
Room == click # Free => generation < MaxSelections
Started ==
    \A j \in Jobs : pc[j] \notin {"idle", "done"} =>
        jobs[j].item \in Items /\ jobs[j].src \in Jobs /\ link[j] \in Urls
OpsLinked == \A p \in {Scan, Target} : pc[p] # "idle" => link[p] \in Urls

Typed == ServerTyped /\ ProcsTyped /\ ControlTyped /\ TablesTyped /\ Room
         /\ Started /\ OpsLinked

LEMMA TypedIsTypeOK == Typed => TypeOK
BY DEF Typed, TypeOK, ServerTyped, ProcsTyped, ControlTyped, TablesTyped, Steps,
       Source, Job

LEMMA ProcFacts ==
    /\ Jobs \subseteq Procs /\ Ops \subseteq Procs
    /\ Scan \in Ops /\ Download \in Ops /\ Stop \in Ops /\ Settle \in Ops
    /\ Target \in Ops /\ Target \notin Jobs
    /\ Scan \notin Jobs /\ Download \notin Jobs /\ Stop \notin Jobs /\ Settle \notin Jobs
    /\ Free \notin Procs
<1>1. Jobs \subseteq Procs /\ Ops \subseteq Procs
  BY DEF Procs
<1>2. /\ Scan \in Ops /\ Download \in Ops /\ Stop \in Ops /\ Settle \in Ops
      /\ Target \in Ops
  BY DEF Ops
<1>3. Ops \cap Jobs = {} /\ Free \notin Procs
  BY MegaAssumption
<1> QED
  BY <1>1, <1>2, <1>3

LEMMA TypedInit == Init => Typed
<1> SUFFICES ASSUME Init PROVE Typed
  OBVIOUS
<1> USE MegaAssumption DEF Init
<1>1. ServerTyped
  BY DEF ServerTyped, Sessions, Previews, NoPreview
<1>2. ProcsTyped
  BY DEF ProcsTyped, Steps, Sessions
<1>3. ControlTyped
  <2>1. MaxSelections \in Nat /\ 0 \in 0 .. MaxSelections /\ 0 \in 0 .. 0
    OBVIOUS
  <2> QED
    BY <2>1 DEF ControlTyped
<1>4. TablesTyped
  BY DEF TablesTyped, Source, Job, Sessions, Results
<1>5. Room /\ Started /\ OpsLinked
  BY ProcFacts DEF Room, Started, OpsLinked
<1> QED
  BY <1>1, <1>2, <1>3, <1>4, <1>5 DEF Typed

(* What the pieces of a step do to the types. *)
LEMMA GoTyped ==
    ASSUME ProcsTyped, NEW p \in Procs, NEW l \in Steps, Go(p, l)
    PROVE  /\ pc' \in [Procs -> Steps]
           /\ pc'[p] = l
           /\ \A q \in Procs : q # p => pc'[q] = pc[q]
BY DEF ProcsTyped, Go

LEMMA AnswerTyped ==
    ASSUME TablesTyped, NEW j \in Jobs, NEW r \in Results, Answer(j, r)
    PROVE  /\ jobs' \in [Jobs -> Job]
           /\ \A k \in Jobs : jobs'[k].src = jobs[k].src /\ jobs'[k].item = jobs[k].item
BY DEF TablesTyped, Answer, Job

LEMMA LookupTyped ==
    ASSUME NEW j \in Jobs, NEW r \in Lookup(j)
    PROVE  r \in {"ok", "auth", "missing", "pipe", "other"}
           /\ (r = "ok" => session = link[j])
BY DEF Lookup

(* What moves one operation, and leaves the tables' sources and folders. *)
LEMMA StillStarted ==
    ASSUME Typed, NEW p \in Procs, pc[p] # "idle", p \in Jobs => pc[p] # "done",
           pc' \in [Procs -> Steps], \A q \in Procs : q # p => pc'[q] = pc[q],
           UNCHANGED link,
           \A k \in Jobs : jobs'[k].src = jobs[k].src /\ jobs'[k].item = jobs[k].item
    PROVE  Started' /\ OpsLinked'
BY ProcFacts DEF Typed, ProcsTyped, Started, OpsLinked

LEMMA SourceTyped ==
    ASSUME TablesTyped, NEW s \in Jobs, NEW b \in BOOLEAN, NEW x \in Sessions
    PROVE  /\ [sources EXCEPT ![s].proven = b] \in [Jobs -> Source]
           /\ [sources EXCEPT ![s].recoveries = 1] \in [Jobs -> Source]
           /\ [sources EXCEPT ![s].prev = x, ![s].proven = TRUE] \in [Jobs -> Source]
<1>1. sources \in [Jobs -> Source] /\ sources[s] \in Source
  BY DEF TablesTyped
<1>2. /\ [sources[s] EXCEPT !.proven = b] \in Source
      /\ [sources[s] EXCEPT !.recoveries = 1] \in Source
  BY <1>1 DEF Source
<1>3. [[sources[s] EXCEPT !.prev = x] EXCEPT !.proven = TRUE] \in Source
  BY <1>1 DEF Source
<1>4. \A r \in Source : [sources EXCEPT ![s] = r] \in [Jobs -> Source]
  BY <1>1
<1> QED
  BY <1>1, <1>2, <1>3, <1>4

LEMMA OldTyped ==
    ASSUME ProcsTyped, NEW p \in Procs, NEW x \in Sessions
    PROVE  [old EXCEPT ![p] = x] \in [Procs -> Sessions]
BY DEF ProcsTyped

(* A job under way has a source with a session to go back to.              *)
LEMMA HasSource ==
    ASSUME Typed, NEW j \in Jobs, pc[j] \notin {"idle", "done"}
    PROVE  /\ jobs[j].src \in Jobs /\ jobs[j].item \in Items /\ link[j] \in Urls
           /\ Src(j) \in Source /\ Src(j).prev \in Sessions
<1>1. jobs[j].src \in Jobs /\ jobs[j].item \in Items /\ link[j] \in Urls
  BY DEF Typed, Started, TablesTyped
<1>2. sources[jobs[j].src] \in Source
  BY <1>1 DEF Typed, TablesTyped
<1> QED
  BY <1>1, <1>2 DEF Src, Source

(* One job moves: what it may change, and what that leaves to show.        *)
LEMMA JobMoved ==
    ASSUME Typed, NEW j \in Jobs, NEW l \in Steps, Go(j, l), pc[j] \notin {"idle", "done"},
           jobs' = jobs \/ (\E r \in Results : Answer(j, r)),
           sources' \in [Jobs -> Source], old' \in [Procs -> Sessions],
           routes' \subseteq Items, session' \in Sessions, preview' \in Previews,
           committed' \in 0 .. MaxSelections,
           UNCHANGED <<gate, generation, selection, closed, source, click, link, todo,
                       cancelled>>
    PROVE  Typed'
<1>1. pc' \in [Procs -> Steps] /\ \A q \in Procs : q # j => pc'[q] = pc[q]
  BY GoTyped, ProcFacts DEF Typed
<1>2. jobs' \in [Jobs -> Job] /\ \A k \in Jobs : jobs'[k].src = jobs[k].src /\ jobs'[k].item = jobs[k].item
  BY AnswerTyped DEF Typed, TablesTyped
<1>3. Started' /\ OpsLinked'
  BY <1>1, <1>2, StillStarted, ProcFacts
<1>4. ServerTyped' /\ ProcsTyped' /\ ControlTyped' /\ TablesTyped' /\ Room'
  BY <1>1, <1>2 DEF Typed, ServerTyped, ProcsTyped, ControlTyped, TablesTyped, Room
<1> QED
  BY <1>3, <1>4 DEF Typed

LEMMA JobStepTyped ==
    ASSUME Typed, NEW j \in Jobs, JobStep(j)
    PROVE  Typed'
<1> USE DEF At
<1>a. /\ ServerTyped /\ ProcsTyped /\ ControlTyped /\ TablesTyped
      /\ j \in Procs
      /\ session \in Sessions /\ NoSession \in Sessions /\ preview \in Previews
      /\ committed \in 0 .. MaxSelections /\ old \in [Procs -> Sessions]
      /\ routes \subseteq Items /\ sources \in [Jobs -> Source]
      /\ j \in 0 .. MaxSelections /\ TRUE \in BOOLEAN /\ FALSE \in BOOLEAN
  BY ProcFacts, MegaAssumption DEF Typed, ServerTyped, ProcsTyped, ControlTyped,
     TablesTyped, Sessions,
     Jobs
<1>b. pc[j] \notin {"idle", "done"} =>
        /\ jobs[j].src \in Jobs /\ jobs[j].item \in Items /\ link[j] \in Sessions
        /\ Src(j).prev \in Sessions
  BY HasSource DEF Sessions
<1>1. CASE JobAcquire(j)
  BY <1>1, ProcFacts DEF Typed, ServerTyped, ProcsTyped, ControlTyped, TablesTyped, Room,
     Started, OpsLinked, JobAcquire, Acquire, controller, Go, Steps, JobSteps
<1>2. CASE JobGiveUp(j)
  <2>1. PICK l \in Steps : Go(j, l)
    BY <1>2 DEF JobGiveUp, Steps, JobSteps
  <2>2. pc[j] \notin {"idle", "done"}
    BY <1>2 DEF JobGiveUp
  <2>3. jobs' = jobs \/ \E r \in Results : Answer(j, r)
    BY <1>2, LookupTyped DEF JobGiveUp, Results
  <2> QED
    BY <1>2, <1>a, <2>1, <2>2, <2>3, JobMoved DEF JobGiveUp, NoServer, NoControl, controller
<1>3. CASE JobDirect(j)
  <2>1. PICK l \in Steps : Go(j, l)
    BY <1>3 DEF JobDirect, Steps, JobSteps
  <2>2. pc[j] \notin {"idle", "done"}
    BY <1>3 DEF JobDirect
  <2>3. jobs' = jobs \/ \E r \in Results : Answer(j, r)
    BY <1>3, LookupTyped DEF JobDirect, Results
  <2> QED
    BY <1>3, <1>a, <2>1, <2>2, <2>3, JobMoved DEF JobDirect, NoServer, NoControl, controller
<1>4. CASE JobClaim(j)
  <2>1. PICK l \in Steps : Go(j, l)
    BY <1>4 DEF JobClaim, Steps, JobSteps
  <2>2. pc[j] \notin {"idle", "done"}
    BY <1>4 DEF JobClaim
  <2>3. sources' \in [Jobs -> Source]
    <3>1. \/ sources' = sources
          \/ sources' = [sources EXCEPT ![jobs[j].src].recoveries = 1]
      BY <1>4 DEF JobClaim
    <3>2. [sources EXCEPT ![jobs[j].src].recoveries = 1] \in [Jobs -> Source]
      BY <1>a, <1>b, <2>2, SourceTyped
    <3> QED
      BY <1>a, <3>1, <3>2
  <2> QED
    BY <1>4, <1>a, <2>1, <2>2, <2>3, JobMoved DEF JobClaim, NoServer, NoControl, controller
<1>5. CASE JobRecover(j)
  <2>1. PICK l \in Steps : Go(j, l)
    BY <1>5 DEF JobRecover, Steps, JobSteps
  <2>2. pc[j] \notin {"idle", "done"}
    BY <1>5 DEF JobRecover
  <2>3. jobs' = jobs \/ \E r \in Results : Answer(j, r)
    BY <1>5, LookupTyped DEF JobRecover, Results
  <2>4. sources' \in [Jobs -> Source]
    <3>1. \/ sources' = sources
          \/ sources' = [sources EXCEPT ![jobs[j].src].proven = FALSE]
      BY <1>5 DEF JobRecover
    <3>2. [sources EXCEPT ![jobs[j].src].proven = FALSE] \in [Jobs -> Source]
      BY <1>a, <1>b, <2>2, SourceTyped
    <3> QED
      BY <1>a, <3>1, <3>2
  <2>5. session' \in Sessions
    BY <1>5, <1>a, <1>b, <2>2 DEF JobRecover, Keep, Previews, Sessions, Job
  <2> QED
    BY <1>5, <1>a, <2>1, <2>2, <2>3, <2>4, <2>5, JobMoved DEF JobRecover, NoServer,
       NoControl, controller
<1>6. CASE JobRetry(j)
  <2>1. PICK l \in Steps : Go(j, l)
    BY <1>6 DEF JobRetry, Steps, JobSteps
  <2>2. pc[j] \notin {"idle", "done"}
    BY <1>6 DEF JobRetry
  <2>3. jobs' = jobs \/ \E r \in Results : Answer(j, r)
    BY <1>6, LookupTyped DEF JobRetry, Results
  <2> QED
    BY <1>6, <1>a, <2>1, <2>2, <2>3, JobMoved DEF JobRetry, NoServer, NoControl, controller
<1>7. CASE JobDecide(j)
  <2>1. PICK l \in Steps : Go(j, l)
    BY <1>7 DEF JobDecide, Steps, JobSteps
  <2>2. pc[j] \notin {"idle", "done"}
    BY <1>7 DEF JobDecide
  <2>3. sources' \in [Jobs -> Source]
    BY <1>7, <1>a, <1>b, <2>2, SourceTyped DEF JobDecide
  <2> QED
    BY <1>7, <1>a, <2>1, <2>2, <2>3, JobMoved DEF JobDecide, NoServer, NoControl, controller
<1>8. CASE JobResume(j)
  <2>1. PICK l \in Steps : Go(j, l)
    BY <1>8 DEF JobResume, Steps, JobSteps
  <2>2. pc[j] \notin {"idle", "done"}
    BY <1>8 DEF JobResume
  <2>3. jobs' = jobs \/ \E r \in Results : Answer(j, r)
    BY <1>8, LookupTyped DEF JobResume, Results
  <2>4. old' \in [Procs -> Sessions]
    BY <1>8, <1>a, <1>b, <2>2, OldTyped DEF JobResume
  <2> QED
    BY <1>8, <1>a, <2>1, <2>2, <2>3, <2>4, JobMoved DEF JobResume, NoServer, NoControl,
       controller
<1>9. CASE JobProbe(j)
  <2>1. PICK l \in Steps : Go(j, l)
    BY <1>9 DEF JobProbe, Steps, JobSteps
  <2>2. pc[j] \notin {"idle", "done"}
    BY <1>9 DEF JobProbe
  <2>3. old' \in [Procs -> Sessions]
    BY <1>9, <1>a, <1>b, <2>2, OldTyped DEF JobProbe
  <2> QED
    BY <1>9, <1>a, <2>1, <2>2, <2>3, JobMoved DEF JobProbe, NoServer, NoControl, controller
<1>10. CASE JobDetach(j)
  <2>1. PICK l \in Steps : Go(j, l)
    BY <1>10 DEF JobDetach, Steps, JobSteps
  <2>2. pc[j] \notin {"idle", "done"}
    BY <1>10 DEF JobDetach
  <2>3. session' \in Sessions
    BY <1>10, <1>a, <1>b, <2>2 DEF JobDetach, Keep, Previews, Sessions, Job
  <2> QED
    BY <1>10, <1>a, <2>1, <2>2, <2>3, JobMoved DEF JobDetach, NoServer, NoControl,
       controller
<1>11. CASE JobLogin(j)
  <2>1. PICK l \in Steps : Go(j, l)
    BY <1>11 DEF JobLogin, Steps, JobSteps
  <2>2. pc[j] \notin {"idle", "done"}
    BY <1>11 DEF JobLogin
  <2>3. jobs' = jobs \/ \E r \in Results : Answer(j, r)
    BY <1>11, LookupTyped DEF JobLogin, Results
  <2>4. session' \in Sessions
    BY <1>11, <1>a, <1>b, <2>2 DEF JobLogin, Keep, Previews, Sessions, Job
  <2> QED
    BY <1>11, <1>a, <2>1, <2>2, <2>3, <2>4, JobMoved DEF JobLogin, NoServer, NoControl,
       controller
<1>12. CASE JobOpened(j)
  <2>1. PICK l \in Steps : Go(j, l)
    BY <1>12 DEF JobOpened, Steps, JobSteps
  <2>2. pc[j] \notin {"idle", "done"}
    BY <1>12 DEF JobOpened
  <2>3. sources' \in [Jobs -> Source]
    BY <1>12, <1>a, <1>b, <2>2, SourceTyped DEF JobOpened
  <2> QED
    BY <1>12, <1>a, <2>1, <2>2, <2>3, JobMoved DEF JobOpened, NoServer, NoControl,
       controller
<1>13. CASE JobAgain(j)
  <2>1. PICK l \in Steps : Go(j, l)
    BY <1>13 DEF JobAgain, Steps, JobSteps
  <2>2. pc[j] \notin {"idle", "done"}
    BY <1>13 DEF JobAgain
  <2>3. jobs' = jobs \/ \E r \in Results : Answer(j, r)
    BY <1>13, LookupTyped DEF JobAgain, Results
  <2> QED
    BY <1>13, <1>a, <2>1, <2>2, <2>3, JobMoved DEF JobAgain, NoServer, NoControl, controller
<1>14. CASE JobCheck(j)
  <2>1. PICK l \in Steps : Go(j, l)
    BY <1>14 DEF JobCheck, Steps, JobSteps
  <2>2. pc[j] \notin {"idle", "done"}
    BY <1>14 DEF JobCheck
  <2>3. jobs' = jobs \/ \E r \in Results : Answer(j, r)
    BY <1>14, LookupTyped DEF JobCheck, Results
  <2> QED
    BY <1>14, <1>a, <2>1, <2>2, <2>3, JobMoved DEF JobCheck, NoServer, NoControl, controller
<1>15. CASE JobRemember(j)
  <2>1. PICK l \in Steps : Go(j, l)
    BY <1>15 DEF JobRemember, Steps, JobSteps
  <2>2. pc[j] \notin {"idle", "done"}
    BY <1>15 DEF JobRemember
  <2>3. sources' \in [Jobs -> Source]
    BY <1>15, <1>a, <1>b, <2>2, SourceTyped DEF JobRemember
  <2>4. routes' \subseteq Items
    BY <1>15, <1>a, <1>b, <2>2 DEF JobRemember, Keep, Previews, Sessions, Job
  <2> QED
    BY <1>15, <1>a, <2>1, <2>2, <2>3, <2>4, JobMoved DEF JobRemember, NoServer, NoControl,
       controller
<1>16. CASE JobCommit(j)
  <2>1. PICK l \in Steps : Go(j, l)
    BY <1>16 DEF JobCommit, Steps, JobSteps
  <2>2. pc[j] \notin {"idle", "done"}
    BY <1>16 DEF JobCommit
  <2>3. old' \in [Procs -> Sessions]
    BY <1>16, <1>a, <1>b, <2>2, OldTyped DEF JobCommit
  <2> QED
    BY <1>16, <1>a, <2>1, <2>2, <2>3, JobMoved DEF JobCommit, NoServer, NoControl,
       controller
<1>17. CASE JobPublish(j)
  <2>1. PICK l \in Steps : Go(j, l)
    BY <1>17 DEF JobPublish, Steps, JobSteps
  <2>2. pc[j] \notin {"idle", "done"}
    BY <1>17 DEF JobPublish
  <2>3. preview' \in Previews /\ committed' \in 0 .. MaxSelections
    BY <1>17, <1>a, <1>b, <2>2 DEF JobPublish, Keep, Previews, Sessions, Job
  <2> QED
    BY <1>17, <1>a, <2>1, <2>2, <2>3, JobMoved DEF JobPublish, NoServer, NoControl,
       controller
<1>18. CASE Leave(j)
  BY <1>18, ProcFacts DEF Typed, ServerTyped, ProcsTyped, ControlTyped, TablesTyped, Room,
     Started, OpsLinked, Leave, controller, Go, Steps, Sessions
<1> QED
  BY <1>1, <1>2, <1>3, <1>4, <1>5, <1>6, <1>7, <1>8, <1>9, <1>10, <1>11, <1>12, <1>13,
     <1>14, <1>15, <1>16, <1>17, <1>18 DEF JobStep

LEMMA InvalidateTyped ==
    ASSUME Typed, Invalidate
    PROVE  /\ jobs' \in [Jobs -> Job] /\ sources' \in [Jobs -> Source]
           /\ \A k \in Jobs : jobs'[k].src = jobs[k].src /\ jobs'[k].item = jobs[k].item
<1> DEFINE dead(j) == [jobs[j] EXCEPT !.live = @ /\ j # selection]
           gone(s) == [sources[s] EXCEPT !.live = @ /\ s # source]
<1>1. jobs \in [Jobs -> Job] /\ sources \in [Jobs -> Source]
  BY DEF Typed, TablesTyped
<1>2. \A j \in Jobs : dead(j) \in Job /\ dead(j).src = jobs[j].src /\ dead(j).item = jobs[j].item
  BY <1>1 DEF Job
<1>3. \A s \in Jobs : gone(s) \in Source
  BY <1>1 DEF Source
<1>4. jobs' = [j \in Jobs |-> dead(j)] /\ sources' = [s \in Jobs |-> gone(s)]
  BY DEF Invalidate
<1> HIDE DEF dead, gone
<1> QED
  BY <1>2, <1>3, <1>4

LEMMA NewJobTyped ==
    ASSUME Typed, NEW g \in Jobs, NEW i \in Items, NEW s \in Jobs \cup {0},
           NEW r \in Results, NewJob(g, i, s, r)
    PROVE  /\ jobs' \in [Jobs -> Job]
           /\ jobs'[g].src = s /\ jobs'[g].item = i
           /\ \A k \in Jobs : k # g => jobs'[k].src = jobs[k].src /\ jobs'[k].item = jobs[k].item
<1> DEFINE new == [item |-> i, live |-> TRUE, src |-> s, result |-> r]
           dead(j) == [jobs[j] EXCEPT !.live = @ /\ j # selection]
<1>1. jobs \in [Jobs -> Job]
  BY DEF Typed, TablesTyped
<1>2. \A j \in Jobs : dead(j) \in Job /\ dead(j).src = jobs[j].src /\ dead(j).item = jobs[j].item
  BY <1>1 DEF Job
<1>3. new \in Job /\ new.src = s /\ new.item = i
  BY MegaAssumption DEF Job, Jobs
<1>4. jobs' = [j \in Jobs |-> IF j = g THEN new ELSE dead(j)]
  BY DEF NewJob
<1> HIDE DEF dead, new
<1> QED
  BY <1>2, <1>3, <1>4

(* An operation beside the previews that does not end the preview's job.   *)
LEMMA OpStepTyped ==
    ASSUME Typed, NEW p \in Ops,
           \/ OpAcquire(p) \/ OpGiveUp(p) \/ OpInvalidate(p) \/ OpLock(p)
           \/ OpStopOut(p) \/ OpStopIn(p) \/ Leave(p)
    PROVE  Typed'
<1> USE ProcFacts DEF Typed, ServerTyped, ProcsTyped, ControlTyped, TablesTyped, Room,
        Started, OpsLinked, OpFrame, Go, At, Steps, OpSteps, controller
<1>1. CASE OpAcquire(p)
  BY <1>1 DEF OpAcquire, Acquire
<1>2. CASE OpGiveUp(p)
  BY <1>2 DEF OpGiveUp
<1>3. CASE OpInvalidate(p)
  <2>1. Invalidate /\ p \in Procs
    BY <1>3 DEF OpInvalidate
  <2>2. /\ pc' \in [Procs -> Steps] /\ \A q \in Procs : q # p => pc'[q] = pc[q]
        /\ pc[p] = "invalidate" /\ UNCHANGED link
    BY <1>3 DEF OpInvalidate
  <2>3. /\ jobs' \in [Jobs -> Job] /\ sources' \in [Jobs -> Source]
        /\ \A k \in Jobs : jobs'[k].src = jobs[k].src /\ jobs'[k].item = jobs[k].item
    BY <2>1, InvalidateTyped
  <2>4. Started' /\ OpsLinked'
    BY <2>1, <2>2, <2>3, StillStarted
  <2>5. ServerTyped' /\ ProcsTyped' /\ TablesTyped' /\ Room'
    BY <1>3, <2>1, <2>2, <2>3 DEF OpInvalidate, Invalidate
  <2>6. ControlTyped'
    BY <1>3, MegaAssumption DEF OpInvalidate, Invalidate
  <2> QED
    BY <2>4, <2>5, <2>6
<1>4. CASE OpLock(p)
  BY <1>4 DEF OpLock, AfterStop
<1>5. CASE OpStopOut(p)
  BY <1>5 DEF OpStopOut, Sessions
<1>6. CASE OpStopIn(p)
  BY <1>6 DEF OpStopIn, AfterStop, LogBackIn, NoPreview, Previews, Sessions
<1>7. CASE Leave(p)
  BY <1>7 DEF Leave, Sessions
<1> QED
  BY <1>1, <1>2, <1>3, <1>4, <1>5, <1>6, <1>7

LEMMA WorkStepTyped ==
    ASSUME Typed, NEW p \in Workers \cup {Target},
           \/ WorkProbe(p) \/ WorkDetach(p) \/ WorkLogin(p) \/ UndoOut(p) \/ UndoIn(p)
    PROVE  Typed'
<1> USE ProcFacts DEF Typed, ServerTyped, ProcsTyped, ControlTyped, TablesTyped, Room,
        Started, OpsLinked, OpFrame, Go, At, Steps, OpSteps, controller, Workers, Sessions
<1>1. CASE WorkProbe(p)
  BY <1>1 DEF WorkProbe
<1>2. CASE WorkDetach(p)
  BY <1>2 DEF WorkDetach
<1>3. CASE WorkLogin(p)
  BY <1>3 DEF WorkLogin
<1>4. CASE UndoOut(p)
  BY <1>4 DEF UndoOut
<1>5. CASE UndoIn(p)
  BY <1>5 DEF UndoIn, LogBackIn
<1> QED
  BY <1>1, <1>2, <1>3, <1>4, <1>5

LEMMA OwnStepTyped ==
    ASSUME Typed,
           \/ StopLook \/ ScanFind \/ ScanCompare \/ ScanKeep \/ DownloadGet
           \/ DownloadNext \/ SettleClose \/ SettleTake \/ SettleOut \/ SettleIn
           \/ TargetLock \/ TargetSwitch \/ TargetServe \/ TargetRecord
    PROVE  Typed'
<1> USE ProcFacts DEF Typed, ServerTyped, ProcsTyped, ControlTyped, TablesTyped, Room,
        Started, OpsLinked, OpFrame, Go, At, Steps, OpSteps, controller
<1>1. CASE StopLook
  BY <1>1 DEF StopLook
<1>2. CASE ScanFind
  BY <1>2 DEF ScanFind
<1>3. CASE ScanCompare
  BY <1>3 DEF ScanCompare
<1>4. CASE ScanKeep
  BY <1>4 DEF ScanKeep, Keep, Previews, Sessions
<1>5. CASE DownloadGet
  BY <1>5 DEF DownloadGet
<1>6. CASE DownloadNext
  BY <1>6 DEF DownloadNext, Sessions
<1>7. CASE SettleClose
  BY <1>7 DEF SettleClose
<1>8. CASE SettleTake
  BY <1>8 DEF SettleTake, NoPreview, Previews, Sessions
<1>9. CASE SettleOut
  BY <1>9 DEF SettleOut, Sessions
<1>10. CASE SettleIn
  BY <1>10 DEF SettleIn, LogBackIn
<1>11. CASE TargetLock
  BY <1>11 DEF TargetLock
<1>12. CASE TargetSwitch
  BY <1>12 DEF TargetSwitch, Previews
<1>13. CASE TargetServe
  BY <1>13 DEF TargetServe
<1>14. CASE TargetRecord
  BY <1>14 DEF TargetRecord, Keep, Previews, Sessions
<1> QED
  BY <1>1, <1>2, <1>3, <1>4, <1>5, <1>6, <1>7, <1>8, <1>9, <1>10, <1>11, <1>12, <1>13,
     <1>14

LEMMA UserTyped == Typed /\ User => Typed'
<1> SUFFICES ASSUME Typed, User PROVE Typed'
  OBVIOUS
<1> USE ProcFacts DEF Typed, ServerTyped, ProcsTyped, ControlTyped, TablesTyped, Room,
        Started, OpsLinked, OpFrame, Go, At, Steps, OpSteps, controller
<1>1. ASSUME NEW i \in Items, NEW f \in BOOLEAN, ClickRead(i, f) PROVE Typed'
  BY <1>1, MegaAssumption DEF ClickRead, Selected
<1>2. CASE CancelCurrent
  <2> DEFINE dead == [jobs[selection] EXCEPT !.live = FALSE]
  <2>1. selection \in Jobs /\ jobs[selection] \in Job
    BY <1>2, MegaAssumption DEF CancelCurrent, Jobs
  <2>2. dead \in Job /\ dead.src = jobs[selection].src /\ dead.item = jobs[selection].item
    BY <2>1 DEF Job
  <2>3. jobs' = [jobs EXCEPT ![selection] = dead]
    BY <1>2 DEF CancelCurrent
  <2> HIDE DEF dead
  <2>4. /\ jobs' \in [Jobs -> Job]
        /\ \A k \in Jobs : jobs'[k].src = jobs[k].src /\ jobs'[k].item = jobs[k].item
    BY <2>1, <2>2, <2>3
  <2> QED
    BY <1>2, <2>4 DEF CancelCurrent
<1>3. CASE Evict
  BY <1>3 DEF Evict
<1>4. CASE StartStop
  BY <1>4, MegaAssumption DEF StartStop
<1>5. CASE StartShutdown
  BY <1>5, MegaAssumption DEF StartShutdown
<1>6. ASSUME NEW u \in Urls, StartScan(u) PROVE Typed'
  BY <1>6 DEF StartScan, Sessions
<1>7. ASSUME NEW us \in SUBSET Urls, StartDownload(us) PROVE Typed'
  BY <1>7, MegaAssumption DEF StartDownload
<1>8. ASSUME NEW p \in Workers, Cancel(p) PROVE Typed'
  BY <1>8 DEF Cancel, Workers
<1>9. ASSUME NEW u \in Urls, StartTarget(u) PROVE Typed'
  BY <1>9, MegaAssumption DEF StartTarget, Sessions
<1> QED
  BY <1>1, <1>2, <1>3, <1>4, <1>5, <1>6, <1>7, <1>8, <1>9 DEF User

LEMMA RequestTyped == Typed /\ Request => Typed'
<1> SUFFICES ASSUME Typed, Request PROVE Typed'
  OBVIOUS
<1> DEFINE g == generation + 1
<1>1. CASE ClickRefused
  BY <1>1 DEF ClickRefused, Typed, ServerTyped, ProcsTyped, ControlTyped, TablesTyped,
     Room, Started, OpsLinked, controller
<1>2. ASSUME click # Free PROVE g \in Jobs /\ g \in Procs /\ g \notin Ops /\ click \in Selected
  BY <1>2, ProcFacts, MegaAssumption DEF Typed, ControlTyped, Room, Jobs, Procs
<1>3. /\ pc \in [Procs -> Steps] /\ {"wait", "done"} \subseteq Steps
      /\ generation \in Nat /\ source \in 0 .. generation
  BY DEF Typed, ProcsTyped, ControlTyped, Steps, OpSteps
<1>4. CASE ClickCached
  <2>1. g \in Jobs /\ g \in Procs /\ g \notin Ops /\ click.item \in Items
    BY <1>2, <1>4, ProcFacts DEF ClickCached, Selected
  <2>2. /\ jobs' \in [Jobs -> Job]
        /\ \A k \in Jobs : k # g => jobs'[k].src = jobs[k].src /\ jobs'[k].item = jobs[k].item
    BY <1>4, <2>1, NewJobTyped DEF ClickCached, Results
  <2>3. /\ pc' \in [Procs -> Steps] /\ pc'[g] = "done"
        /\ \A q \in Procs : q # g => pc'[q] = pc[q]
    BY <1>3, <1>4, <2>1 DEF ClickCached, Go
  <2>4. ServerTyped' /\ ProcsTyped' /\ TablesTyped' /\ Room'
    BY <1>4, <2>2, <2>3 DEF ClickCached, Typed, ServerTyped, ProcsTyped, TablesTyped, Room
  <2>5. ControlTyped'
    BY <1>3, <1>4, <2>1 DEF ClickCached, Typed, ControlTyped, Jobs
  <2>6. Started' /\ OpsLinked'
    BY <1>4, <2>1, <2>2, <2>3, ProcFacts DEF ClickCached, Typed, Started, OpsLinked
  <2> QED
    BY <2>4, <2>5, <2>6 DEF Typed
<1>5. CASE ClickManaged
  <2> DEFINE u == UrlOf[click.item]
             made == [live |-> TRUE, recoveries |-> 0,
                      proven |-> click.warm.active /\ click.warm.url = u,
                      prev |-> IF click.warm.url = u THEN click.warm.prev ELSE NoSession]
             gone(s) == [sources[s] EXCEPT !.live = @ /\ s # source]
             same == source # 0 /\ SourceUrl = u
  <2>1. /\ g \in Jobs /\ g \in Procs /\ g \notin Ops /\ click.item \in Items
        /\ click.warm \in Previews
    BY <1>2, <1>5, ProcFacts DEF ClickManaged, Selected
  <2>2. u \in Urls /\ Urls \subseteq Sessions
    BY <2>1, MegaAssumption DEF Sessions
  <2>3. (IF same THEN source ELSE g) \in Jobs
    BY <1>3, <2>1, MegaAssumption DEF Jobs
  <2>4. /\ jobs' \in [Jobs -> Job]
        /\ jobs'[g].src \in Jobs /\ jobs'[g].item \in Items
        /\ \A k \in Jobs : k # g => jobs'[k].src = jobs[k].src /\ jobs'[k].item = jobs[k].item
    BY <1>5, <2>1, <2>3, NewJobTyped DEF ClickManaged, Results
  <2>5. sources' \in [Jobs -> Source]
    <3>1. sources \in [Jobs -> Source]
      BY DEF Typed, TablesTyped
    <3>2. made \in Source
      BY <2>1 DEF Source, Previews, Sessions
    <3>3. \A s \in Jobs : gone(s) \in Source
      BY <3>1 DEF Source
    <3>4. sources' = sources \/ sources' = [s \in Jobs |-> IF s = g THEN made ELSE gone(s)]
      BY <1>5 DEF ClickManaged
    <3> HIDE DEF made, gone, g
    <3> QED
      BY <3>1, <3>2, <3>3, <3>4
  <2>6. /\ pc' \in [Procs -> Steps] /\ pc'[g] = "wait"
        /\ \A q \in Procs : q # g => pc'[q] = pc[q]
    BY <1>3, <1>5, <2>1 DEF ClickManaged, Go
  <2>7. /\ link' \in [Procs -> Sessions] /\ link'[g] = u
        /\ \A q \in Procs : q # g => link'[q] = link[q]
    BY <1>5, <2>1, <2>2 DEF ClickManaged, Typed, ProcsTyped
  <2>8. ServerTyped' /\ ProcsTyped' /\ TablesTyped' /\ Room'
    BY <1>5, <2>4, <2>5, <2>6, <2>7 DEF ClickManaged, Typed, ServerTyped, ProcsTyped,
       TablesTyped, Room
  <2>9. ControlTyped'
    <3>1. generation' = g /\ selection' = g /\ click' = Free /\ closed' = closed
      BY <1>5 DEF ClickManaged
    <3>2. source' \in {source, g} /\ routes' \subseteq Items
      BY <1>5 DEF ClickManaged, Typed, ControlTyped
    <3> QED
      BY <1>3, <2>1, <3>1, <3>2 DEF Typed, ControlTyped, Jobs
  <2>10. Started' /\ OpsLinked'
    BY <2>1, <2>2, <2>4, <2>6, <2>7, ProcFacts DEF Typed, Started, OpsLinked
  <2> QED
    BY <2>8, <2>9, <2>10 DEF Typed
<1> QED
  BY <1>1, <1>4, <1>5 DEF Request

LEMMA TypedStep == Typed /\ [Next]_vars => Typed'
<1> SUFFICES ASSUME Typed, [Next]_vars PROVE Typed'
  OBVIOUS
<1> USE ProcFacts
<1>1. CASE User
  BY <1>1, UserTyped
<1>2. CASE Request
  BY <1>2, RequestTyped
<1>3. ASSUME NEW j \in Jobs, JobStep(j) PROVE Typed'
  BY <1>3, JobStepTyped
<1>4. CASE StopStep
  BY <1>4, OpStepTyped, OwnStepTyped DEF StopStep
<1>5. ASSUME NEW p \in Workers, WorkStep(p) PROVE Typed'
  <2>1. p \in Ops
    BY DEF Workers
  <2> QED
    BY <1>5, <2>1, OpStepTyped, WorkStepTyped DEF WorkStep
<1>6. CASE ScanStep \/ DownloadStep
  BY <1>5, <1>6, OwnStepTyped DEF ScanStep, DownloadStep, Workers
<1>7. CASE SettleStep
  BY <1>7, OpStepTyped, OwnStepTyped DEF SettleStep
<1>8. CASE UNCHANGED vars
  BY <1>8 DEF vars, controller, Typed, ServerTyped, ProcsTyped, ControlTyped, TablesTyped,
     Room, Started, OpsLinked
<1>9. CASE TargetStep
  BY <1>9, OpStepTyped, WorkStepTyped, OwnStepTyped DEF TargetStep
<1> QED
  BY <1>1, <1>2, <1>3, <1>4, <1>6, <1>7, <1>8, <1>9 DEF Next, Ended

(* Every variable keeps its type; a request never runs out of generations  *)
(* between its two locks, and a job under way has a source and a folder.   *)
THEOREM TypeCorrect == Spec => []TypeOK
<1>1. Init => Typed
  BY TypedInit
<1>2. Typed /\ [Next]_vars => Typed'
  BY TypedStep
<1> QED
  BY <1>1, <1>2, TypedIsTypeOK, PTL DEF Spec

(***************************************************************************)
(* The gate.  One operation moves at a time; only one that holds the gate  *)
(* touches the session or the recorded preview.                            *)
(***************************************************************************)
Outside == {"idle", "wait", "done", "look", "close"}
Holds(p) == pc[p] \notin Outside /\ (pc[p] = "invalidate" => p \notin {Stop, Settle})
Closed == {"probe", "detach", "login", "use", "next", "compare", "keep", "undoOut",
           "undoIn", "settleOut", "settleIn"}
HasClosed(p) == p \in Ops /\ pc[p] \in Closed

(* Nobody else moves, and what the gate, the session, the folder in use    *)
(* and the recorded preview have to do with the one who does.              *)
OthersStay(p) == \A q \in Procs : q # p => pc'[q] = pc[q] /\ link'[q] = link[q]
MovesGate(p) ==
    \/ gate' = gate /\ (Holds(p)' => Holds(p))
    \/ gate = Free /\ gate' = p /\ UNCHANGED <<session, preview>>
    \/ Holds(p) /\ ~Holds(p)' /\ gate' = Free /\ UNCHANGED <<session, preview>>
NeedsGate(p) == UNCHANGED <<session, preview>> \/ Holds(p)
MovesFolder(p) ==
    pc'[p] \in Using => \/ session' = link'[p]
                        \/ pc[p] \in Using /\ session' = session /\ link'[p] = link[p]
MovesPreview(p) ==
    /\ preview' # preview /\ preview'.active =>
         pc[p] \in Using /\ preview'.url = link[p] /\ link[p] \in Urls /\ session' = session
    /\ HasClosed(p)' => ~preview'.active \/ (HasClosed(p) /\ preview' = preview)
    /\ p \in Ops /\ Ending(p) => Ending(p)' \/ ~preview'.active
    /\ session' # session /\ session' = Account =>
         ~preview'.active \/ (HasClosed(p) /\ preview' = preview)
Moves(p) == OthersStay(p) /\ MovesGate(p) /\ NeedsGate(p) /\ MovesFolder(p) /\ MovesPreview(p)

LEMMA JobStepMoves ==
    ASSUME Typed, NEW j \in Jobs, JobStep(j)
    PROVE  Moves(j)
<1> USE ProcFacts, MegaAssumption DEF Typed, ServerTyped, ProcsTyped, ControlTyped, Started,
        OpsLinked, Go, At, NoServer, NoControl, controller, Acquire, OpFrame, Moves,
        OthersStay, MovesGate, NeedsGate, MovesFolder, MovesPreview, Holds, Outside, Closed,
        HasClosed, Using, Ending, Ops, Workers
<1>1. CASE JobAcquire(j)
  BY <1>1 DEF JobAcquire
<1>2. CASE JobGiveUp(j)
  BY <1>2 DEF JobGiveUp
<1>3. CASE JobDirect(j)
  BY <1>3, LookupTyped DEF JobDirect
<1>4. CASE JobClaim(j)
  BY <1>4 DEF JobClaim
<1>5. CASE JobRecover(j)
  BY <1>5 DEF JobRecover
<1>6. CASE JobRetry(j)
  BY <1>6, LookupTyped DEF JobRetry
<1>7. CASE JobDecide(j)
  BY <1>7 DEF JobDecide
<1>8. CASE JobResume(j)
  BY <1>8 DEF JobResume
<1>9. CASE JobProbe(j)
  BY <1>9 DEF JobProbe
<1>10. CASE JobDetach(j)
  BY <1>10 DEF JobDetach
<1>11. CASE JobLogin(j)
  BY <1>11 DEF JobLogin
<1>12. CASE JobOpened(j)
  BY <1>12 DEF JobOpened
<1>13. CASE JobAgain(j)
  BY <1>13, LookupTyped DEF JobAgain
<1>14. CASE JobCheck(j)
  BY <1>14 DEF JobCheck
<1>15. CASE JobRemember(j)
  BY <1>15 DEF JobRemember
<1>16. CASE JobCommit(j)
  BY <1>16 DEF JobCommit
<1>17. CASE JobPublish(j)
  BY <1>17 DEF JobPublish, Keep, Previews
<1>18. CASE Leave(j)
  BY <1>18 DEF Leave
<1> QED
  BY <1>1, <1>2, <1>3, <1>4, <1>5, <1>6, <1>7, <1>8, <1>9, <1>10, <1>11, <1>12, <1>13,
     <1>14, <1>15, <1>16, <1>17, <1>18 DEF JobStep

LEMMA OpStepMoves ==
    ASSUME Typed, NEW p \in Ops,
           \/ OpAcquire(p) \/ OpGiveUp(p) \/ OpInvalidate(p) \/ OpLock(p)
           \/ OpStopOut(p) \/ OpStopIn(p) \/ Leave(p)
    PROVE  Moves(p)
<1> USE ProcFacts, MegaAssumption DEF Typed, ServerTyped, ProcsTyped, ControlTyped, Started,
        OpsLinked, Go, At, NoServer, NoControl, controller, Acquire, OpFrame, Moves,
        OthersStay, MovesGate, NeedsGate, MovesFolder, MovesPreview, Holds, Outside, Closed,
        HasClosed, Using, Ending, Ops, Workers
<1>1. CASE OpAcquire(p)
  BY <1>1 DEF OpAcquire
<1>2. CASE OpGiveUp(p)
  BY <1>2 DEF OpGiveUp
<1>3. CASE OpInvalidate(p)
  BY <1>3 DEF OpInvalidate
<1>4. CASE OpLock(p)
  BY <1>4 DEF OpLock, AfterStop
<1>5. CASE OpStopOut(p)
  BY <1>5 DEF OpStopOut
<1>6. CASE OpStopIn(p)
  BY <1>6 DEF OpStopIn, AfterStop, LogBackIn, NoPreview, Previews
<1>7. CASE Leave(p)
  BY <1>7 DEF Leave
<1> QED
  BY <1>1, <1>2, <1>3, <1>4, <1>5, <1>6, <1>7

LEMMA WorkStepMoves ==
    ASSUME Typed, NEW p \in Workers \cup {Target},
           \/ WorkProbe(p) \/ WorkDetach(p) \/ WorkLogin(p) \/ UndoOut(p) \/ UndoIn(p)
    PROVE  Moves(p)
<1> USE ProcFacts, MegaAssumption DEF Typed, ServerTyped, ProcsTyped, ControlTyped, Started,
        OpsLinked, Go, At, NoServer, NoControl, controller, Acquire, OpFrame, Moves,
        OthersStay, MovesGate, NeedsGate, MovesFolder, MovesPreview, Holds, Outside, Closed,
        HasClosed, Using, Ending, Ops, Workers
<1>1. CASE WorkProbe(p)
  BY <1>1 DEF WorkProbe, Running
<1>2. CASE WorkDetach(p)
  BY <1>2 DEF WorkDetach, Running
<1>3. CASE WorkLogin(p)
  BY <1>3 DEF WorkLogin, Running
<1>4. CASE UndoOut(p)
  BY <1>4 DEF UndoOut
<1>5. CASE UndoIn(p)
  BY <1>5 DEF UndoIn, LogBackIn
<1> QED
  BY <1>1, <1>2, <1>3, <1>4, <1>5

LEMMA ScanStepMoves ==
    ASSUME Typed, ScanFind \/ ScanCompare \/ ScanKeep
    PROVE  Moves(Scan)
<1> USE ProcFacts, MegaAssumption DEF Typed, ServerTyped, ProcsTyped, ControlTyped, Started,
        OpsLinked, Go, At, NoServer, NoControl, controller, Acquire, OpFrame, Moves,
        OthersStay, MovesGate, NeedsGate, MovesFolder, MovesPreview, Holds, Outside, Closed,
        HasClosed, Using, Ending, Ops, Workers
<1>1. CASE ScanFind
  BY <1>1 DEF ScanFind, Running
<1>2. CASE ScanCompare
  BY <1>2 DEF ScanCompare, Running
<1>3. CASE ScanKeep
  BY <1>3 DEF ScanKeep, Keep, Previews
<1> QED
  BY <1>1, <1>2, <1>3

LEMMA DownloadStepMoves ==
    ASSUME Typed, DownloadGet \/ DownloadNext
    PROVE  Moves(Download)
<1> USE ProcFacts, MegaAssumption DEF Typed, ServerTyped, ProcsTyped, ControlTyped, Started,
        OpsLinked, Go, At, NoServer, NoControl, controller, Acquire, OpFrame, Moves,
        OthersStay, MovesGate, NeedsGate, MovesFolder, MovesPreview, Holds, Outside, Closed,
        HasClosed, Using, Ending, Ops, Workers
<1>1. CASE DownloadGet
  BY <1>1 DEF DownloadGet, Running
<1>2. CASE DownloadNext
  BY <1>2 DEF DownloadNext, Running
<1> QED
  BY <1>1, <1>2

LEMMA SettleStepMoves ==
    ASSUME Typed, \/ SettleClose \/ SettleTake \/ SettleOut \/ SettleIn \/ StartShutdown
    PROVE  Moves(Settle)
<1> USE ProcFacts, MegaAssumption DEF Typed, ServerTyped, ProcsTyped, ControlTyped, Started,
        OpsLinked, Go, At, NoServer, NoControl, controller, Acquire, OpFrame, Moves,
        OthersStay, MovesGate, NeedsGate, MovesFolder, MovesPreview, Holds, Outside, Closed,
        HasClosed, Using, Ending, Ops, Workers
<1>1. CASE SettleClose
  BY <1>1 DEF SettleClose
<1>2. CASE SettleTake
  BY <1>2 DEF SettleTake, NoPreview, Previews
<1>3. CASE SettleOut
  BY <1>3 DEF SettleOut
<1>4. CASE SettleIn
  BY <1>4 DEF SettleIn, LogBackIn
<1>5. CASE StartShutdown
  BY <1>5 DEF StartShutdown
<1> QED
  BY <1>1, <1>2, <1>3, <1>4, <1>5

LEMMA StopStepMoves ==
    ASSUME Typed, StopLook \/ StartStop
    PROVE  Moves(Stop)
<1> USE ProcFacts, MegaAssumption DEF Typed, ServerTyped, ProcsTyped, ControlTyped, Started,
        OpsLinked, Go, At, NoServer, NoControl, controller, Acquire, OpFrame, Moves,
        OthersStay, MovesGate, NeedsGate, MovesFolder, MovesPreview, Holds, Outside, Closed,
        HasClosed, Using, Ending, Ops, Workers
<1>1. CASE StopLook
  BY <1>1 DEF StopLook
<1>2. CASE StartStop
  BY <1>2 DEF StartStop
<1> QED
  BY <1>1, <1>2

LEMMA TargetStepMoves ==
    ASSUME Typed, TargetLock \/ TargetSwitch \/ TargetServe \/ TargetRecord
    PROVE  Moves(Target)
<1> USE ProcFacts, MegaAssumption DEF Typed, ServerTyped, ProcsTyped, ControlTyped, Started,
        OpsLinked, Go, At, NoServer, NoControl, controller, Acquire, OpFrame, Moves,
        OthersStay, MovesGate, NeedsGate, MovesFolder, MovesPreview, Holds, Outside, Closed,
        HasClosed, Using, Ending, Ops, Workers
<1>1. CASE TargetLock
  BY <1>1 DEF TargetLock, SameFolder
<1>2. CASE TargetSwitch
  BY <1>2 DEF TargetSwitch
<1>3. CASE TargetServe
  BY <1>3 DEF TargetServe
<1>4. CASE TargetRecord
  BY <1>4 DEF TargetRecord, Keep, Previews
<1> QED
  BY <1>1, <1>2, <1>3, <1>4

LEMMA StartsMove ==
    ASSUME Typed
    PROVE  /\ \A u \in Urls : StartScan(u) => Moves(Scan)
           /\ \A u \in Urls : StartTarget(u) => Moves(Target)
           /\ \A us \in SUBSET Urls : StartDownload(us) => Moves(Download)
<1> USE ProcFacts, MegaAssumption DEF Typed, ServerTyped, ProcsTyped, ControlTyped, Started,
        OpsLinked, Go, At, NoServer, NoControl, controller, Acquire, OpFrame, Moves,
        OthersStay, MovesGate, NeedsGate, MovesFolder, MovesPreview, Holds, Outside, Closed,
        HasClosed, Using, Ending, Ops, Workers
<1>1. ASSUME NEW u \in Urls, StartScan(u) PROVE Moves(Scan)
  BY <1>1 DEF StartScan
<1>2. ASSUME NEW us \in SUBSET Urls, StartDownload(us) PROVE Moves(Download)
  BY <1>2 DEF StartDownload
<1>3. ASSUME NEW u \in Urls, StartTarget(u) PROVE Moves(Target)
  BY <1>3 DEF StartTarget
<1> QED
  BY <1>1, <1>2, <1>3

(* A new selection's job is at its beginning or, with a cached route, done. *)
LEMMA ClickMoves ==
    ASSUME Typed, ClickCached \/ ClickManaged
    PROVE  \E p \in Procs : Moves(p)
<1>1. PICK g \in Jobs : g = generation + 1
  BY MegaAssumption DEF Typed, ControlTyped, Room, Jobs, ClickCached, ClickManaged
<1>g. g \in Procs /\ g \notin Ops /\ g \notin Workers
  BY ProcFacts, MegaAssumption DEF Workers, Ops
<1>2. \E l \in {"wait", "done"} : Go(g, l)
  BY <1>1 DEF ClickCached, ClickManaged
<1>3. pc' \in [Procs -> Steps] /\ pc'[g] \in {"wait", "done"} /\ \A q \in Procs : q # g => pc'[q] = pc[q]
  BY <1>g, <1>2 DEF Typed, ProcsTyped, Go, Steps, OpSteps
<1>4. \A q \in Procs : q # g => link'[q] = link[q]
  BY <1>1, <1>g DEF Typed, ProcsTyped, ClickCached, ClickManaged
<1>5. UNCHANGED <<session, gate, preview>>
  BY DEF ClickCached, ClickManaged
<1>6. ~Holds(g)' /\ pc'[g] \notin Using /\ ~HasClosed(g)'
  BY <1>g, <1>3 DEF Holds, Outside, Using, HasClosed
<1>7. MovesGate(g) /\ NeedsGate(g) /\ MovesFolder(g)
  BY <1>5, <1>6 DEF MovesGate, NeedsGate, MovesFolder
<1>8. MovesPreview(g)
  BY <1>g, <1>5, <1>6 DEF MovesPreview
<1> QED
  BY <1>g, <1>3, <1>4, <1>7, <1>8 DEF Moves, OthersStay

LEMMA StillMoves ==
    ASSUME UNCHANGED <<session, gate, preview, pc, link>>
    PROVE  Moves(Scan)
BY DEF Moves, OthersStay, MovesGate, NeedsGate, MovesFolder, MovesPreview, Holds, HasClosed,
   Ending

LEMMA StepMoves == Typed /\ [Next]_vars => \E p \in Procs : Moves(p)
<1> SUFFICES ASSUME Typed, [Next]_vars PROVE \E p \in Procs : Moves(p)
  OBVIOUS
<1> USE ProcFacts
<1>1. CASE User
  <2>1. CASE StartStop
    BY <2>1, StopStepMoves
  <2>2. CASE StartShutdown
    BY <2>2, SettleStepMoves
  <2>3. ASSUME NEW u \in Urls, StartScan(u) PROVE \E p \in Procs : Moves(p)
    BY <2>3, StartsMove
  <2>4. ASSUME NEW us \in SUBSET Urls, StartDownload(us) PROVE \E p \in Procs : Moves(p)
    BY <2>4, StartsMove
  <2>6. ASSUME NEW u \in Urls, StartTarget(u) PROVE \E p \in Procs : Moves(p)
    BY <2>6, StartsMove
  <2>5. CASE \/ \E i \in Items, f \in BOOLEAN : ClickRead(i, f)
             \/ CancelCurrent \/ Evict \/ \E p \in Workers : Cancel(p)
    BY <2>5, StillMoves DEF ClickRead, CancelCurrent, Evict, Cancel
  <2> QED
    BY <1>1, <2>1, <2>2, <2>3, <2>4, <2>5, <2>6 DEF User
<1>2. CASE Request
  BY <1>2, ClickMoves, StillMoves DEF Request, ClickRefused
<1>3. ASSUME NEW j \in Jobs, JobStep(j) PROVE \E p \in Procs : Moves(p)
  BY <1>3, JobStepMoves
<1>4. CASE StopStep
  BY <1>4, OpStepMoves, StopStepMoves DEF StopStep
<1>5. ASSUME NEW p \in Workers, WorkStep(p) PROVE \E q \in Procs : Moves(q)
  <2>1. p \in Ops
    BY DEF Workers
  <2> QED
    BY <1>5, <2>1, OpStepMoves, WorkStepMoves DEF WorkStep
<1>6. CASE ScanStep \/ DownloadStep
  BY <1>5, <1>6, ScanStepMoves, DownloadStepMoves DEF ScanStep, DownloadStep, Workers
<1>7. CASE SettleStep
  BY <1>7, OpStepMoves, SettleStepMoves DEF SettleStep
<1>8. CASE UNCHANGED vars
  BY <1>8, StillMoves DEF vars
<1>9. CASE TargetStep
  BY <1>9, OpStepMoves, WorkStepMoves, TargetStepMoves DEF TargetStep
<1> QED
  BY <1>1, <1>2, <1>3, <1>4, <1>6, <1>7, <1>8, <1>9 DEF Next, Ended

(* Whoever is between the commands of an operation holds the gate.         *)
GateHeld == \A p \in Procs : Holds(p) => gate = p

LEMMA GateStep ==
    ASSUME Typed, GateHeld, NEW p \in Procs, Moves(p)
    PROVE  GateHeld'
<1> SUFFICES ASSUME NEW q \in Procs, Holds(q)' PROVE gate' = q
  BY DEF GateHeld
<1>1. CASE q = p
  BY <1>1 DEF Moves, MovesGate, GateHeld
<1>2. CASE q # p
  <2>1. Holds(q)
    BY <1>2 DEF Moves, OthersStay, Holds
  <2>2. gate = q /\ gate # Free /\ ~Holds(p)
    BY <1>2, <2>1, ProcFacts DEF GateHeld
  <2> QED
    BY <2>2 DEF Moves, MovesGate
<1> QED
  BY <1>1, <1>2

(* Whoever works in a folder is alone there.                               *)
LEMMA UsingStep ==
    ASSUME Typed, GateHeld, WorksInItsFolder, NEW p \in Procs, Moves(p)
    PROVE  WorksInItsFolder'
<1> SUFFICES ASSUME NEW q \in Procs, pc'[q] \in Using PROVE session' = link'[q]
  BY DEF WorksInItsFolder
<1>1. CASE q = p
  BY <1>1 DEF Moves, MovesFolder, WorksInItsFolder
<1>2. CASE q # p
  <2>1. pc[q] \in Using /\ link'[q] = link[q]
    BY <1>2 DEF Moves, OthersStay
  <2>2. Holds(q)
    BY <2>1 DEF Holds, Using, Outside
  <2>3. ~Holds(p)
    BY <1>2, <2>2 DEF GateHeld
  <2> QED
    BY <2>1, <2>3 DEF Moves, NeedsGate, WorksInItsFolder
<1> QED
  BY <1>1, <1>2

(* An operation that has ended the preview finds it ended until it is done. *)
PreviewClosed == \A p \in Procs : HasClosed(p) => ~preview.active

LEMMA ClosedStep ==
    ASSUME Typed, GateHeld, PreviewClosed, NEW p \in Procs, Moves(p)
    PROVE  PreviewClosed'
<1> SUFFICES ASSUME NEW q \in Procs, HasClosed(q)' PROVE ~preview'.active
  BY DEF PreviewClosed
<1>1. CASE q = p
  BY <1>1 DEF Moves, MovesPreview, PreviewClosed
<1>2. CASE q # p
  <2>1. HasClosed(q)
    BY <1>2 DEF Moves, OthersStay, HasClosed
  <2>2. Holds(q)
    BY <2>1 DEF HasClosed, Closed, Holds, Outside
  <2>3. ~Holds(p)
    BY <1>2, <2>2 DEF GateHeld
  <2> QED
    BY <2>1, <2>3 DEF Moves, NeedsGate, PreviewClosed
<1> QED
  BY <1>1, <1>2

LEMMA AccountStep ==
    ASSUME Typed, WorksInItsFolder, PreviewClosed, AccountNotEnded,
           NEW p \in Procs, Moves(p)
    PROVE  AccountNotEnded'
<1> SUFFICES ASSUME preview'.active, \A q \in Ops : ~Ending(q)' PROVE session' # Account
  BY DEF AccountNotEnded
<1>1. \A q \in Ops : ~Ending(q)
  <2> SUFFICES ASSUME NEW q \in Ops, Ending(q) PROVE FALSE
    OBVIOUS
  <2>1. CASE q = p
    BY <2>1 DEF Moves, MovesPreview
  <2>2. CASE q # p
    BY <2>2, ProcFacts DEF Moves, OthersStay, Ending
  <2> QED
    BY <2>1, <2>2
<1>2. CASE preview' = preview
  <2>1. session # Account /\ ~HasClosed(p)
    BY <1>1, <1>2 DEF AccountNotEnded, PreviewClosed
  <2> QED
    BY <2>1 DEF Moves, MovesPreview
<1>3. CASE preview' # preview
  <2>1. session = link[p] /\ link[p] \in Urls /\ session' = session
    BY <1>3 DEF Moves, MovesPreview, WorksInItsFolder
  <2> QED
    BY <2>1, MegaAssumption
<1> QED
  BY <1>2, <1>3

(* The inductive invariant: the types, and that the gate is held, with what *)
(* follows from it about the folder, the preview and the user's account.   *)
Inv == Typed /\ GateHeld /\ WorksInItsFolder /\ PreviewClosed /\ AccountNotEnded

LEMMA InvHolds == Spec => []Inv
<1>1. Init => Inv
  <2> SUFFICES ASSUME Init PROVE Inv
    OBVIOUS
  <2>1. \A p \in Procs : pc[p] = "idle"
    BY DEF Init
  <2>2. ~preview.active
    BY DEF Init, NoPreview
  <2> QED
    BY <2>1, <2>2, TypedInit DEF Inv, GateHeld, Holds, Outside, WorksInItsFolder, Using,
       PreviewClosed, HasClosed, Closed, AccountNotEnded
<1>2. Inv /\ [Next]_vars => Inv'
  <2> SUFFICES ASSUME Inv, [Next]_vars PROVE Inv'
    OBVIOUS
  <2>1. PICK p \in Procs : Moves(p)
    BY StepMoves DEF Inv
  <2> QED
    BY <2>1, TypedStep, GateStep, UsingStep, ClosedStep, AccountStep DEF Inv
<1> QED
  BY <1>1, <1>2, PTL DEF Spec

(* Nobody's session is moved while it lists, gets or serves.               *)
THEOREM InItsFolder == Spec => []WorksInItsFolder
<1>1. Inv => WorksInItsFolder
  BY DEF Inv
<1> QED
  BY <1>1, InvHolds, PTL

(* The logout that ends a preview never discards the user's account.       *)
THEOREM AccountSafe == Spec => []AccountNotEnded
<1>1. Inv => AccountNotEnded
  BY DEF Inv
<1> QED
  BY <1>1, InvHolds, PTL

(* What App.preview says is open was open when it was written.             *)
THEOREM OpenFolderRecorded == Spec => RecordsOpenFolder
<1>1. Inv /\ [Next]_vars =>
        [preview' # preview /\ preview'.active => session = preview'.url]_vars
  <2> SUFFICES ASSUME Inv, [Next]_vars, preview' # preview, preview'.active
               PROVE  session = preview'.url
    OBVIOUS
  <2>1. PICK p \in Procs : Moves(p)
    BY StepMoves DEF Inv
  <2> QED
    BY <2>1 DEF Inv, Moves, MovesPreview, WorksInItsFolder
<1> QED
  BY <1>1, InvHolds, PTL DEF Spec, RecordsOpenFolder

(* megaSessionGate keeps its promise: every step of the program is a step  *)
(* of ExclusiveSession, or one in which it stutters.                       *)
THEOREM GateImplementsExclusive == Spec => Arbitrated
<1>1. Init => Exclusive!Init
  BY MegaAssumption DEF Init, Exclusive!Init, Sessions
<1>2. Inv /\ [Next]_vars => [Exclusive!Next]_<<gate, session>>
  <2> SUFFICES ASSUME Inv, [Next]_vars PROVE Exclusive!Next \/ UNCHANGED <<gate, session>>
    OBVIOUS
  <2>1. PICK p \in Procs : Moves(p)
    BY StepMoves DEF Inv
  <2>2. session' \in Sessions
    BY TypedStep DEF Inv, Typed, ServerTyped
  <2>3. Holds(p) => gate = p
    BY DEF Inv, GateHeld
  <2>4. CASE gate' = gate /\ session' # session
    BY <2>1, <2>2, <2>3, <2>4 DEF Moves, NeedsGate, Exclusive!Next, Exclusive!Command
  <2>5. CASE gate' # gate
    BY <2>1, <2>3, <2>5 DEF Moves, MovesGate, Exclusive!Next, Exclusive!Take,
       Exclusive!GiveBack
  <2> QED
    BY <2>4, <2>5
<1> QED
  BY <1>1, <1>2, InvHolds, PTL DEF Spec, Arbitrated, Exclusive!Spec


(***************************************************************************)
(* The last selection wins.  A job may be overtaken between its last look  *)
(* at its context and the write of App.preview; what keeps the writes in   *)
(* order is that the gate lets no later job look before it has written.    *)
(***************************************************************************)
Ordered ==
    /\ selection \in {0, generation}
    /\ \A j \in Jobs : Live(j) => j = selection
    /\ committed <= generation
    /\ \A j \in Jobs : pc[j] # "idle" => j <= generation
    /\ \A j \in Jobs : pc[j] = "publish" => committed <= j

LiveOrdered == \A j \in Jobs : Live(j)' => \/ Live(j) /\ selection' = selection
                                           \/ Live(j) /\ j # selection
                                           \/ j = selection'
PublishOrdered == \A j \in Jobs : pc'[j] = "publish" =>
                     pc[j] = "publish" \/ (Live(j) /\ committed' = committed)
Orders ==
    /\ LiveOrdered /\ PublishOrdered
    /\ \/ generation' = generation /\ selection' \in {0, selection}
       \/ /\ generation' = generation + 1 /\ selection' = generation'
          /\ committed' = committed
    /\ \A j \in Jobs : pc'[j] # "idle" => pc[j] # "idle" \/ j = generation'
    /\ \/ committed' = committed
       \/ \E k \in Jobs : pc[k] = "publish" /\ pc'[k] # "publish" /\ committed' = k

LEMMA AnswerLive ==
    ASSUME Typed, jobs' = jobs \/ \E k \in Jobs, r \in Results : Answer(k, r)
    PROVE  \A j \in Jobs : jobs'[j].live = jobs[j].live
BY DEF Typed, TablesTyped, Answer, Job

(* A job's step: it answers, it may be about to publish, it may publish.   *)
LEMMA JobOrders ==
    ASSUME Typed, NEW j \in Jobs, JobStep(j)
    PROVE  Orders
<1>1. /\ UNCHANGED <<generation, selection>>
      /\ pc[j] # "idle"
      /\ jobs' = jobs \/ \E r \in Results : Answer(j, r)
      /\ committed' = committed \/ (pc[j] = "publish" /\ pc'[j] = "leave" /\ committed' = j)
      /\ pc'[j] = "publish" => Live(j) /\ committed' = committed
  <2> USE ProcFacts DEF Typed, ProcsTyped, At, Go, NoServer, NoControl, controller
  <2>1. CASE JobAcquire(j)
    BY <2>1 DEF JobAcquire, Acquire, Results
  <2>2. CASE JobGiveUp(j)
    BY <2>2 DEF JobGiveUp, Results
  <2>3. CASE JobDirect(j)
    BY <2>3, LookupTyped DEF JobDirect, Results
  <2>4. CASE JobClaim(j)
    BY <2>4 DEF JobClaim, Results
  <2>5. CASE JobRecover(j)
    BY <2>5 DEF JobRecover, Results
  <2>6. CASE JobRetry(j)
    BY <2>6, LookupTyped DEF JobRetry, Results
  <2>7. CASE JobDecide(j)
    BY <2>7 DEF JobDecide, Results
  <2>8. CASE JobResume(j)
    BY <2>8 DEF JobResume, Results
  <2>9. CASE JobProbe(j)
    BY <2>9 DEF JobProbe, Results
  <2>10. CASE JobDetach(j)
    BY <2>10 DEF JobDetach, Results
  <2>11. CASE JobLogin(j)
    BY <2>11 DEF JobLogin, Results
  <2>12. CASE JobOpened(j)
    BY <2>12 DEF JobOpened, Results
  <2>13. CASE JobAgain(j)
    BY <2>13, LookupTyped DEF JobAgain, Results
  <2>14. CASE JobCheck(j)
    BY <2>14 DEF JobCheck, Results
  <2>15. CASE JobRemember(j)
    BY <2>15 DEF JobRemember, Results
  <2>16. CASE JobCommit(j)
    BY <2>16 DEF JobCommit, Results
  <2>17. CASE JobPublish(j)
    BY <2>17 DEF JobPublish, Results
  <2>18. CASE Leave(j)
    BY <2>18 DEF Leave, Results
  <2> QED
    BY <2>1, <2>2, <2>3, <2>4, <2>5, <2>6, <2>7, <2>8, <2>9, <2>10, <2>11, <2>12, <2>13,
       <2>14, <2>15, <2>16, <2>17, <2>18 DEF JobStep
<1>2. \A k \in Jobs : jobs'[k].live = jobs[k].live
  BY <1>1, AnswerLive
<1>3. \A k \in Jobs : k # j => pc'[k] = pc[k]
  BY JobStepMoves, ProcFacts DEF Moves, OthersStay
<1>4. LiveOrdered /\ PublishOrdered
  BY <1>1, <1>2, <1>3 DEF LiveOrdered, PublishOrdered, Live
<1> QED
  BY <1>1, <1>3, <1>4 DEF Orders

(* The others' steps: a selection is at most invalidated.                  *)
LEMMA OpOrders ==
    ASSUME Typed, NEW p \in Ops, Moves(p), UNCHANGED <<generation, committed>>,
           UNCHANGED <<selection, jobs>> \/ Invalidate
    PROVE  Orders
<1>1. \A j \in Jobs : pc'[j] = pc[j]
  <2> SUFFICES ASSUME NEW j \in Jobs PROVE pc'[j] = pc[j]
    OBVIOUS
  <2>1. j \in Procs /\ j # p
    BY ProcFacts, MegaAssumption
  <2> QED
    BY <2>1 DEF Moves, OthersStay
<1>2. selection' \in {0, selection}
  BY DEF Invalidate
<1>3. LiveOrdered
  <2>1. CASE UNCHANGED <<selection, jobs>>
    BY <2>1 DEF LiveOrdered, Live
  <2>2. CASE Invalidate
    <3>1. \A j \in Jobs : jobs'[j].live = (jobs[j].live /\ j # selection)
      BY <2>2 DEF Invalidate, Typed, TablesTyped, Job
    <3> QED
      BY <3>1 DEF LiveOrdered, Live
  <2> QED
    BY <2>1, <2>2
<1> QED
  BY <1>1, <1>2, <1>3 DEF Orders, PublishOrdered

LEMMA ClickOrders ==
    ASSUME Typed, ClickCached \/ ClickManaged
    PROVE  Orders
<1>1. PICK g \in Jobs : g = generation + 1
  BY MegaAssumption DEF Typed, ControlTyped, Room, Jobs, ClickCached, ClickManaged
<1>2. /\ generation' = g /\ selection' = g /\ committed' = committed
      /\ \E i, s, r : NewJob(g, i, s, r)
      /\ \E l \in {"wait", "done"} : Go(g, l)
  BY <1>1 DEF ClickCached, ClickManaged
<1>3. \A j \in Jobs : j # g /\ Live(j)' => Live(j) /\ j # selection
  BY <1>1, <1>2 DEF NewJob, Live, Typed, TablesTyped, Job
<1>4. pc'[g] \in {"wait", "done"} /\ \A j \in Jobs : j # g => pc'[j] = pc[j]
  BY <1>1, <1>2, ProcFacts DEF Go, Typed, ProcsTyped
<1>5. LiveOrdered
  BY <1>2, <1>3 DEF LiveOrdered
<1> QED
  BY <1>1, <1>2, <1>4, <1>5 DEF Orders, PublishOrdered

LEMMA StillOrders ==
    ASSUME Typed, UNCHANGED <<generation, selection, committed, pc>>,
           jobs' = jobs \/ CancelCurrent
    PROVE  Orders
<1>1. \A j \in Jobs : Live(j)' => Live(j)
  BY DEF CancelCurrent, Live, Typed, TablesTyped, Job
<1> QED
  BY <1>1 DEF Orders, LiveOrdered, PublishOrdered

LEMMA StepOrders == Typed /\ [Next]_vars => Orders
<1> SUFFICES ASSUME Typed, [Next]_vars PROVE Orders
  OBVIOUS
<1> USE ProcFacts
<1>1. CASE User
  <2>1. CASE StartStop
    BY <2>1, StopStepMoves, OpOrders DEF StartStop, controller, OpFrame
  <2>2. CASE StartShutdown
    BY <2>2, SettleStepMoves, OpOrders DEF StartShutdown, controller, OpFrame
  <2>3. ASSUME NEW u \in Urls, StartScan(u) PROVE Orders
    BY <2>3, StartsMove, OpOrders DEF StartScan, controller
  <2>4. ASSUME NEW us \in SUBSET Urls, StartDownload(us) PROVE Orders
    BY <2>4, StartsMove, OpOrders DEF StartDownload, controller
  <2>6. ASSUME NEW u \in Urls, StartTarget(u) PROVE Orders
    BY <2>6, StartsMove, OpOrders DEF StartTarget, controller
  <2>5. CASE \/ \E i \in Items, f \in BOOLEAN : ClickRead(i, f)
             \/ CancelCurrent \/ Evict \/ \E p \in Workers : Cancel(p)
    BY <2>5, StillOrders DEF ClickRead, CancelCurrent, Evict, Cancel, controller
  <2> QED
    BY <1>1, <2>1, <2>2, <2>3, <2>4, <2>5, <2>6 DEF User
<1>2. CASE Request
  BY <1>2, ClickOrders, StillOrders DEF Request, ClickRefused, controller
<1>3. ASSUME NEW j \in Jobs, JobStep(j) PROVE Orders
  BY <1>3, JobOrders
<1>4. ASSUME NEW p \in Ops,
             \/ OpAcquire(p) \/ OpGiveUp(p) \/ OpInvalidate(p) \/ OpLock(p)
             \/ OpStopOut(p) \/ OpStopIn(p) \/ Leave(p)
      PROVE  Orders
  <2>1. Moves(p)
    BY <1>4, OpStepMoves
  <2>2. /\ UNCHANGED <<generation, committed>>
        /\ UNCHANGED <<selection, jobs>> \/ Invalidate
    BY <1>4 DEF OpAcquire, OpGiveUp, OpInvalidate, OpLock, OpStopOut, OpStopIn, Leave,
       Invalidate, controller, OpFrame
  <2> QED
    BY <2>1, <2>2, OpOrders
<1>a. ASSUME NEW p \in Workers \cup {Target},
             \/ WorkProbe(p) \/ WorkDetach(p) \/ WorkLogin(p) \/ UndoOut(p) \/ UndoIn(p)
      PROVE  Orders
  <2>1. p \in Ops
    BY DEF Workers
  <2> QED
    BY <1>a, <2>1, WorkStepMoves, OpOrders DEF WorkProbe, WorkDetach, WorkLogin, UndoOut,
       UndoIn, controller, OpFrame
<1>5. ASSUME NEW p \in Workers, WorkStep(p) PROVE Orders
  BY <1>4, <1>5, <1>a DEF WorkStep, Workers
<1>14. CASE TargetLock \/ TargetSwitch \/ TargetServe \/ TargetRecord
  BY <1>14, TargetStepMoves, OpOrders DEF TargetLock, TargetSwitch, TargetServe,
     TargetRecord, controller, OpFrame
<1>15. CASE TargetStep
  BY <1>4, <1>14, <1>15, <1>a DEF TargetStep
<1>6. CASE ScanFind \/ ScanCompare \/ ScanKeep
  BY <1>6, ScanStepMoves, OpOrders DEF ScanFind, ScanCompare, ScanKeep, controller, OpFrame
<1>7. CASE DownloadGet \/ DownloadNext
  BY <1>7, DownloadStepMoves, OpOrders DEF DownloadGet, DownloadNext, controller, OpFrame
<1>8. CASE StopLook
  BY <1>8, StopStepMoves, OpOrders DEF StopLook, controller, OpFrame
<1>9. CASE SettleClose \/ SettleTake \/ SettleOut \/ SettleIn
  BY <1>9, SettleStepMoves, OpOrders DEF SettleClose, SettleTake, SettleOut, SettleIn,
     controller, OpFrame
<1>10. CASE UNCHANGED vars
  BY <1>10, StillOrders DEF vars, controller
<1>11. CASE StopStep
  BY <1>4, <1>8, <1>11 DEF StopStep
<1>12. CASE ScanStep \/ DownloadStep
  BY <1>5, <1>6, <1>7, <1>12 DEF ScanStep, DownloadStep, Workers
<1>13. CASE SettleStep
  BY <1>4, <1>9, <1>13 DEF SettleStep
<1> QED
  BY <1>1, <1>2, <1>3, <1>10, <1>11, <1>12, <1>13, <1>15 DEF Next, Ended

LEMMA OrderedStep ==
    ASSUME Typed, Typed', GateHeld, Ordered, Orders
    PROVE  Ordered' /\ committed' >= committed
<1>1. /\ generation \in Nat /\ generation' \in Nat /\ selection' \in Nat
      /\ committed \in Nat /\ committed' \in Nat /\ \A j \in Jobs : j \in Nat
  BY MegaAssumption DEF Typed, ServerTyped, ControlTyped, Jobs
<1>2. committed' >= committed
  BY <1>1 DEF Ordered, Orders
<1>3. selection' \in {0, generation'}
  BY DEF Ordered, Orders
<1>4. \A j \in Jobs : Live(j)' => j = selection'
  BY DEF Ordered, Orders, LiveOrdered
<1>5. committed' <= generation'
  BY <1>1 DEF Ordered, Orders
<1>6. \A j \in Jobs : pc'[j] # "idle" => j <= generation'
  BY <1>1 DEF Ordered, Orders
<1>7. ASSUME NEW j \in Jobs, pc'[j] = "publish" PROVE committed' <= j
  <2>1. CASE committed' = committed /\ Live(j)
    BY <1>1, <2>1 DEF Ordered, Jobs
  <2>2. CASE committed' = committed /\ ~Live(j)
    BY <1>7, <2>2 DEF Ordered, Orders, PublishOrdered
  <2>3. CASE committed' # committed
    <3>1. PICK k \in Jobs : pc[k] = "publish" /\ pc'[k] # "publish"
      BY <2>3 DEF Orders
    <3>2. pc[j] = "publish" /\ j # k
      BY <1>7, <2>3, <3>1 DEF Orders, PublishOrdered
    <3>3. gate = k /\ gate = j
      BY <3>1, <3>2, ProcFacts DEF GateHeld, Holds, Outside
    <3> QED
      BY <3>2, <3>3
  <2> QED
    BY <2>1, <2>2, <2>3
<1>8. \A j \in Jobs : (pc[j])' = "publish" => committed' <= j
  BY <1>7
<1> QED
  BY <1>2, <1>3, <1>4, <1>5, <1>6, <1>8 DEF Ordered

(* The last selection wins: App.preview is written in the order of the     *)
(* clicks, whatever the order in which their jobs get the gate.            *)
THEOREM LastSelectionWins == Spec => LatestWins
<1>1. Init => Ordered
  <2> SUFFICES ASSUME Init PROVE Ordered
    OBVIOUS
  <2>1. \A j \in Jobs : pc[j] = "idle" /\ ~Live(j)
    BY ProcFacts DEF Init, Live
  <2> QED
    BY <2>1 DEF Init, Ordered
<1>2. Inv /\ Inv' /\ Ordered /\ [Next]_vars => Ordered' /\ [committed' >= committed]_vars
  BY StepOrders, OrderedStep DEF Inv
<1> QED
  BY <1>1, <1>2, InvHolds, PTL DEF Spec, LatestWins

=============================================================================
