------------------------- MODULE AriaTransferProofs -------------------------
(***************************************************************************)
(* Proofs about AriaTransfer: a transfer that runs has somebody to answer  *)
(* for it, and the workers a shutdown has cancelled start none.            *)
(***************************************************************************)
EXTENDS AriaTransfer, TLAPS

-----------------------------------------------------------------------------
(* Types *)

QueueTyped ==
    /\ status \in [Jobs -> Statuses]
    /\ recorded \in [Jobs -> Gids \cup {NoGid}]
    /\ created \in 0 .. MaxJobs
    /\ cancelFn \in [Jobs -> Workers \cup {NoWorker}]

WorkersTyped ==
    /\ pc \in [Workers -> PCs]
    /\ owner \in [Workers -> Jobs \cup {0}]
    /\ cancelled \in [Workers -> BOOLEAN]
    /\ tries \in [Workers -> 0 .. Retries + 1]
    /\ gid \in [Workers -> Gids \cup {NoGid}]
    /\ seen \in [Workers -> TransferStates]

DaemonTyped ==
    /\ transfer \in [Gids -> TransferStates]
    /\ added \in 0 .. MaxGids
    /\ removals \in SUBSET Gids

RestTyped ==
    /\ phase \in {"open", "closing", "closed"}
    /\ ops \in 0 .. MaxOps
    /\ strayed \in SUBSET Gids
    /\ tangled \in SUBSET Jobs
    /\ doomed \in SUBSET Workers

(* A worker that is there has a job that was added, an attempt left when   *)
(* it begins one, and a GID where it needs one.                            *)
Placed ==
    \A w \in Workers :
        /\ pc[w] = "idle" => gid[w] = NoGid /\ tries[w] = 0
        /\ pc[w] # "idle" => owner[w] \in Jobs /\ owner[w] <= created
        /\ pc[w] = "attempt" => tries[w] <= Retries
        /\ pc[w] \in {"unpause", "store", "loop", "told", "hold", "drop"} => gid[w] \in Gids

Added == \A j \in Jobs : status[j] # "absent" => j <= created

Typed == QueueTyped /\ WorkersTyped /\ DaemonTyped /\ RestTyped /\ Placed /\ Added

LEMMA TypedIsTypeOK == Typed <=> TypeOK /\ Placed /\ Added
BY DEF Typed, TypeOK, QueueTyped, WorkersTyped, DaemonTyped, RestTyped

LEMMA TypedInit == Init => Typed
BY AriaAssumption DEF Init, Typed, QueueTyped, WorkersTyped, DaemonTyped, RestTyped, Placed,
    Added, Jobs, Gids, Nothing, PCs, Statuses, TransferStates

(* What a call about a transfer, and the scheduling of its removal, write. *)
LEMMA CallTyped ==
    ASSUME RestTyped, NEW g \in Gids, RestUnchanged, Answered \/ Troubled(g)
    PROVE  RestTyped'
BY AriaAssumption DEF RestTyped, RestUnchanged, Answered, Troubled, Op

LEMMA TransferTyped ==
    ASSUME DaemonTyped, NEW g \in Gids, NEW s \in TransferStates
    PROVE  [transfer EXCEPT ![g] = s] \in [Gids -> TransferStates]
BY DEF DaemonTyped

LEMMA StoppedTyped ==
    ASSUME DaemonTyped, NEW g \in Gids
    PROVE  /\ Held(g) \in [Gids -> TransferStates]
           /\ Dropped(g) \in [Gids -> TransferStates]
BY DEF DaemonTyped, Held, Dropped, TransferStates

LEMMA ScheduledTyped ==
    ASSUME QueueTyped, DaemonTyped, NEW j \in Jobs, Scheduled(recorded[j])
    PROVE  removals' \in SUBSET Gids
BY DEF QueueTyped, DaemonTyped, Scheduled

(* Every step keeps the types. *)
LEMMA TypedWorker ==
    ASSUME Typed, NEW w \in Workers, WorkerStep(w)
    PROVE  Typed'
<1> USE AriaAssumption
    DEF Typed, QueueTyped, WorkersTyped, DaemonTyped, RestTyped, Placed, Added, Jobs, Gids,
        Nothing, PCs, Statuses, TransferStates, Goto, Op, Answered, Troubled, QueueUnchanged,
        LocalUnchanged, RestUnchanged, DaemonUnchanged, queueVars, daemonVars
<1>1. CASE Attempt(w)
  <2>1. QueueTyped' /\ DaemonTyped' /\ RestTyped' /\ Added'
    BY <1>1 DEF Attempt
  <2>2. WorkersTyped'
    <3>1. CASE cancelled[w]
      BY <1>1, <3>1 DEF Attempt
    <3>2. CASE ~cancelled[w]
      <4>1. tries[w] + 1 \in 0 .. Retries + 1
        BY <1>1 DEF Attempt
      <4>2. tries' \in [Workers -> 0 .. Retries + 1]
        BY <1>1, <3>2, <4>1 DEF Attempt
      <4>3. pc' \in [Workers -> PCs]
        BY <1>1, <3>2 DEF Attempt
      <4> QED
        BY <1>1, <4>2, <4>3 DEF Attempt
    <3> QED
      BY <3>1, <3>2
  <2>3. Placed'
    BY <1>1 DEF Attempt
  <2> QED
    BY <2>1, <2>2, <2>3
<1>2. CASE Manager(w)
  <2>1. QueueTyped' /\ DaemonTyped' /\ RestTyped' /\ Added'
    BY <1>2 DEF Manager
  <2>2. WorkersTyped'
    BY <1>2 DEF Manager
  <2>3. Placed'
    BY <1>2 DEF Manager
  <2> QED
    BY <2>1, <2>2, <2>3
<1>3. CASE Read(w)
  BY <1>3 DEF Read
<1>4. CASE Unpause(w)
  <2>1. QueueTyped' /\ DaemonTyped' /\ RestTyped' /\ Added'
    <3>1. gid[w] \in Gids
      BY <1>4 DEF Unpause
    <3>2. RestTyped'
      BY <1>4, <3>1, CallTyped DEF Unpause
    <3>3. DaemonTyped'
      <4>1. transfer' \in [Gids -> TransferStates]
        <5>1. transfer' \in {transfer, [transfer EXCEPT ![gid[w]] = "active"]}
          BY <1>4 DEF Unpause
        <5> QED
          BY <3>1, <5>1, TransferTyped
      <4> QED
        BY <1>4, <4>1 DEF Unpause
    <3>4. QueueTyped' /\ Added'
      BY <1>4 DEF Unpause
    <3> QED
      BY <3>2, <3>3, <3>4
  <2>2. WorkersTyped'
    BY <1>4 DEF Unpause
  <2>3. Placed'
    BY <1>4 DEF Unpause
  <2> QED
    BY <2>1, <2>2, <2>3
<1>5. CASE Add(w)
  <2>1. QueueTyped' /\ DaemonTyped' /\ RestTyped' /\ Added'
    <3>1. CASE ~cancelled[w] /\ added < MaxGids
      <4>1. added + 1 \in Gids
        BY <3>1
      <4>2. RestTyped'
        BY <1>5, <4>1, CallTyped DEF Add
      <4>3. DaemonTyped'
        <5>1. transfer' \in [Gids -> TransferStates]
          BY <1>5, <4>1, TransferTyped DEF Add
        <5>2. added' \in 0 .. MaxGids
          BY <1>5, <4>1 DEF Add
        <5> QED
          BY <1>5, <5>1, <5>2 DEF Add
      <4>4. QueueTyped' /\ Added'
        BY <1>5 DEF Add
      <4> QED
        BY <4>2, <4>3, <4>4
    <3>2. CASE ~(~cancelled[w] /\ added < MaxGids)
      BY <1>5, <3>2 DEF Add
    <3> QED
      BY <3>1, <3>2
  <2>2. WorkersTyped'
    <3>1. added < MaxGids => added + 1 \in Gids
      OBVIOUS
    <3> QED
      <4>1. gid' \in [Workers -> Gids \cup {NoGid}]
        BY <1>5, <3>1 DEF Add
      <4>2. pc' \in [Workers -> PCs]
        BY <1>5 DEF Add
      <4> QED
        BY <1>5, <4>1, <4>2 DEF Add
  <2>3. Placed'
    BY <1>5 DEF Add
  <2> QED
    BY <2>1, <2>2, <2>3
<1>6. CASE Store(w)
  BY <1>6 DEF Store, Records
<1>7. CASE Tell(w)
  <2>1. QueueTyped' /\ DaemonTyped' /\ RestTyped' /\ Added'
    <3>1. gid[w] \in Gids
      BY <1>7 DEF Tell
    <3>2. RestTyped'
      BY <1>7, <3>1, CallTyped DEF Tell
    <3>3. DaemonTyped'
      BY <1>7, <3>1 DEF Tell
    <3>4. QueueTyped' /\ Added'
      BY <1>7 DEF Tell
    <3> QED
      BY <3>2, <3>3, <3>4
  <2>2. WorkersTyped'
    <3>1. gid[w] \in Gids /\ transfer[gid[w]] \in TransferStates
      BY <1>7 DEF Tell
    <3> QED
      BY <1>7, <3>1 DEF Tell
  <2>3. Placed'
    BY <1>7 DEF Tell
  <2> QED
    BY <2>1, <2>2, <2>3
<1>8. CASE Told(w)
  BY <1>8 DEF Told, Records
<1>9. CASE Notice(w)
  BY <1>9 DEF Notice
<1>10. CASE Hold(w)
  <2>1. QueueTyped' /\ DaemonTyped' /\ RestTyped' /\ Added'
    <3>1. gid[w] \in Gids
      BY <1>10 DEF Hold
    <3>2. RestTyped'
      BY <1>10, <3>1, CallTyped DEF Hold
    <3>3. DaemonTyped'
      <4>1. transfer' \in [Gids -> TransferStates]
        <5>1. transfer' \in {transfer, Held(gid[w]), Dropped(gid[w])}
          BY <1>10 DEF Hold
        <5> QED
          BY <3>1, <5>1, StoppedTyped
      <4> QED
        BY <1>10, <4>1 DEF Hold
    <3>4. QueueTyped' /\ Added'
      BY <1>10 DEF Hold
    <3> QED
      BY <3>2, <3>3, <3>4
  <2>2. WorkersTyped'
    BY <1>10 DEF Hold, Dropped, Held
  <2>3. Placed'
    BY <1>10 DEF Hold, Dropped, Held
  <2> QED
    BY <2>1, <2>2, <2>3
<1>11. CASE Finish(w)
  <2>1. QueueTyped' /\ DaemonTyped' /\ RestTyped' /\ Added'
    BY <1>11 DEF Finish, Becomes
  <2>2. WorkersTyped'
    BY <1>11 DEF Finish, Becomes
  <2>3. Placed'
    BY <1>11 DEF Finish, Becomes
  <2> QED
    BY <2>1, <2>2, <2>3
<1>12. CASE Failed(w)
  <2>1. QueueTyped' /\ DaemonTyped' /\ RestTyped' /\ Added'
    BY <1>12 DEF Failed, Becomes
  <2>2. WorkersTyped'
    BY <1>12 DEF Failed, Becomes
  <2>3. Placed'
    BY <1>12 DEF Failed, Becomes
  <2> QED
    BY <2>1, <2>2, <2>3
<1>13. CASE Exit(w)
  BY <1>13 DEF Exit
<1> QED
  BY <1>1, <1>2, <1>3, <1>4, <1>5, <1>6, <1>7, <1>8, <1>9, <1>10, <1>11, <1>12, <1>13
     DEF WorkerStep

LEMMA TypedOther ==
    ASSUME Typed, Scheduler \/ Handlers \/ Daemon \/ CloseQueue \/ CloseDaemon
                  \/ UNCHANGED vars
    PROVE  Typed'
<1> USE AriaAssumption
    DEF Typed, QueueTyped, WorkersTyped, DaemonTyped, RestTyped, Placed, Added, Jobs, Gids,
        Nothing, PCs, Statuses, TransferStates, Goto, Op, Answered, Troubled, RestUnchanged,
        DaemonUnchanged, queueVars, daemonVars, workerVars, history
<1>1. ASSUME NEW w \in Workers, NEW j \in Jobs, Launch(w, j) PROVE Typed'
  <2>1. QueueTyped' /\ DaemonTyped' /\ RestTyped' /\ Added'
    BY <1>1 DEF Launch
  <2>2. WorkersTyped'
    BY <1>1 DEF Launch
  <2>3. Placed'
    BY <1>1 DEF Launch
  <2> QED
    BY <2>1, <2>2, <2>3
<1>2. CASE AddJob
  BY <1>2 DEF AddJob
<1>3. ASSUME NEW j \in Jobs, NEW From, NEW s \in Statuses, NEW drop \in BOOLEAN,
             "absent" \notin From, Stop(j, From, s, drop)
      PROVE  Typed'
  <2>1. QueueTyped' /\ RestTyped' /\ Added' /\ Placed'
    BY <1>3 DEF Stop
  <2>2. WorkersTyped'
    BY <1>3 DEF Stop, Cancels
  <2>3. DaemonTyped'
    BY <1>3, ScheduledTyped DEF Stop
  <2> QED
    BY <2>1, <2>2, <2>3
<1>4. ASSUME NEW j \in Jobs, Pause(j) \/ Cancel(j) \/ Block(j) \/ Review(j) PROVE Typed'
  BY <1>3, <1>4 DEF Pause, Cancel, Block, Review
<1>5. ASSUME NEW j \in Jobs, Resume(j) PROVE Typed'
  <2>1. QueueTyped' /\ DaemonTyped' /\ RestTyped' /\ Added'
    BY <1>5 DEF Resume
  <2>2. WorkersTyped'
    BY <1>5 DEF Resume
  <2>3. Placed'
    BY <1>5 DEF Resume
  <2> QED
    BY <2>1, <2>2, <2>3
<1>6. ASSUME NEW j \in Jobs, Remove(j) PROVE Typed'
  <2>1. removals' \in SUBSET Gids
    BY <1>6, ScheduledTyped DEF Remove
  <2> QED
    BY <1>6, <2>1 DEF Remove
<1>7. CASE DaemonDies
  BY <1>7 DEF DaemonDies
<1>8. ASSUME NEW g \in Gids, Completes(g) PROVE Typed'
  <2>1. QueueTyped' /\ DaemonTyped' /\ RestTyped' /\ Added'
    BY <1>8 DEF Completes
  <2>2. WorkersTyped'
    BY <1>8 DEF Completes
  <2>3. Placed'
    BY <1>8 DEF Completes
  <2> QED
    BY <2>1, <2>2, <2>3
<1>9. ASSUME NEW g \in Gids, CleanUp(g) PROVE Typed'
  <2>1. RestTyped'
    BY <1>9, CallTyped DEF CleanUp
  <2>2. DaemonTyped'
    BY <1>9 DEF CleanUp, Dropped
  <2> QED
    BY <1>9, <2>1, <2>2 DEF CleanUp
<1>10. CASE CloseQueue
  BY <1>10 DEF CloseQueue
<1>11. CASE CloseDaemon
  BY <1>11 DEF CloseDaemon
<1>12. CASE UNCHANGED vars
  BY <1>12 DEF vars
<1> QED
  BY <1>1, <1>2, <1>4, <1>5, <1>6, <1>7, <1>8, <1>9, <1>10, <1>11, <1>12
     DEF Scheduler, Handlers, Daemon

LEMMA TypedNext ==
    ASSUME Typed, [Next]_vars
    PROVE  Typed'
BY TypedWorker, TypedOther DEF Next

(* Every behaviour is of the declared types. *)
THEOREM TypeCorrectness == Spec => []TypeOK
BY TypedInit, TypedNext, TypedIsTypeOK, PTL DEF Spec

-----------------------------------------------------------------------------
(* A transfer that runs is followed by a worker that has not just been told*)
(* that it is paused: such a worker may leave it alone.                    *)

Attends(w, g) == Follows(w, g) /\ (pc[w] = "told" => seen[w] = "active")
Attended(g) == g \in removals \/ \E w \in Workers : Attends(w, g)
RunningIsAttended == \A g \in Gids : transfer[g] = "active" /\ g \notin strayed => Attended(g)

(* A step of one worker that stays with a transfer keeps it attended, if   *)
(* it has been running.                                                    *)
LEMMA StaysAttended ==
    ASSUME Typed, RunningIsAttended, NEW w \in Workers, NEW g \in Gids,
           NEW to \in PCs, Goto(w, to),
           \A v \in Workers : v # w => gid'[v] = gid[v] /\ seen'[v] = seen[v],
           UNCHANGED removals, strayed \subseteq strayed',
           transfer[g] = "active", g \notin strayed',
           Attends(w, g) => Attends(w, g)'
    PROVE  Attended(g)'
<1>1. g \in removals \/ \E v \in Workers : Attends(v, g)
  BY DEF RunningIsAttended, Attended
<1>2. \A v \in Workers : v # w => pc'[v] = pc[v]
  BY DEF Goto, Typed, WorkersTyped
<1> QED
  BY <1>1, <1>2 DEF Attended, Attends, Follows

LEMMA AttendedWorker ==
    ASSUME Typed, RunningIsAttended, NEW w \in Workers, WorkerStep(w)
    PROVE  RunningIsAttended'
<1> SUFFICES ASSUME NEW g \in Gids, transfer'[g] = "active", g \notin strayed'
             PROVE  Attended(g)'
  BY DEF RunningIsAttended
<1> USE DEF Typed, QueueTyped, WorkersTyped, DaemonTyped, RestTyped, Placed, Goto,
        Op, Answered, Troubled, QueueUnchanged, LocalUnchanged, RestUnchanged, DaemonUnchanged,
        queueVars, daemonVars, PCs, Attends, Follows
<1>1. CASE Attempt(w)
  BY <1>1, StaysAttended DEF Attempt
<1>2. CASE Manager(w)
  BY <1>2, StaysAttended DEF Manager, Nothing
<1>3. CASE Read(w)
  BY <1>3, StaysAttended DEF Read
<1>4. CASE Unpause(w)
  <2>1. gid[w] \in Gids
    BY <1>4 DEF Unpause
  <2>2. CASE transfer[g] = "active"
    BY <1>4, <2>1, <2>2, StaysAttended DEF Unpause
  <2>3. CASE transfer[g] # "active"
    <3>1. g = gid[w]
      BY <1>4, <2>1, <2>3 DEF Unpause
    <3>2. pc'[w] = "loop" /\ gid'[w] = g
      BY <1>4, <2>3, <3>1 DEF Unpause
    <3> QED
      BY <3>2 DEF Attended
  <2> QED
    BY <2>2, <2>3
<1>5. CASE Add(w)
  <2>1. CASE transfer'[g] = transfer[g]
    BY <1>5, <2>1, StaysAttended DEF Add
  <2>2. CASE transfer'[g] # transfer[g]
    <3>1. ~cancelled[w] /\ g = added + 1
      BY <1>5, <2>2 DEF Add
    <3>2. pc'[w] = "store" /\ gid'[w] = g
      BY <1>5, <2>2, <3>1 DEF Add
    <3> QED
      BY <3>2 DEF Attended
  <2> QED
    BY <2>1, <2>2
<1>6. CASE Store(w)
  BY <1>6, StaysAttended DEF Store
<1>7. CASE Tell(w)
  BY <1>7, StaysAttended DEF Tell
<1>8. CASE Told(w)
  BY <1>8, StaysAttended DEF Told
<1>9. CASE Notice(w)
  BY <1>9, StaysAttended DEF Notice
<1>10. CASE Hold(w)
  BY <1>10, StaysAttended DEF Hold, Dropped, Held
<1>11. CASE Finish(w)
  BY <1>11, StaysAttended DEF Finish
<1>12. CASE Failed(w)
  BY <1>12, StaysAttended DEF Failed
<1>13. CASE Exit(w)
  BY <1>13, StaysAttended DEF Exit
<1> QED
  BY <1>1, <1>2, <1>3, <1>4, <1>5, <1>6, <1>7, <1>8, <1>9, <1>10, <1>11, <1>12, <1>13
     DEF WorkerStep

LEMMA AttendedOther ==
    ASSUME Typed, RunningIsAttended, Scheduler \/ Handlers \/ Daemon \/ CloseQueue
                  \/ CloseDaemon \/ UNCHANGED vars
    PROVE  RunningIsAttended'
<1> USE DEF Typed, WorkersTyped, DaemonTyped, RestTyped, Goto, Op, Answered, Troubled,
        RestUnchanged, DaemonUnchanged, queueVars, daemonVars, workerVars, history,
        Attends, Attended, Follows, RunningIsAttended
<1>1. ASSUME NEW w \in Workers, NEW j \in Jobs, Launch(w, j) PROVE RunningIsAttended'
  BY <1>1 DEF Launch
<1>2. CASE AddJob
  BY <1>2 DEF AddJob
<1>3. ASSUME NEW j \in Jobs, NEW From, NEW s, NEW drop, Stop(j, From, s, drop)
      PROVE  RunningIsAttended'
  BY <1>3 DEF Stop, Scheduled
<1>4. ASSUME NEW j \in Jobs, Pause(j) \/ Cancel(j) \/ Block(j) \/ Review(j)
      PROVE  RunningIsAttended'
  BY <1>3, <1>4 DEF Pause, Cancel, Block, Review
<1>5. ASSUME NEW j \in Jobs, Resume(j) PROVE RunningIsAttended'
  BY <1>5 DEF Resume
<1>6. ASSUME NEW j \in Jobs, Remove(j) PROVE RunningIsAttended'
  BY <1>6 DEF Remove, Scheduled
<1>7. CASE DaemonDies
  BY <1>7 DEF DaemonDies, Nothing
<1>8. ASSUME NEW g \in Gids, Completes(g) PROVE RunningIsAttended'
  BY <1>8 DEF Completes
<1>9. ASSUME NEW g \in Gids, CleanUp(g) PROVE RunningIsAttended'
  BY <1>9 DEF CleanUp, Dropped
<1>10. CASE CloseQueue
  BY <1>10 DEF CloseQueue
<1>11. CASE CloseDaemon
  BY <1>11 DEF CloseDaemon, Nothing
<1>12. CASE UNCHANGED vars
  BY <1>12 DEF vars
<1> QED
  BY <1>1, <1>2, <1>4, <1>5, <1>6, <1>7, <1>8, <1>9, <1>10, <1>11, <1>12
     DEF Scheduler, Handlers, Daemon

(* However the jobs are paused, cancelled, removed and added again, and    *)
(* whatever becomes of the daemon: a transfer that runs is followed by a   *)
(* worker or about to be removed, but for those a call has failed about.   *)
THEOREM RunningFollowed == Spec => []RunningIsFollowed
<1>1. Init => RunningIsAttended
  BY DEF Init, Nothing, RunningIsAttended
<1>2. Typed /\ RunningIsAttended /\ [Next]_vars => RunningIsAttended'
  BY AttendedWorker, AttendedOther DEF Next
<1>3. RunningIsAttended => RunningIsFollowed
  BY DEF RunningIsAttended, RunningIsFollowed, Attended, Attends
<1> QED
  BY TypedInit, TypedNext, <1>1, <1>2, <1>3, PTL DEF Spec

-----------------------------------------------------------------------------
(* A transfer is the business of one job. *)

Uses(j, g) == recorded[j] = g \/ \E w \in Workers : owner[w] = j /\ gid[w] = g

OwnTransfers == \A j, k \in Jobs, g \in Gids : Uses(j, g) /\ Uses(k, g) => j = k
KnownTransfers == \A j \in Jobs, g \in Gids : Uses(j, g) => g <= added

(* Unless a job was resumed while one of its workers was still leaving,    *)
(* its only worker is the one its cancel function reaches.                 *)
Registered ==
    \A w \in Workers : Live(w) /\ owner[w] \notin tangled => cancelFn[owner[w]] = w
QueuedAlone ==
    \A w \in Workers : Live(w) /\ status[owner[w]] = "queued" => owner[w] \in tangled

(* So the shutdown has cancelled those workers, and none of the transfers  *)
(* of their jobs is known to a daemon that came up since.                  *)
DoomedCancelled ==
    \A w \in doomed : Live(w) /\ (cancelled[w] \/ owner[w] \in tangled)
DoomedQuiet ==
    phase = "closed" =>
        \A w \in doomed, g \in Gids :
            owner[w] \notin tangled /\ Uses(owner[w], g) => transfer[g] = "absent"

Reached == Registered /\ QueuedAlone /\ DoomedCancelled
Apart == OwnTransfers /\ KnownTransfers

LEMMA ClosedInit == Init => Apart /\ Reached /\ DoomedQuiet
BY AriaAssumption
   DEF Init, Apart, Reached, OwnTransfers, KnownTransfers, Registered, QueuedAlone,
       DoomedCancelled, DoomedQuiet, Uses, Live, Jobs

(* Uses grow only where a GID is added; elsewhere they pass from a job to  *)
(* its worker and back.                                                    *)
LEMMA UsesStep ==
    ASSUME Typed, Next, NEW j \in Jobs, NEW g \in Gids, Uses(j, g)'
    PROVE  \/ Uses(j, g)
           \/ /\ g = added + 1 /\ added' = added + 1
              /\ \E w \in Workers : Add(w) /\ owner[w] = j
<1> USE DEF Typed, QueueTyped, WorkersTyped, Placed, Goto, QueueUnchanged, LocalUnchanged,
        queueVars, workerVars, Uses
<1>1. ASSUME NEW w \in Workers, Attempt(w) \/ Manager(w) \/ Tell(w) \/ Notice(w) \/ Hold(w)
                                \/ Finish(w)
      PROVE  Uses(j, g)
  BY <1>1 DEF Attempt, Manager, Tell, Notice, Hold, Finish
<1>2. ASSUME NEW w \in Workers, Read(w) PROVE Uses(j, g)
  BY <1>2, AriaAssumption DEF Read
<1>3. ASSUME NEW w \in Workers, Unpause(w) PROVE Uses(j, g)
  BY <1>3, AriaAssumption DEF Unpause
<1>4. ASSUME NEW w \in Workers, Add(w), ~Uses(j, g)
      PROVE  g = added + 1 /\ added' = added + 1 /\ owner[w] = j
  BY <1>4 DEF Add
<1>5. ASSUME NEW w \in Workers, Store(w) \/ Told(w) PROVE Uses(j, g)
  BY <1>5, AriaAssumption DEF Store, Told, Records
<1>6. ASSUME NEW w \in Workers, Failed(w) \/ Exit(w) PROVE Uses(j, g)
  BY <1>6, AriaAssumption DEF Failed, Exit, Jobs
<1>7. ASSUME NEW w \in Workers, NEW k \in Jobs, Launch(w, k) PROVE Uses(j, g)
  BY <1>7, AriaAssumption DEF Launch
<1>8. CASE AddJob
  BY <1>8 DEF AddJob
<1>9. ASSUME NEW k \in Jobs, NEW From, NEW s, NEW drop, Stop(k, From, s, drop)
      PROVE  Uses(j, g)
  BY <1>9, AriaAssumption DEF Stop
<1>10. ASSUME NEW k \in Jobs, Pause(k) \/ Cancel(k) \/ Block(k) \/ Review(k)
       PROVE  Uses(j, g)
  BY <1>9, <1>10 DEF Pause, Cancel, Block, Review
<1>11. ASSUME NEW k \in Jobs, Resume(k) \/ Remove(k) PROVE Uses(j, g)
  BY <1>11, AriaAssumption DEF Resume, Remove
<1>12. ASSUME NEW h \in Gids, Completes(h) \/ CleanUp(h) PROVE Uses(j, g)
  BY <1>12 DEF Completes, CleanUp
<1>13. CASE DaemonDies \/ CloseQueue \/ CloseDaemon
  BY <1>13 DEF DaemonDies, CloseQueue, CloseDaemon
<1> QED
  BY <1>1, <1>2, <1>3, <1>4, <1>5, <1>6, <1>7, <1>8, <1>10, <1>11, <1>12, <1>13
     DEF Next, WorkerStep, Scheduler, Handlers, Daemon

LEMMA OneAdds ==
    ASSUME Typed, NEW v \in Workers, NEW w \in Workers, Add(v), Add(w)
    PROVE  v = w
BY DEF Typed, WorkersTyped, Add, Goto

(* A daemon gets to know a transfer by an Add only. *)
LEMMA TransferStep ==
    ASSUME Typed, Next
    PROVE  /\ added' = added \/ added' = added + 1
           /\ \A g \in Gids : transfer[g] = "absent" /\ transfer'[g] # "absent" => g = added + 1
<1> USE DEF Typed, DaemonTyped, Placed, RestUnchanged, QueueUnchanged, DaemonUnchanged,
        queueVars, daemonVars, workerVars, Nothing
<1>1. ASSUME NEW w \in Workers, Attempt(w) \/ Read(w) \/ Store(w) \/ Tell(w) \/ Told(w)
                                \/ Notice(w) \/ Finish(w) \/ Failed(w) \/ Exit(w)
      PROVE  UNCHANGED <<added, transfer>>
  BY <1>1 DEF Attempt, Read, Store, Tell, Told, Notice, Finish, Failed, Exit
<1>2. ASSUME NEW w \in Workers, Manager(w)
      PROVE  added' = added /\ (transfer' = transfer \/ transfer' = Nothing)
  BY <1>2 DEF Manager
<1>3. ASSUME NEW w \in Workers, Unpause(w)
      PROVE  /\ added' = added
             /\ transfer' \in {transfer, [transfer EXCEPT ![gid[w]] = "active"]}
             /\ gid[w] \in Gids /\ (transfer[gid[w]] = "paused" \/ transfer' = transfer)
  BY <1>3 DEF Unpause
<1>4. ASSUME NEW w \in Workers, Add(w)
      PROVE  \/ UNCHANGED <<added, transfer>>
             \/ added' = added + 1 /\ transfer' = [transfer EXCEPT ![added + 1] = "active"]
  BY <1>4 DEF Add
<1>5. ASSUME NEW w \in Workers, Hold(w)
      PROVE  added' = added /\ transfer' \in {transfer, Held(gid[w]), Dropped(gid[w])}
  BY <1>5 DEF Hold
<1>6. ASSUME NEW g \in Gids, Completes(g) \/ CleanUp(g)
      PROVE  /\ added' = added
             /\ \/ transfer' \in {transfer, Dropped(g)}
                \/ transfer[g] = "active" /\ \E r : transfer' = [transfer EXCEPT ![g] = r]
  BY <1>6 DEF Completes, CleanUp
<1>7. CASE DaemonDies \/ CloseQueue \/ CloseDaemon
  BY <1>7 DEF DaemonDies, CloseQueue, CloseDaemon
<1>8. CASE Scheduler
  BY <1>8 DEF Scheduler, Launch
<1>9. CASE Handlers
  BY <1>9 DEF Handlers, AddJob, Pause, Cancel, Block, Review, Stop, Resume, Remove
<1> QED
  BY <1>1, <1>2, <1>3, <1>4, <1>5, <1>6, <1>7, <1>8, <1>9
     DEF Next, WorkerStep, Daemon, Held, Dropped

LEMMA ApartNext ==
    ASSUME Typed, Apart, Next
    PROVE  Apart'
<1>1. ASSUME NEW j \in Jobs, NEW k \in Jobs, NEW g \in Gids, Uses(j, g)', Uses(k, g)'
      PROVE  j = k
  <2>1. CASE Uses(j, g) /\ Uses(k, g)
    BY <2>1 DEF Apart, OwnTransfers
  <2>2. CASE ~(Uses(j, g) /\ Uses(k, g))
    <3>1. g = added + 1
      BY <1>1, <2>2, UsesStep
    <3>2. ~Uses(j, g) /\ ~Uses(k, g)
      BY <3>1 DEF Apart, KnownTransfers, Typed, DaemonTyped
    <3>3. PICK v \in Workers : Add(v) /\ owner[v] = j
      BY <1>1, <3>2, UsesStep
    <3>4. PICK w \in Workers : Add(w) /\ owner[w] = k
      BY <1>1, <3>2, UsesStep
    <3> QED
      BY <3>3, <3>4, OneAdds
  <2> QED
    BY <2>1, <2>2
<1>2. ASSUME NEW j \in Jobs, NEW g \in Gids, Uses(j, g)'
      PROVE  g <= added'
  BY <1>2, UsesStep, TransferStep DEF Apart, KnownTransfers, Typed, DaemonTyped, Gids
<1> QED
  BY <1>1, <1>2 DEF Apart, OwnTransfers, KnownTransfers

-----------------------------------------------------------------------------
(* The shutdown *)

(* A step of a worker that stays, and the job's status with it unless it   *)
(* ends, changes nothing about who is reached.                             *)
LEMMA ReachedWorker ==
    ASSUME Typed, Reached, NEW w \in Workers, WorkerStep(w)
    PROVE  Reached'
<1> USE DEF Typed, QueueTyped, WorkersTyped, RestTyped, Placed, Goto, QueueUnchanged,
        LocalUnchanged, RestUnchanged, queueVars, Live,
        Reached, Registered, QueuedAlone, DoomedCancelled
<1>1. CASE Attempt(w)
  BY <1>1 DEF Attempt
<1>2. CASE Manager(w)
  BY <1>2 DEF Manager
<1>3. CASE Read(w)
  BY <1>3 DEF Read
<1>4. CASE Unpause(w)
  BY <1>4 DEF Unpause
<1>5. CASE Add(w)
  BY <1>5 DEF Add
<1>6. CASE Store(w)
  BY <1>6 DEF Store
<1>7. CASE Tell(w)
  BY <1>7 DEF Tell
<1>8. CASE Told(w)
  BY <1>8 DEF Told
<1>9. CASE Notice(w)
  BY <1>9 DEF Notice
<1>10. CASE Hold(w)
  BY <1>10 DEF Hold
<1>11. CASE Finish(w)
  BY <1>11 DEF Finish, Becomes
<1>12. CASE Failed(w)
  BY <1>12 DEF Failed, Becomes
<1>13. CASE Exit(w)
  BY <1>13 DEF Exit
<1> QED
  BY <1>1, <1>2, <1>3, <1>4, <1>5, <1>6, <1>7, <1>8, <1>9, <1>10, <1>11, <1>12, <1>13
     DEF WorkerStep

LEMMA ReachedOther ==
    ASSUME Typed, Reached, Scheduler \/ Handlers \/ Daemon \/ CloseQueue \/ CloseDaemon
    PROVE  Reached'
<1> USE DEF Typed, QueueTyped, WorkersTyped, RestTyped, Placed, Added, Goto,
        RestUnchanged, DaemonUnchanged, queueVars, workerVars, history, Live,
        Reached, Registered, QueuedAlone, DoomedCancelled
<1>1. ASSUME NEW w \in Workers, NEW j \in Jobs, Launch(w, j) PROVE Reached'
  BY <1>1 DEF Launch
<1>2. CASE AddJob
  BY <1>2 DEF AddJob, Jobs
<1>3. ASSUME NEW j \in Jobs, NEW From, NEW s, NEW drop, s # "queued", Stop(j, From, s, drop)
      PROVE  Reached'
  BY <1>3 DEF Stop, Cancels
<1>4. ASSUME NEW j \in Jobs, Pause(j) \/ Cancel(j) \/ Block(j) \/ Review(j)
      PROVE  Reached'
  BY <1>3, <1>4 DEF Pause, Cancel, Block, Review
<1>5. ASSUME NEW j \in Jobs, Resume(j) PROVE Reached'
  BY <1>5 DEF Resume
<1>6. ASSUME NEW j \in Jobs, Remove(j) PROVE Reached'
  BY <1>6 DEF Remove
<1>7. CASE Daemon
  BY <1>7 DEF Daemon, DaemonDies, Completes, CleanUp
<1>8. CASE CloseQueue
  BY <1>8 DEF CloseQueue
<1>9. CASE CloseDaemon
  BY <1>9 DEF CloseDaemon
<1> QED
  BY <1>1, <1>2, <1>4, <1>5, <1>6, <1>7, <1>8, <1>9 DEF Scheduler, Handlers

(* No step but that of the shutdown dooms a worker, and a doomed worker    *)
(* stays with its job until it has left.                                   *)
LEMMA DoomedStep ==
    ASSUME Typed, Reached, Next, phase = "closed"
    PROVE  /\ phase' = "closed" /\ tangled \subseteq tangled'
           /\ \A w \in doomed' : w \in doomed /\ owner'[w] = owner[w]
<1> USE DEF Typed, WorkersTyped, RestTyped, Goto, Live, LocalUnchanged, RestUnchanged,
        workerVars, history, Reached, DoomedCancelled
<1>1. ASSUME NEW w \in Workers, WorkerStep(w)
      PROVE  /\ phase' = "closed" /\ tangled \subseteq tangled'
             /\ \A v \in doomed' : v \in doomed /\ owner'[v] = owner[v]
  BY <1>1 DEF WorkerStep, Attempt, Manager, Read, Unpause, Add, Store, Tell, Told, Notice,
              Hold, Finish, Failed, Exit
<1>2. CASE Scheduler
  BY <1>2 DEF Scheduler, Launch
<1>3. CASE Handlers
  BY <1>3 DEF Handlers, AddJob, Pause, Cancel, Block, Review, Stop, Resume, Remove
<1>4. CASE Daemon
  BY <1>4 DEF Daemon, DaemonDies, Completes, CleanUp
<1>5. CASE CloseQueue \/ CloseDaemon
  BY <1>5 DEF CloseQueue, CloseDaemon
<1> QED
  BY <1>1, <1>2, <1>3, <1>4, <1>5 DEF Next

LEMMA CloseStep ==
    ASSUME Typed, Next, phase # "closed", phase' = "closed"
    PROVE  transfer' = Nothing
<1> USE DEF Typed, RestTyped, RestUnchanged, history
<1>1. ASSUME NEW w \in Workers, WorkerStep(w) PROVE phase' = phase
  BY <1>1 DEF WorkerStep, Attempt, Manager, Read, Unpause, Add, Store, Tell, Told, Notice,
              Hold, Finish, Failed, Exit
<1>2. CASE Scheduler
  BY <1>2 DEF Scheduler, Launch
<1>3. CASE Handlers
  BY <1>3 DEF Handlers, AddJob, Pause, Cancel, Block, Review, Stop, Resume, Remove
<1>4. CASE Daemon
  BY <1>4 DEF Daemon, DaemonDies, Completes, CleanUp
<1>5. CASE CloseQueue \/ CloseDaemon
  BY <1>5 DEF CloseQueue, CloseDaemon
<1> QED
  BY <1>1, <1>2, <1>3, <1>4, <1>5 DEF Next

LEMMA QuietNext ==
    ASSUME Typed, Apart, Reached, DoomedQuiet, Next
    PROVE  DoomedQuiet'
<1> SUFFICES ASSUME phase' = "closed", NEW w \in doomed', NEW g \in Gids,
                    owner'[w] \notin tangled', Uses(owner[w], g)'
             PROVE  transfer'[g] = "absent"
  BY DEF DoomedQuiet
<1>1. CASE phase # "closed"
  BY <1>1, CloseStep DEF Nothing
<1>2. CASE phase = "closed"
  <2>1. w \in doomed /\ w \in Workers /\ owner'[w] = owner[w] /\ owner[w] \notin tangled
    BY <1>2, DoomedStep DEF Typed, RestTyped
  <2>2. Live(w) /\ cancelled[w] /\ owner[w] \in Jobs /\ cancelFn[owner[w]] = w
    BY <2>1 DEF Reached, DoomedCancelled, Registered, Typed, Placed, Live
  <2>3. CASE Uses(owner[w], g)
    <3>1. transfer[g] = "absent" /\ g <= added
      BY <1>2, <2>1, <2>2, <2>3 DEF DoomedQuiet, Apart, KnownTransfers
    <3> QED
      BY <3>1, TransferStep DEF Typed, DaemonTyped, Gids
  <2>4. CASE ~Uses(owner[w], g)
    <3>1. PICK v \in Workers : Add(v) /\ owner[v] = owner[w] /\ added' = added + 1
      <4>1. PICK j \in Jobs : j = owner[w]
        BY <2>2
      <4>2. Uses(j, g)' /\ ~Uses(j, g)
        BY <2>1, <2>4, <4>1 DEF Uses
      <4> QED
        BY <4>1, <4>2, UsesStep
    <3>2. v = w
      BY <2>1, <2>2, <3>1 DEF Reached, Registered, Live, Add
    <3> QED
      BY <2>2, <3>1, <3>2 DEF Add, Typed, DaemonTyped
  <2> QED
    BY <2>3, <2>4
<1> QED
  BY <1>1, <1>2

(* All of it together. *)
ClosedInv == Typed /\ Apart /\ Reached /\ DoomedQuiet

LEMMA ClosedInvariance == Spec => []ClosedInv
<1>1. Init => ClosedInv
  BY TypedInit, ClosedInit DEF ClosedInv
<1>2. ClosedInv /\ [Next]_vars => ClosedInv'
  <2> SUFFICES ASSUME Typed, Apart, Reached, DoomedQuiet, [Next]_vars PROVE ClosedInv'
    BY DEF ClosedInv
  <2>1. Typed'
    BY TypedNext
  <2>2. CASE Next
    <3>1. Reached'
      BY <2>2, ReachedWorker, ReachedOther DEF Next
    <3> QED
      BY <2>1, <2>2, <3>1, ApartNext, QuietNext DEF ClosedInv
  <2>3. CASE UNCHANGED vars
    BY <2>1, <2>3 DEF vars, queueVars, workerVars, daemonVars, history, ClosedInv, Apart, Reached,
       OwnTransfers, KnownTransfers, Registered, QueuedAlone, DoomedCancelled, DoomedQuiet,
       Uses, Live
  <2> QED
    BY <2>2, <2>3
<1> QED
  BY <1>1, <1>2, PTL DEF Spec

(* No two jobs ever have a transfer in common, neither as the GID that is  *)
(* recorded for a job nor as the one that a worker of it has in hand,      *)
(* however jobs are resumed under workers and daemons die.                 *)
THEOREM TransfersApart == Spec => []OwnTransfers
<1>1. ClosedInv => OwnTransfers
  BY DEF ClosedInv, Apart
<1> QED
  BY <1>1, ClosedInvariance, PTL

(* Once the daemon has been stopped for good, none of the workers the      *)
(* shutdown cancelled follows a running transfer, even in a daemon that has*)
(* been brought up again; but for those of a job resumed under a worker.   *)
THEOREM ClosedQuiet == Spec => []ClosedIsQuiet
<1>1. ClosedInv => ClosedIsQuiet
  <2> SUFFICES ASSUME ClosedInv, phase = "closed", NEW w \in doomed, NEW g \in Gids,
                      Follows(w, g), transfer[g] = "active"
               PROVE  owner[w] \in tangled
    BY DEF ClosedIsQuiet
  <2>1. Uses(owner[w], g)
    BY DEF ClosedInv, Uses, Follows, Typed, RestTyped
  <2> QED
    BY <2>1 DEF ClosedInv, DoomedQuiet
<1> QED
  BY <1>1, ClosedInvariance, PTL

=============================================================================
