------------------------ MODULE CurrentFrameScheduler ------------------------
(***************************************************************************)
(* ViewerCurrentFrameRequestScheduler (Engine/OutputSchedulerThread): how  *)
(* the frame under the playhead reaches the viewer.  The main thread posts *)
(* requests to the scheduler, a GenericSchedulerThread that skips to the   *)
(* most recent one.  The scheduler has it rendered by the global thread    *)
(* pool or, when the pool is busy, by a backup thread, itself a            *)
(* GenericSchedulerThread that skips; it waits for the frame and has the   *)
(* main thread display it.  Meanwhile the main thread may abort, and the   *)
(* watcher of the render engine may quit both threads and wait.            *)
(*                                                                         *)
(* A request is its age.  The base class is that of GenericSchedulerThread *)
(* with coarser steps: a task is posted in one step, picked in one step.   *)
(***************************************************************************)
EXTENDS Integers, Functions, Subsequences

CONSTANTS
    MaxRequests,    \* bound: requests made by the user
    MaxCalls,       \* bound: aborts and quits that reach the scheduler
    AllowRestarts,  \* the arguments quitThread() is called with
    PoolHasRoom,    \* what the test of the pool's activity may yield
    MayBeNeat,      \* the requests that may be made while painting
    Faulty,         \* the requests whose render may fail or throw
    Stub, NoTask, NoImage

Ages == 1..MaxRequests

ASSUME RequestsAssumption ==
    /\ MaxRequests \in Nat /\ MaxCalls \in Nat
    /\ AllowRestarts \subseteq BOOLEAN /\ PoolHasRoom \subseteq BOOLEAN
    /\ MayBeNeat \subseteq Ages /\ Faulty \subseteq Ages
    /\ {Stub, NoTask, NoImage} \cap Ages = {} /\ Stub # NoTask

VARIABLES
    th,         \* the two GenericSchedulerThreads
    pool,       \* currentFrameRenderTasks: renders given to the thread pool
    stage,      \* how far the render of each request is
    hasImage,   \* the frames, produced or about to be, that have an image
    ongoing,    \* currentRenderAges
    aborted,    \* the renders whose AbortableRenderInfo is marked
    produced,   \* producedFrames
    mtArgs,     \* the frame the scheduler found, for the main thread
    events,     \* the event queue of the main thread, what matters here
    displayed,  \* the request whose image is in the texture of the viewer
    at, keep,   \* where each client is in its call, and its keepOldestRender
    requested,  \* ageCounter: the requests made
    neat,       \* the neat renders of a paint stroke: these may not be skipped
    posted,     \* history: those that were accepted as tasks
    threw,      \* history: those whose render threw an exception
    settled,    \* history: those the main thread heard of again, or the
                \* scheduler removed from its queue
    lost,       \* history: those the backup thread refused, forgot when it quit,
                \* or skipped for an overdue one
    calls       \* aborts and quits so far

histVars   == <<posted, settled, lost>>
threadVars == <<th, histVars>>
renderVars == <<pool, stage, hasImage, ongoing, aborted, threw>>
viewerVars == <<displayed, mtArgs, events>>
callVars   == <<at, keep>>
countVars  == <<requested, calls, neat>>
vars == <<threadVars, renderVars, viewerVars, callVars, countVars, produced>>

Threads == {"scheduler", "backup"}
Clients == {"main", "watcher"}
Stages  == {"none", "waiting", "begun", "ended", "over"}
Labels  == {"off", "sleep", "pick", "dispatch", "look", "asleep", "leave",
            "mainwait", "work", "resolve", "finish"}
CallLabels == {"idle", "raise", "mark", "abortBackup", "raiseBackup",
               "quitState", "quitClear", "quitBackup", "quitBackupState",
               "quitBackupRaise", "quitBackupClear", "wait", "join",
               "waitRenders", "waitBackup"}

Thread == [queue : Seq(Ages \cup {Stub}), late : Seq(Ages), wakes : Nat,
           aborting : BOOLEAN, mustQuit : BOOLEAN, allowed : BOOLEAN,
           restart : BOOLEAN, label : Labels, task : Ages \cup {Stub, NoTask},
           state : {"Stopped", "Idle", "Aborted", "Active"},
           result : {"Stopped", "Aborted", "Active"},
           overdue : SUBSET Ages]   \* history: left in the second queue

TypeOK ==
    /\ th \in [Threads -> Thread]
    /\ th["backup"].label \notin {"dispatch", "look", "asleep", "leave", "mainwait"}
    /\ th["scheduler"].label # "work"
    /\ stage \in [Ages -> Stages]
    /\ at \in [Clients -> CallLabels] /\ keep \in [Clients -> BOOLEAN]
    /\ requested \in 0..MaxRequests
    /\ {displayed, mtArgs} \subseteq (1..requested) \cup {NoImage}
    /\ UNION {pool, hasImage, ongoing, aborted, produced, posted, settled,
              lost, threw} \subseteq 1..requested
    /\ events \in Seq({"execute", "disconnect"})

NewThread == [queue |-> <<>>, late |-> <<>>, wakes |-> 0, aborting |-> FALSE,
              mustQuit |-> FALSE, allowed |-> TRUE, restart |-> TRUE,
              label |-> "off", task |-> NoTask, state |-> "Stopped",
              result |-> "Active", overdue |-> {}]

Init ==
    /\ th = [t \in Threads |-> NewThread]
    /\ pool = {} /\ stage = [a \in Ages |-> "none"] /\ hasImage = {}
    /\ ongoing = {} /\ aborted = {} /\ produced = {} /\ displayed = NoImage
    /\ mtArgs = NoImage /\ events = <<>>
    /\ at = [c \in Clients |-> "idle"] /\ keep = [c \in Clients |-> TRUE]
    /\ requested = 0 /\ calls = 0 /\ neat \in SUBSET MayBeNeat
    /\ threw = {} /\ posted = {} /\ settled = {} /\ lost = {}

-----------------------------------------------------------------------------
(* GenericSchedulerThread: r is one of the two threads *)

Accepts(r) == r.allowed /\ ~r.mustQuit

Enqueued(r, a) == IF r.aborting THEN [r EXCEPT !.late = Append(@, a)]
                                ELSE [r EXCEPT !.queue = Append(@, a)]
Started(r) == IF r.label = "off" THEN [r EXCEPT !.label = "pick"]
                                 ELSE [r EXCEPT !.wakes = @ + 1]
AfterStartTask(r, a) == IF Accepts(r) THEN Started(Enqueued(r, a)) ELSE r

(* what SkipToMostRecent leaves in the queue *)
Kept_Everything(q) == q
Kept(q) == Filter(q, neat)

(* the fake task of quitThread() is no work *)
AfterPick(a, l) == IF a = Stub THEN "resolve" ELSE l

Older(r) == SubSeq(r.queue, 1, Len(r.queue) - 1)
Picked(r, l) ==
    LET a == r.queue[Len(r.queue)]
    IN  IF r.queue = <<>>
          THEN [r EXCEPT !.task = NoTask, !.state = "Active", !.label = "resolve"]
          ELSE [r EXCEPT !.task = a, !.queue = Kept(Older(r)), !.state = "Active",
                         !.label = AfterPick(a, l)]
Skipped(r) == IF r.queue = <<>> THEN {}
              ELSE (Range(Older(r)) \cap Ages) \ Range(Kept(Older(r)))

(* A task of the second queue that comes too late is taken for a recent one *)
SkippedForOverdue(r) == IF r.queue # <<>> /\ r.queue[Len(r.queue)] \in r.overdue
                          THEN Skipped(r) ELSE {}

Pick(t, l) ==
    /\ th[t].label = "pick"
    /\ th' = [th EXCEPT ![t] = Picked(@, l)]
    /\ settled' = IF t = "scheduler" THEN settled \cup Skipped(th[t]) ELSE settled
    /\ lost' = IF t = "backup" THEN lost \cup SkippedForOverdue(th[t]) ELSE lost
    /\ UNCHANGED <<posted, renderVars, viewerVars, callVars, countVars, produced>>

(* resolveState(): the thread after it, its result in the field result *)
Resolved(r) ==
    IF r.mustQuit
      THEN [r EXCEPT !.mustQuit = FALSE, !.allowed = r.restart,
                     !.result = "Stopped"]
      ELSE [r EXCEPT !.result = IF r.aborting THEN "Aborted" ELSE "Active"]

Resolve(t) ==
    /\ th[t].label = "resolve"
    /\ th' = [th EXCEPT ![t] = [Resolved(th[t]) EXCEPT !.label = "finish"]]
    /\ UNCHANGED <<histVars, renderVars, viewerVars, callVars,
                   countVars, produced>>

(* the end of an iteration of run() *)
Finished_DropsQueue(r) ==
    CASE r.result = "Stopped" ->
           [r EXCEPT !.label = "off", !.state = "Stopped", !.mustQuit = FALSE]
      [] r.result = "Aborted" ->
           [r EXCEPT !.label = "sleep", !.state = "Aborted", !.aborting = FALSE,
                     !.queue = r.late, !.late = <<>>]
      [] OTHER ->
           [r EXCEPT !.label = "sleep", !.state = "Idle", !.aborting = FALSE,
                     !.overdue = @ \cup Range(r.late)]
Finished(r) ==
    CASE r.result = "Stopped" ->
           [r EXCEPT !.label = "off", !.state = "Stopped", !.mustQuit = FALSE]
      [] r.result = "Aborted" ->
           [r EXCEPT !.label = "sleep", !.state = "Aborted", !.aborting = FALSE,
                     !.queue = r.queue \o r.late, !.late = <<>>]
      [] OTHER ->
           [r EXCEPT !.label = "sleep", !.state = "Idle", !.aborting = FALSE,
                     !.overdue = @ \cup Range(r.late)]

QueuedIn(r) == (Range(r.queue) \cup Range(r.late)) \cap Ages

Finish(t) ==
    LET left == IF th[t].result = "Stopped" THEN QueuedIn(th[t]) ELSE {} IN
    /\ th[t].label = "finish"
    /\ th' = [th EXCEPT ![t] = [Finished(th[t]) EXCEPT !.task = NoTask,
                                                      !.result = "Active"]]
    /\ settled' = IF t = "scheduler" THEN settled \cup left ELSE settled
    /\ lost' = IF t = "backup" THEN lost \cup left ELSE lost
    /\ UNCHANGED <<posted, renderVars, viewerVars, callVars, countVars, produced>>

TakeStartRequest(t) ==
    /\ th[t].label = "sleep" /\ th[t].wakes > 0
    /\ th' = [th EXCEPT ![t].wakes = @ - 1, ![t].label = "pick"]
    /\ UNCHANGED <<histVars, renderVars, viewerVars, callVars,
                   countVars, produced>>

-----------------------------------------------------------------------------
(* ViewerCurrentFrameRequestScheduler::threadLoopOnce() *)

scheduler == th["scheduler"]
backup == th["backup"]

(* A neat render uses a single thread, so never the pool.  Whether the     *)
(* backup thread took the task is not looked at.                           *)
Dispatch ==
    LET a == scheduler.task IN
    /\ scheduler.label = "dispatch"
    /\ \/ /\ TRUE \in PoolHasRoom /\ a \notin neat
          /\ pool' = pool \cup {a} /\ stage' = [stage EXCEPT ![a] = "waiting"]
          /\ th' = [th EXCEPT !["scheduler"].label = "look"]
          /\ UNCHANGED lost
       \/ /\ FALSE \in PoolHasRoom \/ a \in neat
          /\ th' = [th EXCEPT !["scheduler"].label = "look",
                              !["backup"] = AfterStartTask(backup, a)]
          /\ lost' = IF Accepts(backup) THEN lost ELSE lost \cup {a}
          /\ stage' = [stage EXCEPT ![a] = "waiting"]
          /\ UNCHANGED pool
    /\ UNCHANGED <<posted, settled, hasImage, ongoing, aborted, threw, viewerVars,
                   callVars, countVars, produced>>

(* With producedFramesMutex held: the frame is there; or the scheduler was *)
(* asked to stop or abort, and leaves without it; or it waits.             *)
Newer(a) == {b \in produced : b > a}

Look ==
    LET a == scheduler.task
        asked == Resolved(scheduler)
    IN  /\ scheduler.label = "look"
        /\ IF a \in produced
             THEN /\ th' = [th EXCEPT !["scheduler"].label = "leave",
                                      !["scheduler"].result = "Active"]
                  /\ produced' = Newer(a)
                  /\ mtArgs' = IF a \in hasImage THEN a ELSE NoImage
                  /\ hasImage' = hasImage \ (produced \ Newer(a))
             ELSE /\ th' = [th EXCEPT !["scheduler"] =
                              [asked EXCEPT !.label = IF asked.result = "Active"
                                                        THEN "asleep" ELSE "leave"]]
                  /\ mtArgs' = NoImage /\ UNCHANGED <<produced, hasImage>>
        /\ UNCHANGED <<histVars, pool, stage, ongoing, aborted, threw, displayed,
                       events, callVars, countVars>>

(* Asked again.  The main thread is given what was found, even if the      *)
(* request was aborted since, and even if nothing was found.               *)
Leave ==
    LET r == IF scheduler.result = "Active" THEN Resolved(scheduler) ELSE scheduler
    IN  /\ scheduler.label = "leave"
        /\ IF r.result = "Stopped"
             THEN /\ th' = [th EXCEPT !["scheduler"] = [r EXCEPT !.label = "finish"]]
                  /\ UNCHANGED events
             ELSE /\ th' = [th EXCEPT !["scheduler"] = [r EXCEPT !.label = "mainwait"]]
                  /\ events' = Append(events, "execute")
        /\ UNCHANGED <<histVars, renderVars, displayed, mtArgs, callVars,
                       countVars, produced>>

(* The event loop of the main thread: processProducedFrame(), with an      *)
(* image or without one.  An image older than what is displayed is not     *)
(* held back: the user gets some feedback.                                 *)
MainThreadHandles(event) ==
    /\ at["main"] = "idle" /\ events # <<>> /\ Head(events) = event
    /\ events' = Tail(events)

UpdatedViewer == IF mtArgs = NoImage THEN displayed ELSE mtArgs

ExecuteOnMainThread ==
    /\ MainThreadHandles("execute")
    /\ displayed' = UpdatedViewer
    /\ mtArgs' = NoImage
    /\ settled' = settled \cup {scheduler.task}
    /\ th' = [th EXCEPT !["scheduler"].label =
                IF scheduler.result = "Active" THEN "resolve" ELSE "finish"]
    /\ UNCHANGED <<posted, lost, renderVars, callVars, countVars, produced>>

(* A render that failed has the viewer cleared, by a queued signal.        *)
ViewerDisconnected ==
    /\ MainThreadHandles("disconnect")
    /\ displayed' = NoImage
    /\ UNCHANGED <<threadVars, renderVars, mtArgs, callVars, countVars, produced>>

-----------------------------------------------------------------------------
(* RenderCurrentFrameFunctorRunnable::run(), by the pool or the backup *)

Runs(a) == a \in pool \/ (backup.label = "work" /\ backup.task = a)

(* A render older than one that has begun is not worth beginning.          *)
IsOutdated(a) == \E b \in ongoing : b >= a

BeginRender(a) ==
    /\ Runs(a) /\ stage[a] = "waiting"
    /\ IF IsOutdated(a)
         THEN stage' = [stage EXCEPT ![a] = "ended"] /\ UNCHANGED ongoing
         ELSE stage' = [stage EXCEPT ![a] = "begun"] /\ ongoing' = ongoing \cup {a}
    /\ UNCHANGED <<threadVars, pool, hasImage, aborted, threw, viewerVars, callVars,
                   countVars, produced>>

(* A render ends with an image, with none because it was aborted, or by a  *)
(* failure, which has the viewer cleared.  An exception skips              *)
(* removeOngoingRender().                                                  *)
RenderEnds_AbortLeaks(a) ==
    \/ /\ hasImage' = hasImage \cup {a} /\ ongoing' = ongoing \ {a}
       /\ UNCHANGED <<events, threw>>
    \/ a \in aborted /\ UNCHANGED <<hasImage, events, ongoing, threw>>
RenderEnds(a) ==
    \/ /\ hasImage' = hasImage \cup {a} /\ ongoing' = ongoing \ {a}
       /\ UNCHANGED <<events, threw>>
    \/ /\ a \in aborted
       /\ ongoing' = ongoing \ {a} /\ UNCHANGED <<hasImage, events, threw>>
    \/ /\ a \in Faulty /\ events' = Append(events, "disconnect") /\ UNCHANGED hasImage
       /\ \/ ongoing' = ongoing \ {a} /\ UNCHANGED threw
          \/ threw' = threw \cup {a} /\ UNCHANGED ongoing

EndRender(a) ==
    /\ Runs(a) /\ stage[a] = "begun"
    /\ RenderEnds(a)
    /\ stage' = [stage EXCEPT ![a] = "ended"]
    /\ UNCHANGED <<threadVars, pool, aborted, displayed, mtArgs, callVars,
                   countVars, produced>>

(* notifyFrameProduced(), whatever there is to show, and                   *)
(* removeRunnableTask(); the abort info of the render goes with it          *)
Woken_Never(r) == r
Woken(r) == IF r.label = "asleep" THEN [r EXCEPT !.label = "look"] ELSE r

NotifyFrameProduced(a) ==
    /\ Runs(a) /\ stage[a] = "ended"
    /\ stage' = [stage EXCEPT ![a] = "over"]
    /\ produced' = produced \cup {a}
    /\ pool' = pool \ {a} /\ aborted' = aborted \ {a}
    /\ th' = [th EXCEPT !["scheduler"] = Woken(@),
                        !["backup"].label = IF a \in pool THEN @ ELSE "resolve"]
    /\ UNCHANGED <<histVars, hasImage, ongoing, threw, viewerVars, callVars,
                   countVars>>

-----------------------------------------------------------------------------
(* renderCurrentFrame(), on the main thread: a viewer cleared or redrawn,  *)
(* an image of the cache displayed at once, or a task for the scheduler    *)

RenderCurrentFrame ==
    LET a == requested + 1 IN
    /\ at["main"] = "idle" /\ requested < MaxRequests
    /\ requested' = a
    /\ \/ /\ displayed' \in {a, NoImage, displayed} /\ a \notin neat
          /\ UNCHANGED <<th, posted>>
       \/ /\ th' = [th EXCEPT !["scheduler"] = AfterStartTask(@, a)]
          /\ posted' = IF Accepts(scheduler) THEN posted \cup {a} ELSE posted
          /\ UNCHANGED displayed
    /\ UNCHANGED <<settled, lost, renderVars, mtArgs, events, callVars, calls,
                   neat, produced>>

-----------------------------------------------------------------------------
(* abortThreadedTask() on the scheduler, and its onAbortRequested() *)

Move(c, l) == at' = [at EXCEPT ![c] = l]
IsWorking(r) == r.label # "off" /\ r.state \notin {"Aborted", "Idle"}

CallAbort ==
    /\ at["main"] = "idle" /\ calls < MaxCalls /\ scheduler.label # "off"
    /\ \E k \in BOOLEAN :
         /\ ~k \/ IsWorking(scheduler)
         /\ keep' = [keep EXCEPT !["main"] = k]
    /\ Move("main", IF IsWorking(scheduler) THEN "raise" ELSE "mark")
    /\ calls' = calls + 1
    /\ UNCHANGED <<threadVars, renderVars, viewerVars, requested, neat, produced>>

(* the abort is counted, perhaps after the task it was meant for *)
Raise(t) == th' = [th EXCEPT ![t].aborting = TRUE]

(* back to the caller, or to quitThread() *)
AbortReturns(c) ==
    /\ Move(c, IF c = "main" THEN "idle" ELSE "quitClear")
    /\ keep' = [keep EXCEPT ![c] = TRUE]

RaiseAbort(c) ==
    /\ at[c] = "raise"
    /\ Raise("scheduler")
    /\ IF scheduler.aborting /\ keep[c] THEN AbortReturns(c)
         ELSE Move(c, "mark") /\ UNCHANGED keep
    /\ UNCHANGED <<histVars, renderVars, viewerVars, countVars,
                   produced>>

(* markAllOnGoingRendersAsAborted(): in draft mode the oldest may go on *)
MarkOngoing(c) ==
    /\ at[c] = "mark"
    /\ \E draft \in BOOLEAN :
         aborted' = aborted \cup
           {a \in ongoing : (draft /\ keep[c]) => \E older \in ongoing : older < a}
    /\ Move(c, "abortBackup")
    /\ UNCHANGED <<threadVars, pool, stage, hasImage, ongoing, threw, viewerVars, keep,
                   countVars, produced>>

AbortBackup(c) ==
    /\ at[c] = "abortBackup"
    /\ IF IsWorking(backup) THEN Move(c, "raiseBackup") /\ UNCHANGED keep
                            ELSE AbortReturns(c)
    /\ UNCHANGED <<threadVars, renderVars, viewerVars, countVars, produced>>

RaiseBackup(c) ==
    /\ at[c] = "raiseBackup"
    /\ Raise("backup")
    /\ AbortReturns(c)
    /\ UNCHANGED <<histVars, renderVars, viewerVars, countVars,
                   produced>>

-----------------------------------------------------------------------------
(* quitThread() on the scheduler, with its onQuitRequested(), and          *)
(* waitForThreadToQuit_*(), by the watcher of the render engine            *)

MayQuit(r) == r.label # "off" /\ ~r.mustQuit /\ r.restart
Quitting(r, allow) == [r EXCEPT !.mustQuit = TRUE, !.allowed = FALSE, !.restart = allow]
Cleared_NoWake(r) == [r EXCEPT !.queue = <<Stub>>]
Cleared(r) == [r EXCEPT !.queue = <<Stub>>, !.wakes = @ + 1]

CallQuit ==
    /\ at["watcher"] = "idle" /\ calls < MaxCalls /\ MayQuit(scheduler)
    /\ \E allow \in AllowRestarts :
         th' = [th EXCEPT !["scheduler"] = Quitting(@, allow)]
    /\ calls' = calls + 1
    /\ Move("watcher", "quitState")
    /\ UNCHANGED <<histVars, renderVars, viewerVars, keep, requested,
                   neat, produced>>

QuitReadState ==
    /\ at["watcher"] = "quitState"
    /\ Move("watcher", IF scheduler.state = "Active" THEN "raise" ELSE "quitClear")
    /\ UNCHANGED <<threadVars, renderVars, viewerVars, keep, countVars, produced>>

QuitClear ==
    /\ at["watcher"] = "quitClear"
    /\ th' = [th EXCEPT !["scheduler"] = Cleared(@)]
    /\ settled' = settled \cup (Range(scheduler.queue) \cap Ages)
    /\ Move("watcher", "quitBackup")
    /\ UNCHANGED <<posted, lost, renderVars, viewerVars, keep, countVars, produced>>

QuitBackup ==
    /\ at["watcher"] = "quitBackup"
    /\ IF MayQuit(backup)
         THEN /\ th' = [th EXCEPT !["backup"] = Quitting(@, scheduler.restart)]
              /\ Move("watcher", "quitBackupState")
         ELSE Move("watcher", "wait") /\ UNCHANGED th
    /\ UNCHANGED <<histVars, renderVars, viewerVars, keep, countVars,
                   produced>>

QuitBackupReadState ==
    /\ at["watcher"] = "quitBackupState"
    /\ Move("watcher", IF backup.state = "Active" THEN "quitBackupRaise"
                                                  ELSE "quitBackupClear")
    /\ UNCHANGED <<threadVars, renderVars, viewerVars, keep, countVars, produced>>

QuitBackupRaise ==
    /\ at["watcher"] = "quitBackupRaise"
    /\ Raise("backup")
    /\ Move("watcher", "quitBackupClear")
    /\ UNCHANGED <<histVars, renderVars, viewerVars, keep, countVars,
                   produced>>

QuitBackupClear ==
    /\ at["watcher"] = "quitBackupClear"
    /\ th' = [th EXCEPT !["backup"] = Cleared(@)]
    /\ lost' = lost \cup (Range(backup.queue) \cap Ages)
    /\ Move("watcher", "wait")
    /\ UNCHANGED <<posted, settled, renderVars, viewerVars, keep, countVars, produced>>

(* A thread that has stopped already is not waited for, nor its renders.   *)
WaitForQuit ==
    /\ at["watcher"] = "wait"
    /\ Move("watcher", IF scheduler.label = "off" \/ scheduler.state = "Stopped"
                         THEN "idle" ELSE "join")
    /\ UNCHANGED <<threadVars, renderVars, viewerVars, keep, countVars, produced>>

Join ==
    /\ at["watcher"] = "join" /\ scheduler.label = "off"
    /\ Move("watcher", "waitRenders")
    /\ UNCHANGED <<threadVars, renderVars, viewerVars, keep, countVars, produced>>

WaitForRunnableTasks ==
    /\ at["watcher"] = "waitRenders" /\ pool = {}
    /\ Move("watcher", "waitBackup")
    /\ UNCHANGED <<threadVars, renderVars, viewerVars, keep, countVars, produced>>

WaitForBackup ==
    /\ at["watcher"] = "waitBackup" /\ backup.label = "off"
    /\ Move("watcher", "idle")
    /\ UNCHANGED <<threadVars, renderVars, viewerVars, keep, countVars, produced>>

-----------------------------------------------------------------------------
LoopStep(t, l) == Pick(t, l) \/ Resolve(t) \/ Finish(t) \/ TakeStartRequest(t)
SchedulerStep == LoopStep("scheduler", "dispatch") \/ Dispatch \/ Look \/ Leave
MainThreadEvent == ExecuteOnMainThread \/ ViewerDisconnected
BackupStep == LoopStep("backup", "work")
RenderStep(a) == BeginRender(a) \/ EndRender(a) \/ NotifyFrameProduced(a)
AbortStep(c) == RaiseAbort(c) \/ MarkOngoing(c) \/ AbortBackup(c) \/ RaiseBackup(c)
QuitStep == QuitReadState \/ QuitClear \/ QuitBackup \/ QuitBackupReadState
              \/ QuitBackupRaise \/ QuitBackupClear
              \/ WaitForQuit \/ Join \/ WaitForRunnableTasks \/ WaitForBackup

Next ==
    \/ RenderCurrentFrame \/ CallAbort \/ CallQuit
    \/ SchedulerStep \/ BackupStep \/ MainThreadEvent
    \/ \E a \in Ages : RenderStep(a)
    \/ \E c \in Clients : AbortStep(c)
    \/ QuitStep

Spec == Init /\ [][Next]_vars

FairSpec ==
    /\ Spec
    /\ WF_vars(SchedulerStep) /\ WF_vars(BackupStep) /\ WF_vars(MainThreadEvent)
    /\ WF_vars(\E a \in Ages : RenderStep(a))
    /\ WF_vars(\E c \in Clients : AbortStep(c)) /\ WF_vars(QuitStep)

-----------------------------------------------------------------------------
(* A task is stranded when its thread sleeps with it and nothing will wake *)
(* the thread up: an abort came too late (see GenericSchedulerThread).     *)
Stranded(t) == {a \in QueuedIn(th[t]) : th[t].label = "sleep" /\ th[t].wakes = 0}

(* The renders that are running or will.                                   *)
Coming == {a \in Ages : Runs(a)}
            \cup (IF backup.label = "off" THEN {} ELSE QueuedIn(backup))

(* Safety, threadLoopOnce(): the scheduler waits without a timeout, and    *)
(* only a frame wakes it.  The frame it waits for is on its way, unless    *)
(* the backup thread refused it, forgot it when it was asked to quit, or   *)
(* skipped it for an overdue one: neither an abort nor what the backup     *)
(* thread skips otherwise may take it away.                                *)
WaitsForAComingFrame ==
    scheduler.label = "asleep" => scheduler.task \in Coming \cup lost

(* Safety, addOngoingRender() and removeOngoingRender(): what an abort     *)
(* marks, and spares, is a render that runs, whatever was refused, aborted *)
(* or failed; only a render that threw may be left in the list.            *)
OngoingRendersRun ==
    \A a \in ongoing \ threw : Runs(a) /\ stage[a] = "begun"

(* Safety: the state of the scheduler and its renders is one the code may  *)
(* be in, and the renders it lists run.                                    *)
OngoingInv == TypeOK /\ OngoingRendersRun

(* Action, processProducedFrame(): the images the scheduler has displayed  *)
(* come in the order of their requests; an older one replaces a newer one  *)
(* only if it may not be skipped, if an abort that came too late has left  *)
(* it in the second queue, or if the newer one was in the cache.           *)
DisplayedInOrder ==
    [][(displayed' \in Ages /\ displayed \in Ages /\ displayed' < displayed)
         => displayed' \in neat \cup scheduler.overdue \/ displayed \notin posted]_vars

(* Liveness: every request that is accepted is given to the main thread    *)
(* (with or without its image), or skipped for a newer one, or the         *)
(* scheduler is stopped; unless an abort that came too late has stranded a *)
(* task, or the backup thread lost the render the scheduler waits for.     *)
(* The requests are finitely many.                                         *)
LetDown == (\E t \in Threads : Stranded(t) # {}) \/ (scheduler.label = "asleep" /\ scheduler.task \in lost)
EveryRequestAnswered ==
    []<>(posted \subseteq settled \/ scheduler.label = "off" \/ LetDown)

(* Liveness, waitForThreadToQuit_*(): it returns, unless a render that the *)
(* scheduler waits for is stranded or lost, or the scheduler has started   *)
(* the backup thread after onQuitRequested() found it not running.         *)
BackupOutlivesQuit == backup.label # "off" /\ Accepts(backup) /\ backup.restart
QuitReturns ==
    at["watcher"] = "wait" ~>
        at["watcher"] = "idle" \/ BackupOutlivesQuit \/ LetDown

-----------------------------------------------------------------------------
(* What the code does not keep *)

(* The frame the scheduler waits for is coming, and its thread is awake:   *)
(* the backup thread is there "to keep the renders responsive even if the  *)
(* thread pool is choking" (Engine/OutputSchedulerThread.h:598).           *)
KeepsResponsive ==
    scheduler.label = "asleep" =>
        scheduler.task \in Coming \ Stranded("backup")

(* After a quit for good and the wait for it the scheduler "may safely be  *)
(* destroyed" (Engine/GenericSchedulerThread.h:133): no render uses it.    *)
StoppedMeansNoRender ==
    (scheduler.label = "off" /\ ~scheduler.restart /\ at["watcher"] = "idle")
        => \A a \in Ages : ~Runs(a)

(* The texture never goes back to an older request: when "there was        *)
(* already a more recent render that had finished rendering", the current  *)
(* one must "not redraw the viewer" (Engine/ViewerInstancePrivate.h:251).  *)
NeverGoesBack ==
    [][(displayed' \in Ages /\ displayed \in Ages) => displayed' >= displayed]_vars

(* The image of the last request is cleared by another request only: the   *)
(* failure of an older one has nothing to say of it.                       *)
NewerImageSurvives ==
    [][displayed = requested /\ displayed' = NoImage => requested' # requested]_vars

(* A render that threw is not an ongoing render any more.                  *)
NoRenderIsLeftOngoing == \A a \in ongoing : Runs(a)
=============================================================================
