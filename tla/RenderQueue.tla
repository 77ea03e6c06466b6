----------------------------- MODULE RenderQueue -----------------------------
(***************************************************************************)
(* The renders of an application: the queue of AppInstance, the requests   *)
(* each OutputEffectInstance keeps for its engine, the tasks of the        *)
(* progress panel that pause, cancel and restart them, and the processes   *)
(* of ProcessHandler.  The scheduler of a writer is reduced to what it     *)
(* does with its tasks (see GenericSchedulerThread and OutputScheduler).   *)
(*                                                                         *)
(* mode "Gui":      the engine of the writer renders in this process;      *)
(* mode "Process":  each render has a background process;                  *)
(* mode "Blocking": a background application, whose blockingMap() renders  *)
(*                  the frame ranges of the command line side by side.     *)
(***************************************************************************)
EXTENDS ProcessHandler, FiniteSets, Functions, Subsequences

CONSTANTS
    Writers, NoJob,
    WriterOf,       \* the writer of each job
    Modes,          \* the modes to start in
    Unqueuing,      \* the modes where the user may switch "render queuing" off
    Questioned,     \* jobs renderFullSequence() asks the user about
    ViewAware,      \* jobs of view-aware writers
    Overlap,        \* a task may be restarted before its render has stopped
    MaxCancels,     \* bound: clicks on pause or cancel
    MaxProcesses    \* bound: renders with a process

ASSUME RenderQueueAssumption ==
    /\ NoJob \notin Jobs /\ WriterOf \in [Jobs -> Writers]
    /\ Modes \subseteq {"Gui", "Process", "Blocking"}
    /\ Unqueuing \subseteq Modes /\ Overlap \in BOOLEAN
    /\ ViewAware \subseteq Questioned /\ Questioned \subseteq Jobs
    /\ (Overlap => "Process" \notin Modes) /\ MaxCancels \in Nat /\ MaxProcesses \in Nat

VARIABLES
    mode, queuing,      \* settings
    renderQueue, activeRenders,
    requests,           \* _renderSequenceRequests of each writer
    enqueued, late,     \* tasks of its scheduler; those queued during an abort
    engine,             \* where its scheduler is
    current,            \* the job it renders
    abortRequested,
    wasAborted,         \* the state threadLoopOnce() resolved
    task,               \* the task of the progress panel for each writer
    events,             \* renderFinished() signals queued for the main thread
    todo,               \* what the main thread is in the middle of
    blocking,           \* where each blockingRender() is
    dataLock,           \* writers whose engine holds _outputEffectDataLock
    asked, rendered, canceled,  \* history: jobs
    cancels, everUnqueued       \* for the bound; and history

queueVars  == <<renderQueue, activeRenders>>
engineVars == <<requests, enqueued, late, engine, current, abortRequested, wasAborted,
                dataLock>>
guiVars    == <<task, events, todo>>
userVars   == <<mode, queuing, asked, canceled, cancels, everUnqueued>>
vars == <<processVars, queueVars, engineVars, guiVars, userVars, blocking, rendered>>

Steps == {"start", "render", "ask", "push", "stopped"}
EngineLabels == {"idle", "render", "report", "notify", "notified", "reset"}

TypeOK ==
    /\ ProcessTypeOK
    /\ mode \in Modes /\ queuing \in BOOLEAN
    /\ renderQueue \in Seq(Jobs) /\ activeRenders \in Seq(Jobs)
    /\ \A w \in Writers : Range(requests[w]) \cup Range(enqueued[w]) \cup Range(late[w])
                            \subseteq {j \in Jobs : WriterOf[j] = w}
    /\ engine \in [Writers -> EngineLabels]
    /\ current \in [Writers -> Jobs \cup {NoJob}]
    /\ abortRequested \in [Writers -> BOOLEAN] /\ wasAborted \in [Writers -> BOOLEAN]
    /\ task \in [Writers -> [jobs : SUBSET Jobs, canceled : BOOLEAN,
                             job : Jobs \cup {NoJob}]]
    /\ \A i \in DOMAIN todo : todo[i].step \in Steps
    /\ blocking \in [Jobs -> {"idle", "call", "locked", "waiting", "over"}]
    /\ asked \subseteq Jobs /\ rendered \subseteq Jobs /\ canceled \subseteq Jobs

(* A task, the jobs whose signals it is connected to, and its last job *)
NoTaskYet == [jobs |-> {}, canceled |-> FALSE, job |-> NoJob]

Init ==
    /\ ProcessInit
    /\ mode \in Modes /\ queuing \in {TRUE, mode \notin Unqueuing}
    /\ renderQueue = <<>> /\ activeRenders = <<>>
    /\ requests = [w \in Writers |-> <<>>] /\ enqueued = [w \in Writers |-> <<>>]
    /\ late = [w \in Writers |-> <<>>] /\ engine = [w \in Writers |-> "idle"]
    /\ current = [w \in Writers |-> NoJob]
    /\ abortRequested = [w \in Writers |-> FALSE]
    /\ wasAborted = [w \in Writers |-> FALSE]
    /\ task = [w \in Writers |-> NoTaskYet] /\ events = <<>> /\ todo = <<>>
    /\ blocking = [j \in Jobs |-> "idle"] /\ dataLock = {}
    /\ asked = {} /\ rendered = {} /\ canceled = {} /\ cancels = 0
    /\ everUnqueued = ~queuing

-----------------------------------------------------------------------------
(* The engine of a writer *)

(* renderFullSequence() once the user has agreed, then renderFrameRange()  *)
(* and startTask() when nothing else is requested of this writer           *)
StartTask(w, j) ==
    IF abortRequested[w]
      THEN late' = Set(late, w, Append(late[w], j)) /\ UNCHANGED enqueued
      ELSE enqueued' = Set(enqueued, w, Append(enqueued[w], j)) /\ UNCHANGED late

AlreadyRendering(w) == Len(requests[w]) > 0

PushRequest(j) ==
    LET w == WriterOf[j]
    IN /\ w \notin dataLock
       /\ requests' = Set(requests, w, Append(requests[w], j))
       /\ IF AlreadyRendering(w) THEN UNCHANGED <<enqueued, late>> ELSE StartTask(w, j)
       /\ UNCHANGED <<engine, current, abortRequested, wasAborted, dataLock>>

(* abortRendering_non_blocking(): an abort of an idle scheduler is ignored *)
AbortEngines(ws) ==
    abortRequested' = [w \in Writers |-> abortRequested[w]
                                          \/ (w \in ws /\ engine[w] # "idle")]

BeginTask(w) ==
    /\ engine[w] = "idle" /\ enqueued[w] # <<>>
    /\ current' = Set(current, w, enqueued[w][Len(enqueued[w])])
    /\ enqueued' = Set(enqueued, w, <<>>)
    /\ engine' = Set(engine, w, "render")
    /\ UNCHANGED <<requests, late, abortRequested, wasAborted, dataLock, rendered, events,
                   blocking>>

(* threadLoopOnce() ends, by itself or because it is aborted *)
EndTask(w) ==
    /\ engine[w] = "render"
    /\ engine' = Set(engine, w, "report")
    /\ wasAborted' = Set(wasAborted, w, abortRequested[w])
    /\ rendered' = IF abortRequested[w] THEN rendered ELSE rendered \cup {current[w]}
    /\ UNCHANGED <<requests, enqueued, late, current, abortRequested, dataLock, events,
                   blocking>>

(* s_renderFinished(): AppInstance is connected first, then the task *)
FinishedEvents(w) ==
    <<[to |-> "app", writer |-> w, job |-> NoJob]>>
       \o (IF task[w].jobs = {} THEN <<>>
             ELSE <<[to |-> "task", writer |-> w, job |-> task[w].job]>>)

ReportFinished(w) ==
    /\ engine[w] = "report"
    /\ engine' = Set(engine, w, "notify")
    /\ events' = IF mode = "Gui" THEN events \o FinishedEvents(w) ELSE events
    /\ UNCHANGED <<requests, enqueued, late, current, abortRequested, wasAborted,
                   dataLock, rendered, blocking>>

(* OutputEffectInstance::notifyRenderFinished(): under the lock...         *)
NotifyRenderFinished(w) ==
    /\ engine[w] = "notify" /\ w \notin dataLock
    /\ dataLock' = dataLock \cup {w}
    /\ engine' = Set(engine, w, "notified")
    /\ UNCHANGED <<requests, enqueued, late, current, abortRequested, wasAborted,
                   rendered, events, blocking>>

(* ...the controller of the front request is told, under its own mutex,    *)
(* and the next request is launched.                                       *)
RunningMutexFree(j) == blocking[j] # "locked"

RequestsLeft_All(w) == requests[w]
RequestsLeft(w) == Tail(requests[w])

RequestsRemain(rs) == rs # <<>>

PopRequest(w) ==
    /\ engine[w] = "notified" /\ RunningMutexFree(Head(requests[w]))
    /\ requests' = Set(requests, w, RequestsLeft(w))
    /\ blocking' = IF mode = "Blocking" THEN Set(blocking, Head(requests[w]), "over")
                                        ELSE blocking
    /\ IF RequestsRemain(requests'[w]) THEN StartTask(w, Head(requests'[w]))
                                       ELSE UNCHANGED <<enqueued, late>>
    /\ dataLock' = dataLock \ {w}
    /\ engine' = Set(engine, w, "reset")
    /\ UNCHANGED <<current, abortRequested, wasAborted, rendered, events>>

(* The end of run(): see ResetAbort of GenericSchedulerThread *)
ResetAbort(w) ==
    /\ engine[w] = "reset"
    /\ engine' = Set(engine, w, "idle") /\ current' = Set(current, w, NoJob)
    /\ IF wasAborted[w]
         THEN /\ enqueued' = Set(enqueued, w, enqueued[w] \o late[w])
              /\ late' = Set(late, w, <<>>)
         ELSE UNCHANGED <<enqueued, late>>
    /\ abortRequested' = Set(abortRequested, w, FALSE)
    /\ UNCHANGED <<requests, wasAborted, dataLock, rendered, events, blocking>>

EngineStep(w) ==
    /\ \/ BeginTask(w) \/ EndTask(w) \/ ReportFinished(w) \/ NotifyRenderFinished(w)
       \/ PopRequest(w) \/ ResetAbort(w)
    /\ UNCHANGED <<processVars, queueVars, task, todo, userVars>>

-----------------------------------------------------------------------------
(* blockingRender(), in a thread of blockingMap() *)

BlockingRender(j) ==
    /\ blocking[j] = "call" /\ PushRequest(j)
    /\ blocking' = Set(blocking, j, "locked")
    /\ UNCHANGED <<processVars, queueVars, guiVars, userVars, rendered>>

WaitNotRunning(j) ==
    /\ blocking[j] = "locked" /\ blocking' = Set(blocking, j, "waiting")
    /\ UNCHANGED <<processVars, queueVars, engineVars, guiVars, userVars, rendered>>

-----------------------------------------------------------------------------
(* The queue of AppInstance: what one call does to it *)

(* removeRenderFromQueue(): the first item of each of these writers.  No   *)
(* item is in a queue twice.                                               *)
WithoutFirstOf(q, ws) ==
    LET isFirst(i) == \A k \in 1 .. i - 1 : WriterOf[q[k]] # WriterOf[q[i]]
        firsts     == {q[i] : i \in {k \in DOMAIN q : WriterOf[q[k]] \in ws /\ isFirst(k)}}
    IN Filter(q, Range(q) \ firsts)

Frame(step, j) == [step |-> step, job |-> j]
StartAll(js) == [i \in DOMAIN js |-> Frame("start", js[i])]

(* startWritersRendering(): queue what may not start yet *)
SomethingActive_Ignored == FALSE
SomethingActive == activeRenders # <<>>

Others_Forgotten(js) == <<>>
Others(js) == Tail(js)

Enqueue(q, js) ==
    IF ~queuing
      THEN renderQueue' = q /\ todo' = StartAll(js)
      ELSE IF SomethingActive
             THEN renderQueue' = q \o js /\ UNCHANGED todo
             ELSE renderQueue' = q \o Others(js) /\ todo' = StartAll(<<Head(js)>>)

(* startNextQueuedRender(w), then what the caller has left to do *)
ActiveWithout(w) == WithoutFirstOf(activeRenders, {w})

StartNext(w, rest) ==
    /\ activeRenders' = ActiveWithout(w)
    /\ \/ /\ renderQueue = <<>> /\ UNCHANGED renderQueue
          /\ todo' = rest
       \/ /\ renderQueue # <<>> /\ renderQueue' = Tail(renderQueue)
          /\ todo' = <<Frame("start", Head(renderQueue))>> \o rest

-----------------------------------------------------------------------------
(* The main thread *)

(* A modal question runs the event loop, but the user can only answer it *)
InEventLoop == todo # <<>> => Head(todo).step = "ask"
UserIsFree  == todo = <<>>

(* ProgressTaskInfo::cancelTask(): of a live task, or nothing *)
Live(w) == task[w].jobs # {} /\ ~task[w].canceled
CancelRenders(ws) ==
    LET live == {w \in ws : Live(w)}
    IN /\ canceled' = canceled \cup {task[w].job : w \in live}
       /\ IF mode = "Process" /\ live # {}
            THEN CancelProcess(task[CHOOSE w \in live : TRUE].job)
            ELSE UNCHANGED processVars
       /\ IF mode = "Gui" THEN AbortEngines(live) ELSE UNCHANGED abortRequested

(* The last render of the writer is not over, or not everybody knows *)
Busy(w) ==
    \/ w \in {WriterOf[j] : j \in Range(activeRenders)}
    \/ engine[w] # "idle" \/ requests[w] # <<>>
    \/ w \in {events[i].writer : i \in DOMAIN events}

Fresh(js) ==
    /\ Range(js) \cap asked = {}
    /\ mode = "Process" => Cardinality(asked \cup Range(js)) <= MaxProcesses
ByWriter(js, w) == CHOOSE j \in Range(js) : WriterOf[j] = w

(* The user renders one writer, or two at once.  The knobs of a writer are *)
(* frozen while its engine renders.                                        *)
RequestRender(js) ==
    LET ws == {WriterOf[j] : j \in Range(js)}
    IN /\ mode # "Blocking" /\ UserIsFree /\ Fresh(js)
       /\ Cardinality(ws) = Len(js)
       /\ \A w \in ws : /\ engine[w] \notin {"render", "report"}
                        /\ Overlap \/ ~Busy(w)
       /\ mode = "Process" => Cardinality({w \in ws : Live(w)}) <= 1
       /\ asked' = asked \cup Range(js)
       /\ CancelRenders(ws)
       /\ task' = [w \in Writers |-> IF w \in ws
                     THEN [jobs |-> {ByWriter(js, w)}, canceled |-> FALSE,
                           job |-> ByWriter(js, w)]
                     ELSE task[w]]
       /\ Enqueue(WithoutFirstOf(renderQueue, {w \in ws : Live(w)}), js)
       /\ UNCHANGED <<activeRenders, requests, enqueued, late, engine, current,
                      wasAborted, dataLock, events, mode, queuing, cancels, everUnqueued,
                      blocking, rendered>>

(* The user pauses a task, or cancels it, which removes it from the panel *)
CancelTask(w, remove) ==
    /\ UserIsFree /\ Live(w) /\ cancels < MaxCancels
    /\ cancels' = cancels + 1
    /\ CancelRenders({w})
    /\ renderQueue' = WithoutFirstOf(renderQueue, {w})
    /\ task' = IF remove THEN Set(task, w, NoTaskYet)
                         ELSE [task EXCEPT ![w].canceled = TRUE]
    /\ UNCHANGED <<activeRenders, requests, enqueued, late, engine, current, wasAborted,
                   dataLock, events, todo, mode, queuing, asked, everUnqueued, blocking,
                   rendered>>

RestartTask(w, j) ==
    /\ UserIsFree /\ task[w].canceled /\ Fresh(<<j>>) /\ WriterOf[j] = w
    /\ Overlap \/ ~Busy(w)
    /\ asked' = asked \cup {j}
    /\ task' = Set(task, w, [jobs |-> task[w].jobs \cup {j}, canceled |-> FALSE, job |-> j])
    /\ Enqueue(renderQueue, <<j>>)
    /\ UNCHANGED <<processVars, activeRenders, engineVars, events, mode, queuing,
                   canceled, cancels, everUnqueued, blocking, rendered>>

ChangeQueuing ==
    /\ mode \in Unqueuing /\ UserIsFree
    /\ ~everUnqueued
    /\ queuing' = FALSE /\ everUnqueued' = TRUE
    /\ UNCHANGED <<processVars, queueVars, engineVars, guiVars, mode, asked, canceled,
                   cancels, blocking, rendered>>

(* The command line of a background application: all its frame ranges *)
BlockingMap ==
    /\ mode = "Blocking" /\ asked = {}
    /\ asked' = Jobs /\ blocking' = [j \in Jobs |-> "call"]
    /\ UNCHANGED <<processVars, queueVars, engineVars, guiVars, mode, queuing, canceled,
                   cancels, everUnqueued, rendered>>

-----------------------------------------------------------------------------
(* The main thread in the middle of a call *)

Doing(step) == todo # <<>> /\ Head(todo).step = step
Job == Head(todo).job

(* startRenderingFullSequence() *)
StartRendering ==
    /\ Doing("start")
    /\ activeRenders' = Append(activeRenders, Job)
    /\ IF mode = "Process"
         THEN StartProcess(Job) /\ todo' = Tail(todo)
         ELSE todo' = <<Frame("render", Job)>> \o Tail(todo) /\ UNCHANGED processVars
    /\ UNCHANGED <<renderQueue, engineVars, task, events, userVars, blocking, rendered>>

RenderFullSequence ==
    /\ Doing("render") \/ Doing("push")
    /\ IF Doing("render") /\ Job \in Questioned
         THEN /\ todo' = <<Frame("ask", Job)>> \o Tail(todo)
              /\ UNCHANGED engineVars
         ELSE PushRequest(Job) /\ todo' = Tail(todo)
    /\ UNCHANGED <<processVars, queueVars, task, events, userVars, blocking, rendered>>

AcceptQuestion ==
    /\ Doing("ask")
    /\ todo' = <<Frame("push", Job)>> \o Tail(todo)
    /\ UNCHANGED <<processVars, queueVars, engineVars, task, events, userVars, blocking,
                   rendered>>

(* s_renderFinished(1) by the main thread calls both slots at once; for a  *)
(* view-aware writer renderFullSequence() returns without it.              *)
Reported_Never(j) == FALSE
Reported(j) == j \notin ViewAware

RefuseQuestion ==
    /\ Doing("ask")
    /\ canceled' = canceled \cup {Job}
    /\ IF Reported(Job)
         THEN StartNext(WriterOf[Job],
                        <<Frame("stopped", Job)>> \o Tail(todo))
         ELSE todo' = Tail(todo) /\ UNCHANGED queueVars
    /\ UNCHANGED <<processVars, engineVars, task, events, mode, queuing, asked, cancels,
                   everUnqueued, blocking, rendered>>

(* ProgressTaskInfo::onRenderEngineStopped() of the task this job is of *)
TaskStopped(j) ==
    LET ws == {w \in Writers : j \in task[w].jobs /\ Live(w)}
    IN /\ task' = [w \in Writers |-> IF w \in ws THEN [task[w] EXCEPT !.canceled = TRUE]
                                                 ELSE task[w]]
       /\ renderQueue' = WithoutFirstOf(renderQueue, ws)

StopTask ==
    /\ Doing("stopped")
    /\ TaskStopped(Job) /\ todo' = Tail(todo)
    /\ UNCHANGED <<processVars, activeRenders, engineVars, events, userVars, blocking,
                   rendered>>

(* The event loop: renderFinished() for AppInstance or for a task *)
OnQueuedRenderFinished ==
    /\ InEventLoop /\ events # <<>> /\ Head(events).to = "app"
    /\ StartNext(Head(events).writer, todo)
    /\ events' = Tail(events)
    /\ UNCHANGED <<processVars, engineVars, task, userVars, blocking, rendered>>

OnRenderEngineStopped ==
    /\ InEventLoop /\ events # <<>> /\ Head(events).to = "task"
    /\ TaskStopped(Head(events).job)
    /\ events' = Tail(events)
    /\ UNCHANGED <<processVars, activeRenders, engineVars, todo, userVars, blocking,
                   rendered>>

(* processFinished(): AppInstance starts the next render, then the task    *)
(* connected to this process is told.  The process AppInstance forgets is  *)
(* killed if no task holds it and it is another one.  What is left in the  *)
(* sockets no longer matters.                                              *)
Forgotten(j) == Range(activeRenders) \ ({j} \cup {task[w].job : w \in Writers})
OnBackgroundRenderProcessFinished(j) ==
    /\ InEventLoop /\ proc[j] \in {"over", "crashed"} /\ ~ended[j]
    /\ StartNext(WriterOf[j], <<Frame("stopped", j)>> \o todo)
    /\ ended' = Set(ended, j, TRUE)
    /\ proc' = [k \in Jobs |-> IF k \in Forgotten(j) \ Range(activeRenders')
                                 THEN "dead" ELSE proc[k]]
    /\ ForgetPipes(j)
    /\ rendered' = IF proc[j] = "over" /\ ~abortSeen[j] THEN rendered \cup {j} ELSE rendered
    /\ UNCHANGED <<engineVars, task, events, userVars, blocking>>

(* The process that is told of an early cancel tells the task again *)
OnSocket(j) ==
    /\ InEventLoop /\ SocketStep(j)
    /\ IF earlyCancel[j] /\ ~earlyCancel'[j] THEN TaskStopped(j)
                                             ELSE UNCHANGED <<task, renderQueue>>
    /\ UNCHANGED <<activeRenders, engineVars, events, todo, userVars, blocking, rendered>>

InBackground(j) ==
    /\ BackgroundStep(j) \/ ChannelStep(j)
    /\ UNCHANGED <<queueVars, engineVars, guiVars, userVars, blocking, rendered>>

MainStep ==
    \/ StartRendering \/ RenderFullSequence \/ StopTask
    \/ OnQueuedRenderFinished \/ OnRenderEngineStopped
    \/ \E j \in Jobs : OnBackgroundRenderProcessFinished(j) \/ OnSocket(j)
Answer == AcceptQuestion \/ RefuseQuestion

UserStep ==
    \/ \E j \in Jobs : RequestRender(<<j>>)
    \/ \E j, k \in Jobs : RequestRender(<<j, k>>)
    \/ \E w \in Writers, remove \in BOOLEAN : CancelTask(w, remove)
    \/ \E w \in Writers, j \in Jobs : RestartTask(w, j)
    \/ ChangeQueuing \/ BlockingMap
BlockingStep(j) == BlockingRender(j) \/ WaitNotRunning(j)

Work ==
    \/ MainStep \/ Answer \/ \E w \in Writers : EngineStep(w)
    \/ \E j \in Jobs : BlockingStep(j) \/ InBackground(j)

Next == UserStep \/ Work

Spec == Init /\ [][Next]_vars

(* Every thread and every process runs, and the user answers questions.    *)
(* No render here is endless, so it is enough that somebody goes on.       *)
FairSpec == Spec /\ WF_vars(Work)

-----------------------------------------------------------------------------
(* Properties *)

(* An active render whose end AppInstance is never told of *)
Wedged == \E j \in Range(activeRenders) :
              NeverReports(j) \/ (j \in ViewAware /\ j \in canceled)

(* "renders will be queued in the Progress Panel and will start only when  *)
(* all other prior renders are done", as long as they are queued.          *)
OneRenderAtATime ==
    ~everUnqueued /\ mode # "Blocking" =>
        /\ Cardinality({w \in Writers : engine[w] = "render"}) <= 1
        /\ Cardinality({j \in Jobs : proc[j] = "render"}) <= 1

(* A render that was requested and that nobody canceled waits in the queue,*)
(* is active, or has been rendered: pauses, restarts and the end of other  *)
(* renders take no other item out of the queue.                            *)
NoRequestLost ==
    mode # "Blocking" =>
        asked \ canceled \subseteq
            Range(renderQueue) \cup Range(activeRenders) \cup rendered
              \cup {todo[i].job : i \in DOMAIN todo}
              \cup {j \in Jobs : proc[j] = "crashed"}

(* "queue it and dequeue it in notifyRenderFinished()": what is requested  *)
(* of a writer is in the hands of its scheduler.                           *)
RequestHasTask ==
    \A w \in Writers : requests[w] # <<>> /\ engine[w] = "idle" => enqueued[w] # <<>>

(* The state of the queues is one the code may be in, renders run one at a *)
(* time, and each request has its task.                                    *)
QueueInv == TypeOK /\ OneRenderAtATime /\ RequestHasTask

(* The queue moves on: each render that ends starts the next one.          *)
QueueDrains == []<>(renderQueue = <<>> \/ Wedged)

(* "doesn't return before rendering is finished", and it does return, for  *)
(* each frame range of a writer, though their requests are serialised.     *)
BlockingRendersReturn == []<>(\A j \in Jobs : blocking[j] \in {"idle", "over"})

(* "if the user pressed cancel prior to the pipe being created, wait for   *)
(* it to be created and send the abort message right away": a process that *)
(* renders what the user canceled has the abort, or will get it, unless    *)
(* its channel took an abort before there was a render to quit.            *)
CancelIsOnItsWay ==
    \A j \in canceled :
        proc[j] \in {"start", "render"} =>
            \/ abortSeen[j] \/ aborts[j] > 0
            \/ earlyCancel[j] /\ (proc[j] = "start" \/ "RenderingStarted" \in Range(toGui[j]))
            \/ channel[j] = "over"
=============================================================================
