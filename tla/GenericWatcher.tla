--------------------------- MODULE GenericWatcher ---------------------------
(***************************************************************************)
(* Engine/GenericSchedulerThreadWatcher: a thread that performs blocking   *)
(* waits (abort or quit of another thread) on behalf of its owner, the     *)
(* main thread, and reports each with the signal taskFinished.             *)
(*                                                                         *)
(* The list of tasks is pushed by the owner and popped by the watcher; both *)
(* are split in two steps to show whether they may overlap.                *)
(***************************************************************************)
EXTENDS Integers, Sequences, FiniteSets, Functions

CONSTANTS
    Tasks,          \* the calls to scheduleBlockingTask(), made once each
    NeedsMain,      \* tasks whose wait ends only after the waited-for thread
                    \* got an answer to requestExecutionOnMainThread()
    MaxStops,       \* bound: calls to stopWatching()
    NoTask

ASSUME WatcherAssumption ==
    /\ NeedsMain \subseteq Tasks /\ NoTask \notin Tasks
    /\ MaxStops \in Nat

VARIABLES
    tasks, mustQuit, startRequests,
    running,    \* QThread::isRunning()
    pc,         \* where run() is
    taskID,     \* the local of run()
    oneAtATime, \* this owner schedules a task only when all are finished
    opc,        \* where the owner is
    current,    \* the task the owner is scheduling
    answered,   \* the main thread answered the thread being waited for
    scheduled,  \* history: tasks in the order they were scheduled
    finished,   \* history: tasks in the order taskFinished was emitted
    cleared,    \* history: tasks removed by stopWatching()
    stops       \* calls to stopWatching() so far, for the bound

watcherVars == <<running, pc, taskID, answered, finished>>
ownerVars   == <<opc, current, scheduled, cleared, stops>>
vars == <<tasks, mustQuit, startRequests, watcherVars, ownerVars, oneAtATime>>

RunLabels   == {"off", "top", "pick", "popping", "handle", "emit", "sleep",
                "returned"}
OwnerLabels == {"idle", "lock", "push", "pushing", "running", "wake",
                "stop_clear", "stop_flag", "stop_wait", "stop_join"}

TypeOK ==
    /\ tasks \in Seq(Tasks) /\ scheduled \in Seq(Tasks) /\ finished \in Seq(Tasks)
    /\ cleared \subseteq Tasks
    /\ mustQuit \in BOOLEAN /\ running \in BOOLEAN /\ answered \in BOOLEAN
    /\ oneAtATime \in BOOLEAN
    /\ startRequests \in 0..(MaxStops + 1) /\ stops \in 0..MaxStops
    /\ pc \in RunLabels /\ opc \in OwnerLabels
    /\ taskID \in Tasks \cup {NoTask} /\ current \in Tasks \cup {NoTask}

Init ==
    /\ tasks = <<>> /\ scheduled = <<>> /\ finished = <<>> /\ cleared = {}
    /\ mustQuit = FALSE /\ running = FALSE /\ answered = FALSE
    /\ startRequests = 0 /\ stops = 0 /\ oneAtATime \in BOOLEAN
    /\ pc = "off" /\ opc = "idle" /\ taskID = NoTask /\ current = NoTask

-----------------------------------------------------------------------------
(* run() *)

TopOfLoop ==
    /\ pc = "top"
    /\ IF mustQuit
         THEN mustQuit' = FALSE /\ pc' = "returned"
         ELSE pc' = "pick" /\ UNCHANGED mustQuit
    /\ UNCHANGED <<tasks, startRequests, running, taskID, answered, finished,
                   ownerVars>>

Front_Newest == tasks[Len(tasks)]
Front == Head(tasks)

(* The watcher holds tasksMutex from here to the end of PopTask *)
LookAtFront ==
    /\ pc = "pick"
    /\ IF tasks = <<>> THEN taskID' = NoTask /\ pc' = "sleep"
                       ELSE taskID' = Front /\ pc' = "popping"
    /\ UNCHANGED <<tasks, mustQuit, startRequests, running, answered, finished,
                   ownerVars>>

PopTask ==
    /\ pc = "popping"
    /\ tasks' = Tail(tasks) /\ pc' = "handle"
    /\ answered' = FALSE
    /\ UNCHANGED <<mustQuit, startRequests, running, taskID, finished, ownerVars>>

(* The event loop of the main thread answers the thread being waited for *)
AnswerOnMainThread ==
    /\ pc = "handle" /\ opc = "idle" /\ taskID \in NeedsMain
    /\ answered' = TRUE
    /\ UNCHANGED <<tasks, mustQuit, startRequests, running, pc, taskID, finished,
                   ownerVars, oneAtATime>>

HandleBlockingTask ==
    /\ pc = "handle" /\ (taskID \in NeedsMain => answered)
    /\ pc' = "emit"
    /\ UNCHANGED <<tasks, mustQuit, startRequests, running, taskID, answered,
                   finished, ownerVars>>

EmitTaskFinished ==
    /\ pc = "emit"
    /\ finished' = Append(finished, taskID) /\ pc' = "sleep"
    /\ UNCHANGED <<tasks, mustQuit, startRequests, running, taskID, answered,
                   ownerVars>>

(* "We got the request, reset it back to 0" *)
RequestsLeft == 0

TakeStartRequest ==
    /\ pc = "sleep" /\ startRequests > 0
    /\ startRequests' = RequestsLeft /\ pc' = "top"
    /\ UNCHANGED <<tasks, mustQuit, running, taskID, answered, finished, ownerVars>>

Finish ==
    /\ pc = "returned"
    /\ running' = FALSE /\ pc' = "off"
    /\ UNCHANGED <<tasks, mustQuit, startRequests, taskID, answered, finished,
                   ownerVars>>

RunStep ==
    /\ \/ TopOfLoop \/ LookAtFront \/ PopTask \/ HandleBlockingTask
       \/ EmitTaskFinished \/ TakeStartRequest \/ Finish
    /\ UNCHANGED oneAtATime

-----------------------------------------------------------------------------
(* scheduleBlockingTask() *)

AllFinished == Range(scheduled) \subseteq Range(finished) \cup cleared

Schedule(t) ==
    /\ opc = "idle" /\ t \in Tasks \ Range(scheduled)
    /\ oneAtATime => AllFinished
    /\ ~mustQuit
    /\ current' = t /\ opc' = "lock"
    /\ UNCHANGED <<tasks, mustQuit, startRequests, watcherVars, scheduled,
                   cleared, stops, oneAtATime>>

(* `QMutexLocker(&_imp->tasksMutex);` creates a temporary: the mutex is    *)
(* taken and released before the list is touched.                          *)
LockAndUnlock ==
    /\ opc = "lock" /\ pc # "popping"
    /\ opc' = "push"
    /\ UNCHANGED <<tasks, mustQuit, startRequests, watcherVars, current,
                   scheduled, cleared, stops>>

BeginPush ==
    /\ opc = "push" /\ opc' = "pushing"
    /\ UNCHANGED <<tasks, mustQuit, startRequests, watcherVars, current,
                   scheduled, cleared, stops>>

PushTask ==
    /\ opc = "pushing"
    /\ tasks' = Append(tasks, current) /\ scheduled' = Append(scheduled, current)
    /\ opc' = "running"
    /\ UNCHANGED <<mustQuit, startRequests, watcherVars, current, cleared, stops>>

StartOrWake ==
    /\ opc = "running"
    /\ IF ~running
         THEN running' = TRUE /\ pc' = "top" /\ opc' = "idle"
         ELSE opc' = "wake" /\ UNCHANGED <<running, pc>>
    /\ UNCHANGED <<tasks, mustQuit, startRequests, taskID, answered, finished,
                   current, scheduled, cleared, stops>>

MoreRequests_Lost == startRequests
MoreRequests == IF startRequests <= 0 THEN startRequests + 1 ELSE startRequests

PostStartRequest ==
    /\ opc = "wake"
    /\ startRequests' = MoreRequests
    /\ opc' = "idle"
    /\ UNCHANGED <<tasks, mustQuit, watcherVars, current, scheduled, cleared,
                   stops>>

-----------------------------------------------------------------------------
(* stopWatching(), called by the destructor: also when the owner replaces   *)
(* the watcher (blockingOperationWatcher.reset) by another one.            *)

StopWatching ==
    /\ opc = "idle" /\ stops < MaxStops /\ running
    /\ stops' = stops + 1 /\ opc' = "stop_clear"
    /\ UNCHANGED <<tasks, mustQuit, startRequests, watcherVars, current,
                   scheduled, cleared, oneAtATime>>

StopClear ==
    /\ opc = "stop_clear" /\ pc # "popping"
    /\ cleared' = cleared \cup Range(tasks) /\ tasks' = <<>>
    /\ opc' = "stop_flag"
    /\ UNCHANGED <<mustQuit, startRequests, watcherVars, current, scheduled, stops>>

StubRequests_None == startRequests
StubRequests == startRequests + 1

StopFlag ==
    /\ opc = "stop_flag"
    /\ mustQuit' = TRUE /\ startRequests' = StubRequests
    /\ opc' = "stop_wait"
    /\ UNCHANGED <<tasks, watcherVars, current, scheduled, cleared, stops>>

StopWait ==
    /\ opc = "stop_wait" /\ ~mustQuit
    /\ opc' = "stop_join"
    /\ UNCHANGED <<tasks, mustQuit, startRequests, watcherVars, current,
                   scheduled, cleared, stops>>

Joined == ~running

StopJoin ==
    /\ opc = "stop_join" /\ Joined
    /\ opc' = "idle"
    /\ UNCHANGED <<tasks, mustQuit, startRequests, watcherVars, current,
                   scheduled, cleared, stops>>

OwnerStep ==
    /\ \/ LockAndUnlock \/ BeginPush \/ PushTask \/ StartOrWake
       \/ PostStartRequest \/ StopClear \/ StopFlag \/ StopWait \/ StopJoin
    /\ UNCHANGED oneAtATime

Next == RunStep \/ AnswerOnMainThread \/ OwnerStep \/ StopWatching
          \/ \E t \in Tasks : Schedule(t)

(* Both threads run; the owner is the main thread, whose event loop serves *)
(* requests whenever it is not inside a call.                              *)
Spec == Init /\ [][Next]_vars /\ WF_vars(RunStep) /\ WF_vars(OwnerStep)
             /\ SF_vars(AnswerOnMainThread)

-----------------------------------------------------------------------------
(* Properties *)

(* taskFinished is emitted at most once per task, in the order the tasks   *)
(* were scheduled.                                                         *)
FinishedInOrder ==
    \A i, j \in DOMAIN finished : i < j =>
        \E k, l \in DOMAIN scheduled :
            k < l /\ scheduled[k] = finished[i] /\ scheduled[l] = finished[j]

(* The state of the watcher and of its owner is one the code may be in,    *)
(* and what it reports is in order.                                        *)
WatcherInv == TypeOK /\ FinishedInOrder

(* "the class is safely implemented to support multiple tasks": the        *)
(* watcher never sleeps on a scheduled task.                               *)
NoTaskForgotten ==
    pc = "sleep" /\ startRequests = 0 /\ opc = "idle" => tasks = <<>>

(* The owner waits, in stopWatching(), for a watcher that waits for the    *)
(* main thread, which is the owner.                                        *)
WaitForEachOther ==
    opc = "stop_wait" /\ pc = "handle" /\ taskID \in NeedsMain /\ ~answered

(* An owner that schedules one task at a time sees every one reported,     *)
(* or clears it by stopWatching(), unless both wait for each other.        *)
EveryTaskReported ==
    \A t \in Tasks :
        (oneAtATime /\ t \in Range(scheduled))
          ~> (t \in Range(finished) \cup cleared \/ WaitForEachOther)

(* stopWatching() returns, whatever the watcher is doing and however many  *)
(* tasks were scheduled, unless it waits for a task that needs the owner.  *)
StopReturns == (opc = "stop_wait") ~> (opc = "idle" \/ WaitForEachOther)
=============================================================================
