----------------------- MODULE GenericSchedulerThread -----------------------
(***************************************************************************)
(* Engine/GenericSchedulerThread: a worker thread with a queue of tasks    *)
(* that may be started, aborted and quit by several other threads.         *)
(*                                                                         *)
(* One step of the model is one critical section of the code (the thread   *)
(* and its clients release every mutex between two steps), or one read of  *)
(* QThread::isRunning().  threadLoopOnce() is abstracted to "working, and  *)
(* possibly polling resolveState() or calling back the main thread".       *)
(***************************************************************************)
EXTENDS Integers, Functions, Subsequences

CONSTANTS
    Callers,        \* the client threads
    MainThread,     \* the client that runs the Qt event loop
    Starters,       \* clients that call startTask()
    Aborters,       \* clients that call abortThreadedTask()
    AbortWaiters,   \* clients that call waitForAbortToComplete_*()
    Quitters,       \* clients that call quitThread()
    QuitWaiters,    \* clients that call waitForThreadToQuit_*()
    EnforceBlocking,\* clients that use the *_enforce_blocking() variants
    Tasks,          \* the ThreadStartArgs that clients post, each at most once
    Skippable,      \* the tasks for which isSkippable() is true
    Behaviour,      \* tasksQueueBehaviour() of the subclass
    UsesMainThread, \* threadLoopOnce() calls requestExecutionOnMainThread()
    AllowRestarts,  \* the arguments quitThread() is called with
    MaxAborts,      \* bound: calls to abortThreadedTask() made by clients
    MaxQuits        \* bound: calls to quitThread() that pass isRunning()

CONSTANTS Stub, NoTask  \* GenericThreadStartArgs(true), and a null pointer

ASSUME CallersAssumption ==
    /\ MainThread \in Callers
    /\ Starters \cup Aborters \cup AbortWaiters \cup Quitters \cup QuitWaiters
         \cup EnforceBlocking \subseteq Callers
ASSUME TasksAssumption ==
    /\ Stub \notin Tasks /\ NoTask \notin Tasks /\ Stub # NoTask
    /\ Skippable \subseteq Tasks
ASSUME ParametersAssumption ==
    /\ Behaviour \in {"ProcessInOrder", "SkipToMostRecent"}
    /\ UsesMainThread \in BOOLEAN
    /\ AllowRestarts \subseteq BOOLEAN
    /\ MaxAborts \in Nat /\ MaxQuits \in Nat

VARIABLES
    mustQuit, startingThreadAllowed, lastQuitThreadAllowedRestart,
    startRequests, abortRequested, threadState,
    enqueuedTasks, queuedTaskWhileProcessingAbort,
    executingOnMainThread,
    running,        \* QThread::isRunning()
    pc,             \* where run() is
    args, state,    \* the locals of run()
    polling,        \* resolveState() was called by threadLoopOnce()
    cpc,            \* where each client is in its call
    local,          \* the locals of that call
    posted,         \* history: the tasks in the order startTask() queued them
    handled,        \* history: the tasks in the order threadLoopOnce() got them
    dropped,        \* history: the tasks removed from a queue unhandled
    abortMark,      \* history: Len(posted) when the pending abort was requested
    aborts, quits   \* calls made so far, for the bounds

quitVars  == <<mustQuit, startingThreadAllowed, lastQuitThreadAllowedRestart>>
queueVars == <<enqueuedTasks, queuedTaskWhileProcessingAbort, posted, dropped>>
threadVars == <<threadState, executingOnMainThread, running, pc, args, state,
                polling, handled>>
abortVars == <<abortRequested, abortMark>>
callVars  == <<cpc, local>>
boundVars == <<aborts, quits>>
vars == <<quitVars, startRequests, abortVars, queueVars, threadVars, callVars,
          boundVars>>

(* enum ThreadStateEnum, with the values C++ gives its enumerators *)
ThreadStateEnum == [Stopped |-> 0, Idle |-> 1, Aborted |-> 2, Active |-> 3]
ThreadStates == DOMAIN ThreadStateEnum

RunLabels == {"off", "pick", "activate", "work", "mainwait", "resolveQuit",
              "resolveAbort", "publish", "stop", "finish", "reset", "sleep"}
CallLabels == {"idle",
               "start_enqueue", "start_running", "start_thread", "start_wake",
               "abort_running", "abort_state", "abort_request",
               "quit_gate", "quit_state", "quit_clear", "quit_wake",
               "quitwait_state", "quitwait_flag", "quitwait_join",
               "abortwait_state"}

Locals == [keepOldestRender : BOOLEAN, shouldRequestAbort : BOOLEAN,
           inQuit : BOOLEAN, allowRestarts : BOOLEAN]
NoLocals == [keepOldestRender |-> TRUE, shouldRequestAbort |-> FALSE,
             inQuit |-> FALSE, allowRestarts |-> TRUE]

FlagsOK ==
    /\ mustQuit \in BOOLEAN /\ startingThreadAllowed \in BOOLEAN
    /\ lastQuitThreadAllowedRestart \in BOOLEAN
    /\ startRequests \in Nat /\ abortRequested \in Nat /\ abortMark \in Nat
    /\ aborts \in 0..MaxAborts /\ quits \in Nat
QueuesOK ==
    /\ enqueuedTasks \in Seq(Tasks \cup {Stub})
    /\ queuedTaskWhileProcessingAbort \in Seq(Tasks)
    /\ posted \in Seq(Tasks) /\ handled \in Seq(Tasks)
    /\ dropped \subseteq Tasks /\ args \in Tasks \cup {Stub, NoTask}
RunOK ==
    /\ threadState \in ThreadStates /\ state \in ThreadStates
    /\ executingOnMainThread \in BOOLEAN /\ running \in BOOLEAN
    /\ polling \in BOOLEAN /\ pc \in RunLabels
CallsOK ==
    /\ cpc \in [Callers -> CallLabels] /\ local \in [Callers -> Locals]

TypeOK == FlagsOK /\ QueuesOK /\ RunOK /\ CallsOK

Init ==
    /\ mustQuit = FALSE /\ startingThreadAllowed = TRUE
    /\ lastQuitThreadAllowedRestart = TRUE
    /\ startRequests = 0 /\ abortRequested = 0 /\ abortMark = 0
    /\ threadState = "Stopped" /\ state = "Stopped"
    /\ enqueuedTasks = <<>> /\ queuedTaskWhileProcessingAbort = <<>>
    /\ executingOnMainThread = FALSE /\ running = FALSE
    /\ pc = "off" /\ args = NoTask /\ polling = FALSE
    /\ cpc = [c \in Callers |-> "idle"] /\ local = [c \in Callers |-> NoLocals]
    /\ posted = <<>> /\ handled = <<>> /\ dropped = {}
    /\ aborts = 0 /\ quits = 0

-----------------------------------------------------------------------------
(* run() *)

GoTo(l) == pc' = l

(* The queue after SkipToMostRecent took its last task: what cannot be     *)
(* skipped stays (the stub of quitThread() is skippable by default).       *)
Unskippable_None(q) == <<>>
Unskippable(q) == Filter(q, Tasks \ Skippable)

PickInOrder_Newest ==
    /\ Behaviour = "ProcessInOrder" /\ enqueuedTasks # <<>>
    /\ args' = enqueuedTasks[Len(enqueuedTasks)]
    /\ enqueuedTasks' = SubSeq(enqueuedTasks, 1, Len(enqueuedTasks) - 1)
    /\ UNCHANGED dropped
PickInOrder ==
    /\ Behaviour = "ProcessInOrder" /\ enqueuedTasks # <<>>
    /\ args' = Head(enqueuedTasks)
    /\ enqueuedTasks' = Tail(enqueuedTasks)
    /\ UNCHANGED dropped

PickMostRecent ==
    /\ Behaviour = "SkipToMostRecent" /\ enqueuedTasks # <<>>
    /\ LET last == Len(enqueuedTasks)
           older == SubSeq(enqueuedTasks, 1, last - 1)
       IN  /\ args' = enqueuedTasks[last]
           /\ enqueuedTasks' = Unskippable(older)
           /\ dropped' = dropped \cup (Tasks \cap (Range(older) \ Range(Unskippable(older))))

PickNothing ==
    /\ enqueuedTasks = <<>>
    /\ args' = NoTask
    /\ UNCHANGED <<enqueuedTasks, dropped>>

PickTask ==
    /\ pc = "pick"
    /\ PickInOrder \/ PickMostRecent \/ PickNothing
    /\ GoTo("activate")
    /\ UNCHANGED <<quitVars, startRequests, abortVars, posted,
                   queuedTaskWhileProcessingAbort, threadState, running, state,
                   executingOnMainThread, polling, handled, callVars, boundVars>>

(* setThreadState(eThreadStateActive), then threadLoopOnce() on a real task *)
Activate ==
    /\ pc = "activate"
    /\ threadState' = "Active" /\ state' = "Active"
    /\ IF args \in Tasks
         THEN GoTo("work") /\ handled' = Append(handled, args)
         ELSE GoTo("resolveQuit") /\ UNCHANGED handled
    /\ UNCHANGED <<quitVars, startRequests, abortVars, queueVars, running, args,
                   executingOnMainThread, polling, callVars, boundVars>>

(* threadLoopOnce() asks whether it should give up... *)
Poll ==
    /\ pc = "work"
    /\ polling' = TRUE /\ GoTo("resolveQuit")
    /\ UNCHANGED <<quitVars, startRequests, abortVars, queueVars, threadState,
                   executingOnMainThread, running, args, state, handled,
                   callVars, boundVars>>

(* ...or ends by itself with eThreadStateActive *)
LoopOnceReturns ==
    /\ pc = "work"
    /\ GoTo("resolveQuit")
    /\ UNCHANGED <<quitVars, startRequests, abortVars, queueVars, threadState,
                   executingOnMainThread, running, args, state, polling,
                   handled, callVars, boundVars>>

RequestExecutionOnMainThread ==
    /\ UsesMainThread /\ pc = "work"
    /\ executingOnMainThread' = TRUE /\ GoTo("mainwait")
    /\ UNCHANGED <<quitVars, startRequests, abortVars, queueVars, threadState,
                   running, args, state, polling, handled, callVars, boundVars>>

MainThreadAnswered_Always == TRUE
MainThreadAnswered == ~executingOnMainThread

MainThreadExecuted ==
    /\ pc = "mainwait" /\ MainThreadAnswered
    /\ GoTo("work")
    /\ UNCHANGED <<quitVars, startRequests, abortVars, queueVars, threadState,
                   executingOnMainThread, running, args, state, polling,
                   handled, callVars, boundVars>>

(* The two critical sections of resolveState() *)
AllowedAfterQuit_Always == TRUE
AllowedAfterQuit == lastQuitThreadAllowedRestart

ResolveQuit ==
    /\ pc = "resolveQuit"
    /\ IF mustQuit
         THEN /\ mustQuit' = FALSE
              /\ startingThreadAllowed' = AllowedAfterQuit
              /\ state' = "Stopped"
         ELSE /\ state' = "Active"
              /\ UNCHANGED <<mustQuit, startingThreadAllowed>>
    /\ GoTo("resolveAbort")
    /\ UNCHANGED <<lastQuitThreadAllowedRestart, startRequests, abortVars,
                   queueVars, threadState, executingOnMainThread, running, args,
                   polling, handled, callVars, boundVars>>

ResolveAbort ==
    /\ pc = "resolveAbort"
    /\ state' = IF state = "Active" /\ abortRequested > 0
                  THEN "Aborted" ELSE state
    /\ IF polling /\ state' = "Active" THEN GoTo("work") ELSE GoTo("publish")
    /\ polling' = FALSE
    /\ UNCHANGED <<quitVars, startRequests, abortVars, queueVars, threadState,
                   executingOnMainThread, running, args, handled, callVars,
                   boundVars>>

PublishState ==
    /\ pc = "publish"
    /\ state' = IF state = "Active" THEN "Idle" ELSE state
    /\ threadState' = state'
    /\ GoTo(IF state = "Stopped" THEN "stop" ELSE "reset")
    /\ UNCHANGED <<quitVars, startRequests, abortVars, queueVars, running, args,
                   executingOnMainThread, polling, handled, callVars, boundVars>>

StopThread ==
    /\ pc = "stop"
    /\ mustQuit' = FALSE
    /\ GoTo("finish")
    /\ UNCHANGED <<startingThreadAllowed, lastQuitThreadAllowedRestart,
                   startRequests, abortVars, queueVars, threadState,
                   executingOnMainThread, running, args, state, polling,
                   handled, callVars, boundVars>>

(* run() returned: QThread reports that the thread does not run any more *)
FinishThread ==
    /\ pc = "finish"
    /\ running' = FALSE
    /\ GoTo("off")
    /\ UNCHANGED <<quitVars, startRequests, abortVars, queueVars, threadState,
                   executingOnMainThread, args, state, polling, handled,
                   callVars, boundVars>>

(* What an aborted loop does to the queues: in order, the tasks posted     *)
(* before the abort are lost; then come the tasks posted during the abort. *)
KeptAfterAbort(q) == IF Behaviour = "ProcessInOrder" THEN <<>> ELSE q

MergeQueues_NoClear ==
    /\ enqueuedTasks' = KeptAfterAbort(enqueuedTasks)
                           \o queuedTaskWhileProcessingAbort
    /\ UNCHANGED queuedTaskWhileProcessingAbort
MergeQueues ==
    /\ enqueuedTasks' = KeptAfterAbort(enqueuedTasks)
                           \o queuedTaskWhileProcessingAbort
    /\ queuedTaskWhileProcessingAbort' = <<>>

AbortsLeft_CountDown == abortRequested - 1
AbortsLeft == 0

ResetAbort ==
    /\ pc = "reset"
    /\ IF state = "Aborted"
         THEN /\ MergeQueues
              /\ dropped' = dropped \cup
                   {t \in Range(enqueuedTasks) \cap Tasks :
                        t \notin Range(KeptAfterAbort(enqueuedTasks))}
         ELSE UNCHANGED <<enqueuedTasks, queuedTaskWhileProcessingAbort, dropped>>
    /\ abortRequested' = AbortsLeft
    /\ GoTo("sleep")
    /\ UNCHANGED <<quitVars, startRequests, abortMark, posted, threadState,
                   executingOnMainThread, running, args, state, polling,
                   handled, callVars, boundVars>>

RequestsLeft == startRequests - 1

TakeStartRequest ==
    /\ pc = "sleep" /\ startRequests > 0
    /\ startRequests' = RequestsLeft
    /\ GoTo("pick")
    /\ UNCHANGED <<quitVars, abortVars, queueVars, threadState, running, args,
                   executingOnMainThread, state, polling, handled, callVars,
                   boundVars>>

RunStep ==
    \/ PickTask \/ Activate \/ Poll \/ LoopOnceReturns
    \/ RequestExecutionOnMainThread \/ MainThreadExecuted
    \/ ResolveQuit \/ ResolveAbort \/ PublishState
    \/ StopThread \/ FinishThread \/ ResetAbort \/ TakeStartRequest

(* onExecutionOnMainThreadReceived(): the event loop of the main thread    *)
(* runs it, so never while the main thread is inside a call.               *)
ExecuteOnMainThread ==
    /\ executingOnMainThread /\ cpc[MainThread] = "idle"
    /\ executingOnMainThread' = FALSE
    /\ UNCHANGED <<quitVars, startRequests, abortVars, queueVars, threadState,
                   running, pc, args, state, polling, handled, callVars,
                   boundVars>>

-----------------------------------------------------------------------------
(* startTask() *)

At(c, l) == cpc[c] = l
Move(c, l) == cpc' = [cpc EXCEPT ![c] = l]
Return(c) == /\ cpc' = [cpc EXCEPT ![c] = "idle"]
             /\ local' = [local EXCEPT ![c] = NoLocals]

AbortPending_Ignored == FALSE
AbortPending == abortRequested > 0

MoreRequests_Flag == 1
MoreRequests == startRequests + 1

(* Bound: as many clients are past the gate as there are tasks left.       *)
PastGate == {c \in Callers : At(c, "start_enqueue")}

StartGate(c) ==
    /\ c \in Starters /\ At(c, "idle")
    /\ Cardinality(PastGate) < Cardinality(Tasks \ Range(posted))
    /\ startingThreadAllowed /\ ~mustQuit
    /\ Move(c, "start_enqueue")
    /\ UNCHANGED <<quitVars, startRequests, abortVars, queueVars, threadVars,
                   local, boundVars>>

Enqueue(c) ==
    /\ At(c, "start_enqueue")
    /\ \E t \in Tasks \ Range(posted) :
         /\ posted' = Append(posted, t)
         /\ IF AbortPending
              THEN /\ queuedTaskWhileProcessingAbort' =
                         Append(queuedTaskWhileProcessingAbort, t)
                   /\ UNCHANGED enqueuedTasks
              ELSE /\ enqueuedTasks' = Append(enqueuedTasks, t)
                   /\ UNCHANGED queuedTaskWhileProcessingAbort
    /\ Move(c, "start_running")
    /\ UNCHANGED <<quitVars, startRequests, abortVars, dropped, threadVars,
                   local, boundVars>>

StartReadRunning(c) ==
    /\ At(c, "start_running")
    /\ Move(c, IF running THEN "start_wake" ELSE "start_thread")
    /\ UNCHANGED <<quitVars, startRequests, abortVars, queueVars, threadVars,
                   local, boundVars>>

(* QThread::start() does nothing when the thread runs already *)
StartThread(c) ==
    /\ At(c, "start_thread")
    /\ running' = TRUE
    /\ pc' = IF running THEN pc ELSE "pick"
    /\ Return(c)
    /\ UNCHANGED <<quitVars, startRequests, abortVars, queueVars, threadState,
                   executingOnMainThread, args, state, polling, handled,
                   boundVars>>

PostStartRequest(c) ==
    /\ At(c, "start_wake")
    /\ startRequests' = MoreRequests
    /\ Return(c)
    /\ UNCHANGED <<quitVars, abortVars, queueVars, threadVars, boundVars>>

-----------------------------------------------------------------------------
(* abortThreadedTask() *)

CallAbort(c) ==
    /\ c \in Aborters /\ At(c, "idle") /\ aborts < MaxAborts
    /\ aborts' = aborts + 1
    /\ Move(c, "abort_running")
    /\ \E keep \in BOOLEAN :
         local' = [local EXCEPT ![c] = [NoLocals EXCEPT !.keepOldestRender = keep]]
    /\ UNCHANGED <<quitVars, startRequests, abortVars, queueVars, threadVars,
                   quits>>

(* abortThreadedTask() returns to its caller, or to quitThread() *)
AbortReturns(c) == IF local[c].inQuit THEN Move(c, "quit_clear")
                                           /\ UNCHANGED local
                                      ELSE Return(c)

AbortReadRunning(c) ==
    /\ At(c, "abort_running")
    /\ IF running THEN Move(c, "abort_state") /\ UNCHANGED local
                  ELSE AbortReturns(c)
    /\ UNCHANGED <<quitVars, startRequests, abortVars, queueVars, threadVars,
                   boundVars>>

AbortReadState(c) ==
    /\ At(c, "abort_state")
    /\ LET should == threadState \notin {"Aborted", "Idle"}
       IN  IF local[c].keepOldestRender /\ ~should
             THEN AbortReturns(c)
             ELSE /\ Move(c, "abort_request")
                  /\ local' = [local EXCEPT ![c].shouldRequestAbort = should]
    /\ UNCHANGED <<quitVars, startRequests, abortVars, queueVars, threadVars,
                   boundVars>>

AbortRequest(c) ==
    /\ At(c, "abort_request")
    /\ IF local[c].shouldRequestAbort
             /\ (abortRequested = 0 \/ ~local[c].keepOldestRender)
         THEN /\ abortRequested' = abortRequested + 1
              /\ abortMark' = IF abortRequested = 0 THEN Len(posted) ELSE abortMark
         ELSE UNCHANGED abortVars
    /\ AbortReturns(c)
    /\ UNCHANGED <<quitVars, startRequests, queueVars, threadVars, boundVars>>

-----------------------------------------------------------------------------
(* quitThread() *)

CallQuit(c) ==
    /\ c \in Quitters /\ At(c, "idle") /\ quits < MaxQuits
    /\ running
    /\ quits' = quits + 1
    /\ Move(c, "quit_gate")
    /\ \E allow \in AllowRestarts :
         local' = [local EXCEPT ![c] = [NoLocals EXCEPT !.allowRestarts = allow,
                                                        !.inQuit = TRUE]]
    /\ UNCHANGED <<quitVars, startRequests, abortVars, queueVars, threadVars,
                   aborts>>

QuitGate(c) ==
    /\ At(c, "quit_gate")
    /\ IF mustQuit \/ ~lastQuitThreadAllowedRestart
         THEN Return(c) /\ UNCHANGED quitVars
         ELSE /\ mustQuit' = TRUE
              /\ startingThreadAllowed' = FALSE
              /\ lastQuitThreadAllowedRestart' = local[c].allowRestarts
              /\ Move(c, "quit_state") /\ UNCHANGED local
    /\ UNCHANGED <<startRequests, abortVars, queueVars, threadVars, boundVars>>

QuitReadState(c) ==
    /\ At(c, "quit_state")
    /\ Move(c, IF threadState = "Active" THEN "abort_running" ELSE "quit_clear")
    /\ UNCHANGED <<quitVars, startRequests, abortVars, queueVars, threadVars,
                   local, boundVars>>

QuitClear(c) ==
    /\ At(c, "quit_clear")
    /\ enqueuedTasks' = <<Stub>>
    /\ dropped' = dropped \cup (Range(enqueuedTasks) \cap Tasks)
    /\ Move(c, "quit_wake")
    /\ UNCHANGED <<quitVars, startRequests, abortVars, posted, threadVars, local,
                   queuedTaskWhileProcessingAbort, boundVars>>

QuitWake(c) ==
    /\ At(c, "quit_wake")
    /\ startRequests' = MoreRequests
    /\ Return(c)
    /\ UNCHANGED <<quitVars, abortVars, queueVars, threadVars, boundVars>>

-----------------------------------------------------------------------------
(* waitForThreadToQuit_*() and waitForAbortToComplete_*() *)

MayBlock_Always(c) == TRUE
MayBlock(c) == c # MainThread \/ c \in EnforceBlocking

CallQuitWait(c) ==
    /\ c \in QuitWaiters /\ At(c, "idle") /\ running
    /\ Move(c, "quitwait_state")
    /\ UNCHANGED <<quitVars, startRequests, abortVars, queueVars, threadVars,
                   local, boundVars>>

QuitWaitReadState(c) ==
    /\ At(c, "quitwait_state")
    /\ IF threadState = "Stopped" \/ ~MayBlock(c)
         THEN Return(c) ELSE Move(c, "quitwait_flag") /\ UNCHANGED local
    /\ UNCHANGED <<quitVars, startRequests, abortVars, queueVars, threadVars,
                   boundVars>>

QuitWaitFlag(c) ==
    /\ At(c, "quitwait_flag") /\ ~mustQuit
    /\ Move(c, "quitwait_join")
    /\ UNCHANGED <<quitVars, startRequests, abortVars, queueVars, threadVars,
                   local, boundVars>>

(* QThread::wait() *)
QuitWaitJoin(c) ==
    /\ At(c, "quitwait_join") /\ ~running
    /\ Return(c)
    /\ UNCHANGED <<quitVars, startRequests, abortVars, queueVars, threadVars,
                   boundVars>>

CallAbortWait(c) ==
    /\ c \in AbortWaiters /\ At(c, "idle") /\ running
    /\ Move(c, "abortwait_state")
    /\ UNCHANGED <<quitVars, startRequests, abortVars, queueVars, threadVars,
                   local, boundVars>>

(* `(state == eThreadStateAborted) || GenericSchedulerThread::eThreadStateIdle`: *)
(* the right operand is an enumerator, converted to bool.                  *)
NothingToWaitFor(st) == st = "Aborted" \/ ThreadStateEnum["Idle"] # 0

(* So the rest of the function, which waits for abortRequested to fall, is *)
(* never reached.                                                          *)
AbortWaitReadState(c) ==
    /\ At(c, "abortwait_state")
    /\ NothingToWaitFor(threadState)
    /\ Return(c)
    /\ UNCHANGED <<quitVars, startRequests, abortVars, queueVars, threadVars,
                   boundVars>>

-----------------------------------------------------------------------------
(* A client begins a call, or makes the next step of the call it is in.    *)
BeginCall(c) ==
    \/ StartGate(c) \/ CallAbort(c) \/ CallQuit(c)
    \/ CallQuitWait(c) \/ CallAbortWait(c)

CallStep(c) ==
    \/ Enqueue(c) \/ StartReadRunning(c) \/ StartThread(c) \/ PostStartRequest(c)
    \/ AbortReadRunning(c) \/ AbortReadState(c) \/ AbortRequest(c)
    \/ QuitGate(c) \/ QuitReadState(c) \/ QuitClear(c) \/ QuitWake(c)
    \/ QuitWaitReadState(c) \/ QuitWaitFlag(c) \/ QuitWaitJoin(c)
    \/ AbortWaitReadState(c)

Next ==
    \/ RunStep
    \/ ExecuteOnMainThread
    \/ \E c \in Callers : BeginCall(c) \/ CallStep(c)

Spec == Init /\ [][Next]_vars

(* The OS runs every thread; threadLoopOnce() terminates; the event loop    *)
(* of the main thread serves its queue between two calls.  Nobody has to   *)
(* begin a call.                                                           *)
Fairness ==
    /\ WF_vars(RunStep) /\ SF_vars(LoopOnceReturns)
    /\ SF_vars(ExecuteOnMainThread)
    /\ \A c \in Callers : WF_vars(CallStep(c))

FairSpec == Spec /\ Fairness

-----------------------------------------------------------------------------
(* Properties *)

(* Where a task that startTask() took may be *)
Queued   == (Range(enqueuedTasks) \cup Range(queuedTaskWhileProcessingAbort))
              \cap Tasks
PickedUp == IF pc = "activate" THEN {args} \cap Tasks ELSE {}

Asleep == pc = "sleep" /\ startRequests = 0
NoCallInProgress == \A c \in Callers : cpc[c] = "idle"

PostedBefore(t, u) == \E i, j \in DOMAIN posted :
                          i < j /\ posted[i] = t /\ posted[j] = u

(* threadLoopOnce() gets a task at most once, and no task it gets was      *)
(* dropped by an abort, a quit or a skip: however the two queues are moved,*)
(* a task is in one place only.                                            *)
EachTaskInOnePlace ==
    /\ \A i, j \in DOMAIN handled : handled[i] = handled[j] => i = j
    /\ Range(handled) \cap dropped = {}
    /\ (Queued \cup PickedUp) \cap (Range(handled) \cup dropped) = {}

(* The inductive form of EachTaskInOnePlace: no task is twice in a queue   *)
(* or in both queues, the task just taken is in neither, and only posted   *)
(* tasks are anywhere.                                                     *)
QueuesAreDisjoint ==
    /\ \A i, j \in DOMAIN enqueuedTasks :
         enqueuedTasks[i] \in Tasks /\ enqueuedTasks[i] = enqueuedTasks[j] => i = j
    /\ \A i, j \in DOMAIN queuedTaskWhileProcessingAbort :
         queuedTaskWhileProcessingAbort[i] = queuedTaskWhileProcessingAbort[j] => i = j
    /\ Range(enqueuedTasks) \cap Range(queuedTaskWhileProcessingAbort) = {}
    /\ PickedUp \cap Queued = {}
    /\ Queued \cup PickedUp \cup Range(handled) \cup dropped \subseteq Range(posted)
PlacementInv == EachTaskInOnePlace /\ QueuesAreDisjoint

(* startTask() "requests the thread to execute the given task": when the   *)
(* thread sleeps for good and every call has returned, no accepted task is *)
(* left in a queue.                                                        *)
NoTaskLeftBehind == Asleep /\ NoCallInProgress => Queued = {}

(* The accounting NoTaskLeftBehind follows from: a start request, or a     *)
(* client that is about to make one, exists for each queued task.          *)
Starting == {c \in Callers :
               cpc[c] \in {"start_running", "start_thread", "start_wake"}}
WakeupsCoverTasks ==
    Len(enqueuedTasks) <= startRequests + Cardinality(Starting)
                            + (IF pc = "pick" THEN 1 ELSE 0)

(* A client sees a task service: each task startTask() took is started     *)
(* once or given up, whatever happens to the two queues, and in the order  *)
(* of startTask() as long as nobody aborts or quits the thread.            *)
Service == INSTANCE TaskService WITH
             accepted <- posted, started <- handled, lost <- dropped,
             Ordered  <- /\ Behaviour = "ProcessInOrder"
                         /\ Aborters = {} /\ Quitters = {}
ImplementsService == Service!Spec

(* And a service that lets no task wait, as long as nobody aborts or quits *)
(* the thread and one client starts its tasks.                             *)
ImplementsFairService == Service!FairSpec

(* eTaskQueueBehaviorSkipToMostRecent: a task that may not be skipped is   *)
(* not discarded, and what is discarded is older than the task taken.      *)
SkipsOnlyOutdated ==
    [][pc = "pick" /\ pc' = "activate" =>
         \A t \in dropped' \ dropped :
             t \in Skippable /\ PostedBefore(t, args')]_vars

(* run(): an aborted loop clears the "task that were requested prior to    *)
(* the abort", never one posted since.                                     *)
AbortDropsOnlyOlderTasks ==
    [][pc = "reset" /\ pc' = "sleep" =>
         \A t \in dropped' \ dropped :
             \E i \in 1..abortMark : posted[i] = t]_vars

(* An abort requested while the thread is active is processed: the flag    *)
(* that isBeingAborted() reports falls.                                    *)
ActiveAbortProcessed ==
    (abortRequested > 0 /\ threadState = "Active" /\ running) ~> (abortRequested = 0)

(* A quit request stops the thread, whatever it does, and although it may  *)
(* call back a main thread that waits for it.                              *)
QuitStopsThread == mustQuit ~> ~running

(* quitThread(false): "this object will no longer be usable".  Once the    *)
(* thread saw the request it takes no task any more.                       *)
FinalQuitIsFinal ==
    ~lastQuitThreadAllowedRestart /\ ~mustQuit =>
        pc \in {"resolveAbort", "publish", "stop", "finish", "off"}

(* quitThread(true): "this object may be used again".                      *)
RestartAllowedAfterQuit ==
    ~running /\ NoCallInProgress /\ lastQuitThreadAllowedRestart
      => startingThreadAllowed

(* What the last quitThread() asked for is what the thread does.           *)
QuitIsRemembered == FinalQuitIsFinal /\ RestartAllowedAfterQuit

(* requestExecutionOnMainThread() asserts that the thread is active, that  *)
(* it runs inside threadLoopOnce() and that no other request is pending.   *)
MainThreadCallbackIsSound ==
    executingOnMainThread => pc = "mainwait" /\ threadState = "Active"

-----------------------------------------------------------------------------
(* What the docs and comments of the code say and the code does not keep; *)
(* section 9 of the README gives the instances that show it.             *)

(* eTaskQueueBehaviorProcessInOrder: "The thread will process in order the *)
(* tasks enqueued by startTask", with aborts too.                          *)
HandledInOrder ==
    Behaviour = "ProcessInOrder" =>
      \A i, j \in DOMAIN handled : i < j => PostedBefore(handled[i], handled[j])

(* isBeingAborted(): "true if the thread is being aborted but it has not   *)
(* yet been processed", so not when it sleeps with nothing to process.     *)
AbortFlagFallsWhenAsleep == Asleep /\ NoCallInProgress => abortRequested = 0

(* waitForAbortToComplete_*(): "blocks the calling thread until the thread *)
(* state is now eThreadStateIdle"; it may return while the state is idle,  *)
(* aborted or stopped, never while the thread works on an aborted task.    *)
AbortWaitReturnsWhenDone ==
    [][\A c \in Callers \ {MainThread} :
         cpc[c] = "abortwait_state" /\ cpc'[c] = "idle"
           => threadState # "Active"]_vars

(* quitThread(): "Clear any task enqueued and push a fake request".  When  *)
(* it has done so no task is left in a queue, so none outlives the quit.   *)
QuitClearsQueues ==
    [][\A c \in Callers : cpc[c] = "quit_clear" /\ cpc'[c] = "quit_wake"
         => Queued' = {}]_vars

(* waitForThreadToQuit_*(): "blocks the calling thread until the thread    *)
(* [...] has finished execution".  Who waits for a requested quit returns. *)
QuitWaitersReturn ==
    \A c \in QuitWaiters : (cpc[c] = "quitwait_flag" /\ mustQuit) ~> (cpc[c] = "idle")
=============================================================================
