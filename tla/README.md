# A TLA+ model of Natron's engine

Natron is a node-based compositor. This directory holds a formal model of the
part of its engine (`src/Engine`) that is hard to test: the threads that
schedule renders, the queues and condition variables between them, what happens
when a render is aborted, restarted, or quits, the processes renders run in, and
the images and the cache they share. The modules are checked
with TLC on small instances; the theorems are checked with TLAPS for every value
of the constants.

## 1. The system

### 1.1 Components

| Component | State it keeps | Operations | Hard behaviours | What makes it correct |
|---|---|---|---|---|
| **GenericSchedulerThread** (base class of every worker with a task queue) | two task queues, counters of start requests and of aborts, the thread state, quit flags | `startTask`, `abortThreadedTask`, `quitThread`, the waits, `run`, `requestExecutionOnMainThread` | ten mutexes, each step under one or two of them; an abort or a quit may fall between any two steps | every accepted task is performed, in the order of the policy; an abort drops only older tasks; a quit ends the thread and leaves it restartable; waiters return when and only when what they wait for has happened |
| **GenericSchedulerThreadWatcher** (performs the blocking waits for the main thread) | a task list, start requests, a quit flag | `scheduleBlockingTask`, `run`, `stopWatching` | its owner is the main thread, which the wait may need | each wait is performed and reported, in order; destruction returns |
| **OutputSchedulerThread** (renders a range of frames; `DefaultScheduler` for writers, `ViewerDisplayScheduler` for viewers) | the frame queue, the buffer of rendered frames, the pool of render threads, the expected frame, counters | `renderFrameRange`, `renderFromCurrentFrame`, `threadLoopOnce`, `startRender`, `stopRender`, `adjustNumberOfThreads`, `appendToBuffer`, `notifyFrameRendered`, `notifyRenderFailure`, `onAbortRequested`, `RenderThreadTask::run` | render threads finish in any order, resize their own pool, fail, and race the end of the render | each frame is rendered once and displayed in order; the render ends; nothing survives it |
| **RenderEngine**, current-frame scheduler | the two schedulers of an output, the age of each request, produced frames | `renderCurrentFrame`, aborts with or without restart, waits | requests are skipped and aborted while produced frames arrive out of order, from two kinds of threads; the scheduler waits for a frame that only its render can announce | the frame it waits for is coming; every request is answered; images appear in order |
| **Render queues** (`OutputEffectInstance`, `AppInstance`, `BlockingBackgroundRender`, the tasks of the progress panel) | the requests of each writer, the active and the queued renders of the application, a task per writer | `startWritersRendering`, `renderFullSequence`, `notifyRenderFinished`, `startNextQueuedRender`, `blockingRender`, pause, cancel and restart of a task | queues advanced by signals of the thread, or the process, that ends the previous render, while the main thread may be inside a modal question | queued renders run one at a time, every one starts, none is lost by the pause or the end of another, a blocking render returns |
| **Cache** | a table in LRU order for the RAM and one for the disk, each entry's memory, the sizes, the queue of a deleter thread, the files of the tiles | `getOrCreate`, allocation, eviction, `removeEntry`, `clear`, `allocTile`, `freeTile` | one lock `_lock` for the tables, another, `_getLock`, that makes look-up and creation atomic; entries die in any thread, outside the locks; a creator waits for the deleter | the size is what is allocated, no two entries answer one request, an entry in use keeps its memory, a tile has one owner |
| **Image bitmap, ImageLocker** | a mark per pixel: to render, being rendered, rendered; a count of the renders of each image | mark, unmark, wait, clear, the search for what is missing | renders share an image; one that fails must give its pixels back; the wait is a condition variable of its own | a render returns what was rendered, no pixel stays marked for ever, waiting renders return |
| **AbortableRenderInfo, ThreadPool** | abort flag, the threads of a render, a timer | set, register, watch | the flag is polled by many threads | an abort reaches every thread of a render |
| **TLSHolder** | per-thread data, spawner map | copy, clean up | threads of pools outlive renders | a thread sees its spawner's data or its own |
| **Node graph** (`Node`, `NodeGroup`) | inputs, outputs, groups | connect, disconnect, swap | links in both directions | both ends agree, no cycle |
| **Knobs** | values, masters, slaves, values queued during a render | set, link, dequeue | values set while rendering | a value set is seen once the render is over |
| **Curve** | an ordered set of keyframes | add, move, remove | neighbours recomputed | keys stay ordered |
| **TimeLine** | the current frame | seek, step | several viewers | |
| **ProcessHandler**, ProcessInputChannel | a local socket in each direction, flags, the thread that listens in the background process | start, read, cancel, abort, exit, crash | two processes; a cancel may come before the pipe exists | an early cancel reaches the process; its end reaches the GUI |

The other parts of the repository are listed in `PROJECT.json` with the reason
why they are not modelled: generated code (Python bindings), input and output
(projects, serialization, files), floating-point geometry (roto, tracker,
transforms), the user interface, and vendored libraries.

### 1.2 How they interact

A client (the main thread, or a thread of a background render) calls
`RenderEngine::renderFrameRange()`. The engine passes it to its
`OutputSchedulerThread`, a `GenericSchedulerThread`: the call becomes a task in
its queue. `run()` takes the task and performs `threadLoopOnce()`, which starts
render threads, pushes frames to them, and waits on `bufEmptyCondition` for what
they append to the buffer. A rendered frame is processed by the scheduler or,
for viewers, on the main thread (`requestExecutionOnMainThread`, a blocking call
in the other direction). A single frame of a viewer goes through another
`GenericSchedulerThread`, the current-frame scheduler: it hands the render to the
thread pool or to its backup thread, a third one, and waits for the result. An abort raises a counter the scheduler polls and
signals the two condition variables. The main thread may not block on all that,
so `waitForThreadToQuitQueued_main_thread()` and its sisters give the wait to a
`GenericWatcher` thread, which reports by a queued signal.

The renders of writers come from `AppInstance`: it starts one, or all of them
when queuing is off, in this process or by a `ProcessHandler` in another one,
and the signal that a render has finished starts the next one. A writer that is
already rendering keeps further requests in a list of its own, which the
scheduler's thread pops when it is through. Inside a render, `renderRoI()` gets
its image from the `Cache`; two renders of the same image divide its pixels by
the bitmap and wait for each other's. The cache owns the entries as long as
nobody else does: the last pointer destroys an entry, in whatever thread that is.

## 2. Plan

Modules, the most important behaviour first; those with a tick exist.

1. `GenericSchedulerThread` ✓ with `GenericSchedulerThread_proofs` ✓, over
   `Subsequences` ✓ with `Subsequences_proofs` ✓
2. `GenericWatcher` ✓ with `GenericWatcher_proofs` ✓
3. `FrameSequence`, `Playback` ✓
4. `OutputScheduler` ✓ with `OutputScheduler_proofs` ✓, which has the theorems about `Playback` too
5. `CurrentFrameScheduler` ✓ with `CurrentFrameScheduler_proofs` ✓: ages, produced frames, the backup thread, aborts and quits
6. `TaskService` ✓: what a task queue promises, implemented by `GenericSchedulerThread`
7. `RenderQueue` ✓ with `ProcessHandler` ✓ and `RenderQueue_proofs` ✓: the render sequences of a writer, the writers of an application, their processes
8. `SharedImage` ✓ with `SharedImage_proofs` ✓: the marks of an image shared by renders
9. `Cache` ✓ with `TileFiles` ✓ and `Cache_proofs` ✓: the entries in RAM, the deleter thread and the accounting; the tile allocator
10. the entries of the cache that live in files of their own, and its saving and restoring
11. the refresh queue of `RenderEngine`; `AbortableRenderInfo`, `TLSHolder`, the OpenFX multithread suite, `Knob` queues, node connections, `Curve`, the pool of OpenGL contexts, `HistogramCPU`

An abstract specification still worth stating is an ordered display that shows
the frames of `Playback` (implemented by `OutputScheduler`, whose scheduler
follows the same `NextFrameInSequence`).

## 3. The modules and the code

### 3.1 GenericSchedulerThread

One step is one critical section of `Engine/GenericSchedulerThread.cpp` or one
read of `QThread::isRunning()`. The thread is a program counter `pc` that goes
through the labels of `run()`; each client has its own, `cpc`, and the locals of
the call it is in, `local`. Every mutex of the class is released between two
steps, so every interleaving the locks allow is in the model.

| Code | Model |
|---|---|
| `enqueuedTasks`, `queuedTaskWhileProcessingAbort`, `startRequests`, `abortRequested`, `mustQuit`, `startingThreadAllowed`, `lastQuitThreadAllowedRestart`, `threadState`, `executingOnMainThread` | variables of the same names |
| `run()`: choice of a task | `PickInOrder`, `PickMostRecent`, `PickNothing` in `PickTask` |
| `run()`: `threadLoopOnce()` | `Activate`, then `Poll` (it calls `resolveState()`), `RequestExecutionOnMainThread` and `LoopOnceReturns` in any number and order |
| `resolveState()` | `ResolveQuit`, `ResolveAbort` |
| `run()`: after the task | `PublishState`, `StopThread`, `FinishThread`, `ResetAbort`, `TakeStartRequest` |
| `startTask()` | `StartGate`, `Enqueue`, `StartReadRunning`, `StartThread` or `PostStartRequest` |
| `abortThreadedTask()` | `CallAbort`, `AbortReadRunning`, `AbortReadState`, `AbortRequest` |
| `quitThread()` | `CallQuit`, `QuitGate`, `QuitReadState`, the steps of an abort, `QuitClear`, `QuitWake` |
| `waitForThreadsToQuit_internal()` | `CallQuitWait`, `QuitWaitReadState`, `QuitWaitFlag`, `QuitWaitJoin` |
| `waitForAbortToComplete_internal()` | `CallAbortWait`, `AbortWaitReadState` |

A task is a model value, posted at most once; `isSkippable()` is membership in
`Skippable`. What `SkipToMostRecent` keeps of the queue is
`Filter(enqueuedTasks, Unskippable)`: `Filter` (module `Subsequences`) is
the function of `SelectSeq`, defined by counting instead of by recursion, so that
it can be proved about. The task that `quitThread()` pushes is `Stub`. `posted`, `handled`,
`dropped` and `abortMark` are histories: no action depends on them, apart from
`posted`, from which a client takes a task not posted yet.

`TaskService` is what `startTask()` promises its clients, without queues, flags
or threads: a task that was accepted is started once, in order if the service is
`Ordered`, or is given up. `ImplementsService` and `ImplementsFairService` say
that the thread implements it: a task is accepted when `startTask()`
queues it (`posted`), started when `run()` activates it (`handled`), and given
up when an abort, a quit or a more recent task takes it out of its queue
(`dropped`); every other step is a stutter.

### 3.2 GenericWatcher

The watcher thread (`pc`) and its owner, the main thread (`opc`). The push of
`scheduleBlockingTask()` and the pop of `run()` take two steps each, so that a
lock that is not held shows. `handleBlockingTask()` is one step that may need an
answer of the main thread (`NeedsMain`), which its event loop gives only outside
a call. `oneAtATime` is chosen in the initial state: whether this owner waits for
a report before it schedules again.

### 3.3 FrameSequence and Playback

`FrameSequence` has the arithmetic as pure operators: `NextFrameInSequence`
(`getNextFrameInSequence()`, from its three parts), `AllFrameRange`
(`pushAllFrameRange()`) and `TotalFrames` (the number `notifyFrameRendered()`
compares with). `Playback` iterates them as `threadLoopOnce()` does for a
renderer that is always ready: it is the reference for what a playback shows.
Frames are integers far from the 32-bit limits.

### 3.4 OutputScheduler

The scheduler thread (`spc`) goes through `startRender()`, the loop of
`threadLoopOnce()` and `stopRender()`; each render thread (`rpc`) through
`RenderThreadTask::run()`, `pickFrameToRender()`, its `renderFrame()`, and, with
the policy FFA, `notifyFrameRendered()`. Steps are split where a mutex is
released. A wait condition wakes only who waits already: the label `waiting` is
the scheduler on `bufEmptyCondition`, `asleep` a render thread on
`framesToRenderNotEmptyCond`.

| Code | Model |
|---|---|
| `runArgs` | `args`, with the direction of pushing and of processing |
| `buf` (a set of images with view and time) | `buf`, how many images of each frame, and `fakeFrames` |
| `renderThreads`, with `mustQuit`, `hasQuit` per thread | sets of threads |
| `adjustNumberOfThreads()` | `ReadThreadCounts` in one step; `SchedulerAct` or `RenderThreadAct` in a later one |
| `nbThreadsRunning` of the application | `running`, plus any number in `OtherThreads` |
| what is played: the mode, the frames that fail or have nothing to show | `playback`, chosen in the initial state among `Playbacks` |
| `getNParallelRenders()` of the settings | any member of `playback.parallel`, at each read |
| NATRON_SCHEDULER_ABORT_AFTER_X_UNSUCCESSFUL_ITERATIONS (5000) | `StallLimit` |

The request for a render and the abort flag are those of the base class; the
module keeps only that a scheduler that is idle may be given a render and that
`abortRequested` is raised while it works and falls when it stops.

### 3.5 CurrentFrameScheduler

Two threads of the base class, `th["scheduler"]` and `th["backup"]`, records with
the fields of 3.1 and one `label`, the renders, the main thread and the watcher
(`at`). The base class takes coarser steps than in 3.1: posting a task, choosing
one and finishing an iteration are one step each. An abort and a quit keep the
steps that matter here: the reading of a thread's state, the counting of the
abort, the marking of the renders, the clearing of each queue.

| Code | Model |
|---|---|
| the age of a request | the request itself, `1..MaxRequests` |
| `RenderCurrentFrame` with nothing to render, a cached image, a task | three outcomes of one action |
| `threadLoopOnce()` of the scheduler | `Dispatch`, `Look` (with `producedFramesMutex`), the label `asleep` for the wait, `Leave`, `ExecuteOnMainThread` |
| the test of `activeThreadCount()` | any member of `PoolHasRoom` |
| `RenderCurrentFrameFunctorRunnable::run()` | `BeginRender` (`addOngoingRender()`), `EndRender` (`removeOngoingRender()`), `NotifyFrameProduced` |
| a render that fails, shows black or throws | `RenderEnds`, for the members of `Faulty`; the viewer is cleared by a queued signal, `ViewerDisconnected` |
| the event queue of the main thread | `events`; an abort or a request of the main thread is outside it |
| `markAllOnGoingRendersAsAborted()` | `MarkOngoing`; draft mode is a free choice |
| `currentRenderAges`, `producedFrames`, `currentFrameRenderTasks` | `ongoing`, `produced` (with `hasImage`), `pool` |
| the unskippable ("neat") renders of a paint stroke | `neat`, chosen in the initial state |
| `quitThread()`, `onQuitRequested()`, the wait | `CallQuit` to `QuitBackupClear`, `WaitForQuit` to `WaitForBackup` |

`posted`, `settled`, `lost`, `threw` and, of each thread, `overdue` are
histories. A task is overdue once an abort that was counted too late has left it
in the second queue of its thread: the next merge of the queues puts it after
more recent ones. `lost` has the tasks that the backup thread refused, forgot when
it quit, or skipped for an overdue one.

### 3.6 RenderQueue and ProcessHandler

`ProcessHandler` has, for each job, the GUI's end of the channel and both
threads of the background process: its main thread (`proc`), which announces its
server, loads, renders and exits, and its `ProcessInputChannel` (`channel`). The
sockets are reliable and in order, but a line is read when an event loop gets to
it (`readyRead`), or by nobody. `RenderQueue` extends it with the queues. The
scheduler of a writer is reduced to what it does with its tasks (`engine`);
its own steps are in 3.1 and 3.4.

| Code | Model |
|---|---|
| `_renderQueue`, `_activeRenders` of the application, `_renderSequenceRequests` of a writer | `renderQueue`, `activeRenders`, `requests` |
| how the application renders: in its process, in others, as a background application | `mode`, chosen in the initial state; `queuing` is the user's setting |
| `startWritersRendering()` | `RequestRender` with `Enqueue`; `BlockingMap` for the command line |
| the call stack of the main thread: renders to start, a modal question | `todo`, a sequence of frames; the event loop runs inside a question (`InEventLoop`) |
| `renderFullSequence()` | `RenderFullSequence`, `AcceptQuestion`, `RefuseQuestion`, `PushRequest` |
| the scheduler's thread | `BeginTask`, `EndTask`, `ReportFinished`, `NotifyRenderFinished`, `PopRequest`, `ResetAbort` |
| the queued signals `renderFinished()` | `events` |
| `onQueuedRenderFinished()`, `onBackgroundRenderProcessFinished()`, `startNextQueuedRender()` | the actions of these names, with `StartNext` |
| pause, cancel, restart of a task of the progress panel | `CancelTask`, `RestartTask`, `TaskStopped` |
| `blockingRender()`, `notifyFinished()` | `BlockingRender`, `WaitNotRunning`, and `PopRequest`, which needs its mutex |
| `onDataWrittenToSocket()`, `onProcessCanceled()` | `OnSocket`, `CancelProcess` |
| `ProcessInputChannel::run()` and its destructor | `ReceiveAbort`, `ChannelQuits`; `Exit`, `AskChannelToQuit`, `TestMustQuit` |

`asked`, `rendered` and `canceled` are histories, but that a job is asked for
once and that `MaxProcesses` counts them.

### 3.7 SharedImage

Each render is a thread in `renderRoI()` of one effect at one frame and view
(`pc`, with its locals in `call`); a step is one critical section of the image's
lock, of `imagesBeingRenderedMutex` or of `ibr->lock`. The image is one row of
pixels: the search for rectangles strips rows as it strips columns, so the
operators `Bbox` and `Rects` keep all of it but its second dimension. A region
of interest is a rectangle, so an interval of the row (`Convex`).

| Code | Model |
|---|---|
| the bitmap, with `PIXEL_UNAVAILABLE` | `bitmap`, values 0, 1 and 2 |
| `minimalNonMarkedBbox()`, `minimalNonMarkedRects()`, with or without trimap | `Bbox`, `Rects`, `BboxElsewhere`, `RectsElsewhere`, with the values that count as missing |
| `determineRectsToRender()` | `LookUp`, `AlreadyRendered` |
| `markImageAsBeingRendered()`, `unmarkImageAsBeingRendered()`, `ImageBeingRendered` | `MarkImageAsBeingRendered`, `UnmarkImageAsBeingRendered`, `ibr` |
| `tiledRenderingFunctor()`: `tryShrinkRenderWindow()`, the mark, the plug-in, what follows | `Shrink`, `Claim`, `RenderRect` or `Fail`, for each rectangle in any order |
| `waitForImageBeingRenderedElsewhereAndUnmark()` | `EvaluateBeforeWait`, `Wait`, `WakeUp`, `Conclude`, the label `asleep` for the condition |
| a render that may be aborted, which takes the value 2 for missing | `Abortable` |
| tiles, a full-scale image for a proxy, an identity | `tiles`, `Proxies`, `Identities` |

`painted` is a history.

### 3.8 Cache and TileFiles

`Cache` has the node cache in RAM, or the tiled viewer cache: `tiled` is chosen
in the initial state, because the two share no state. An entry counts for one
unit of memory, so that `Capacity` is a number of entries. Shared pointers are
counted by who holds them (`HoldersOf`: a user that works with an entry, or the
list `getOrCreate()` keeps while it creates); the table and the deleter's queue
have pointers of their own.

| Code | Model |
|---|---|
| `_memoryCache` (`LRUHashTable.h`) | `table`, the least recently used first; `Relocated` is what a look-up does to it |
| `getOrCreate()`, `getInternal()` under `_getLock` | `GetOrCreate` |
| `createInternal()` | `EvictForSystem`, `SystemHasMemory` (the size is read here), `EvictInMemory`, `WaitForMemory`, `Insert` |
| `allocateMemory()` | `Look`, `Allocate`, `Announce` (`notifyEntryAllocated()`) |
| the end of a shared pointer | `Release`, `Deallocate`, `NotifyDestroyed`; `dying` says in which thread |
| `removeEntry()` of an entry or of a key, `removeAllEntriesForPlugin()`, `clear()` | `RemoveEntry`, `RemoveHash`, `RemoveForPlugin`, `ClearLock` to `ClearEnd` |
| the deleter thread | `DeleterPop`, `DeleterWake` |
| `allocTile()` | `AllocateRemembered`, `AllocateInFile`, `AllocateInNewFile` |
| `freeTile()`, the reset of the file's pointer after it | `FreeTile`, `ResetFile` |

`twice` is a history. `RoomForEntry` bounds the entries that exist at once, as
`Files` and `TileEntries` bound the files and tiles.

## 4. The runs

| Run | Question | Size |
|---|---|---|
| `GST_InOrder` | One client that only starts tasks, a loop that calls back the main thread: does the thread implement the task service, with order and fairness, and never sleep on a task? | 1 thousand states |
| `GST_Abort` | Two clients that abort and post: is a task ever in two places, dropped by an abort older than it, or an abort of an active thread not processed? Is it still a task service? | 100 thousand |
| `GST_Quit` | SkipToMostRecent, a loop that calls back the main thread, with a quit, an abort, both waits by both clients: does the thread stop, is a final quit final, is a restartable one restartable, is only what is outdated skipped? | 171 thousand |
| `GW_Stop` | Four waits, two stops, careful and hasty owners: reports in order and complete, `stopWatching()` returns | 120 thousand |
| `PB_Play` | Every mode, direction, range and start on seven frames: what is played, and does it end? | 3 thousand |
| `OS_FFA` | Writers: two renders of three frames, a pool of up to four threads that grows and shrinks, an abort, a change of the range | 464 thousand, with symmetry |
| `OS_Ordered` | An ordered render by three threads with a buffer limit of three images: a loop of three frames; or a single pass with a pool that grows and shrinks, whose last frame fails or shows nothing, with an abort and a stall. Is the awaited frame coming, the buffer bounded, the order kept, does `stopRender()` return and leave everything clean? | 144 thousand |
| `CF_Viewer` | Two requests, by the pool or the backup thread, and an abort or a final quit: is the awaited frame coming, the list of renders right, the display in order, every request answered, the quit over? | 277 thousand |
| `RQ_Renders` | Three renders of two writers, in the GUI's process, in others, or of a background application; pauses, cancels, restarts, questions, a process that fails: does one render run at a time, is none lost, does the queue move on, does an early cancel arrive, do blocking renders return? | 261 thousand |
| `IMG_Shared` | Two renders that nothing aborts and one that may be, with overlapping regions, tiles or not, failures: is each marked pixel in somebody's hands, does a render return only what was painted, and does it return? | 174 thousand |
| `IMG_V_Waiters` | Three renders that nothing aborts (violation) | |
| `CA_Entries` | Two users of a full cache, two keys, evictions, removals, `clear()`, the deleter; or the tiles of the viewer cache: is the accounting right, is no entry doubled, does an entry in use keep its memory, is who waits for memory woken? | 468 thousand, with symmetry |

**Bounds.** In `GenericSchedulerThread` two clients and three tasks are enough
for each pair of calls to overlap with a task in each queue and one in the
thread's hands; `MaxAborts` and `MaxQuits` bound calls, not what they do, and
`StartGate` lets no more clients pass (`PastGate`) than there are tasks left to
post. In `GST_Quit` `EnforceBlocking` is empty: the blocking variant lets the
main thread wait for a thread that waits for it (section 9), which the test of
line 221, `MayBlock`, avoids; the mutant `MayBlock_Always` is without it. An
order can be broken by two tasks, a merge of the queues by three. In
`OutputScheduler` three frames are more than one per thread and four threads are
enough for two to resize the pool together while a third renders and a fourth
leaves (a thread is added only while a name is free: the guard of
`AppendRunnable` is the bound on `Threads`); `HardwareThreads = 1` makes the buffer limit three images, which a loop
of three frames reaches, as it pushes the frames of its next turn before the
last ones are shown.
`StallLimit` is 2 instead of 5000: the counter only delays the give-up. In
`CurrentFrameScheduler` two requests are enough to skip, overtake and refuse
one another; one abort meets each of them at each step, and so does one quit. A
quit disallows restarts: with `AllowRestarts = {TRUE}` the wait may be for a
thread that was started again, which section 9 reports of the base class. Seven
frames of `Playback` let a range be shorter than, inside, and equal to the
timeline, with even and odd lengths.

In `RenderQueue` three renders of two writers put two requests on one writer
and one behind another in the queue; `MaxCancels` bounds clicks, and two
processes are enough for one to end while the other renders. `Overlap = FALSE`
lets a task be restarted only when its render has stopped; section 9 says what
happens otherwise. In `SharedImage` three pixels in a row give rectangles before,
between and after what is already there, and two renders that nothing aborts may
wait for each other; with a third one the code hangs, which is what
`IMG_V_Waiters` shows. In `Cache` a capacity of two with three entries makes
a creation evict or wait as soon as two entries are filled; two users are enough for
two of them to want the same entry, or for one to hold what the other evicts;
two tiles per file and three entries need a second file. `MaxTwice` bounds how
often an entry is announced twice.

Deadlock is not checked: when the clients have made all their calls the threads
sleep, which is where these systems are meant to stop. That they do not sleep
with work left is stated as properties (`NoTaskLeftBehind`,
`ImplementsFairService`, `NoThreadSleepsOnWork`, `StopReturns`,
`WaitsForAComingFrame`, `EveryRequestAnswered`, `QueueDrains`,
`BlockingRendersReturn`, `RendersReturn`, `WaitsForTheDeleter`).

**Symmetry** is used in two runs, which have no temporal property. In `OS_FFA`
(`ThreadSymmetry`) render threads differ in nothing but their names;
`AppendRunnable` chooses one of the free ones, which behave alike. In
`CA_Entries` (`Symmetry`) neither the users nor the memory an entry is made of
have a name in the code; the keys, the tiles and the files, which an order picks
from, are not permuted.

## 5. Fairness

No client is ever forced to begin a call. A thread that is inside a call, or in
`run()`, is scheduled again and again by the operating system: weak fairness of
`RunStep`, of `CallStep(c)` for each client, of `SchedulerStep`, of
`RenderThreadStep(t)` for each render thread, of both threads of the watcher; in
`CurrentFrameScheduler`, of each of the two threads, of the renders, of a call
that was begun, and of the answer of the main thread, for which weak fairness is
enough because it makes finitely many calls. A render that never returns is
therefore excluded.
The two strong ones are: `LoopOnceReturns`, because a `threadLoopOnce()` that
polls for ever is not a behaviour of any subclass; and the answer of the main
thread, because its event loop serves its queue between two calls, however
short the gap (a queued signal stays queued). Neither the waits for a condition
nor the joins are fair in a stronger sense than weak.

In `RenderQueue` weak fairness of all the work together is enough (`Work`: the
event loop, the answer to a question, the engines, the processes): every render
is finite, so that whoever goes on, each of them gets there. In `SharedImage` it
is weak fairness of the steps of each render that has begun. `Cache` states no
liveness: that a sleeper has somebody to wake it is the invariant
`WaitsForTheDeleter`.

## 6. What is proved

Every proof is checked by TLAPS to its last leaf, for every value of the
constants, and uses nothing but the named assumptions on the constants
(`CallersAssumption`, `TasksAssumption`, `ParametersAssumption`,
`WatcherAssumption`, `SchedulerAssumption`, `PlaybackAssumption`,
`SharedImageAssumption`, `CacheAssumption`, `TilesAssumption`,
`RequestsAssumption`, `ProcessAssumption`, `RenderQueueAssumption`) and what the
theorem states. TLC evaluates those assumptions
in the runs. Most hypotheses are needed: section 9 has the instances where the
code breaks the property without them. The others are what the proof asks for.

An inductive invariant is the conjunction of named parts; each step of the proof
is an action, and under it the parts the action disturbs.

### 6.1 Task queues: `GenericSchedulerThread_proofs`

| Theorem | Hypotheses | What it says |
|---|---|---|
| `TypeCorrect` | none | `TypeOK` |
| `PlacementInvariant`, `OnePlaceEach` | none | a task is in one place: a queue, the thread's hands, handled, or dropped |
| `ServiceIsImplemented` | none | `ImplementsService`: the thread implements `TaskService`; in order if it processes in order and nobody aborts or quits it |
| `AbortDropsOlder` | none | an aborted loop drops only what was posted before an abort |
| `CallbackIsSound` | none | the assertions of `requestExecutionOnMainThread()` |
| `NoTaskIsLeftBehind` | ProcessInOrder, one starting client, no abort, no quit | a sleeping thread has nothing to do |
| `FinalQuit` | one client starts and quits | a final quit is final |
| `RestartAllowed` | `MaxQuits <= 1` | a quit that allows restarts leaves the gate open |
| `QuitRemembered` | both | `QuitIsRemembered` |
| `SkippedIsOutdated` | no quit, `MaxAborts <= 1` | `SkipToMostRecent` drops only what may be skipped, for something newer |

`TypeOK` is inductive by itself. That a task is handled at most once
(`EachTaskInOnePlace`) is not: it says nothing of a task that is twice in a
queue, or in both, or in the thread's hands and in a queue. `QueuesAreDisjoint`
adds that, and that only posted tasks are anywhere, so that a newly posted one is
nowhere yet. The steps that move a task (`PickTask`, `Activate`, `ResetAbort`,
`Enqueue`, `QuitClear`) have a proof step of their own; the others leave the
queues alone (`NothingMoves`). With `SkipToMostRecent` the queue that is left is a
`Filter`: `Subsequences_proofs` shows that it has the elements of the set, in
their order and once each, from which `MostRecentIsTaken` and
`MostRecentKeepsOrder` follow.

The refinement of `TaskService` maps each step to a step of the service or to a
stutter; that the service is fair stays with TLC. For the order, `OrderInv` says
what was accepted: `posted = handled \o Taken \o enqueuedTasks`.

`NoTaskIsLeftBehind` rests on an accounting, `AccountingInv`: there is no more
queued than there are start requests, plus the one the client is about to make
(`Owed`), plus the one the thread has consumed without having taken a task
(`Due`); with what nobody interrupting means for the flags (`NeverInterrupted`),
and that a client about to start the thread finds it not running (`OneStarter`).

`AbortInv` says that each abort pending has its mark in `posted`, and that what
is in the queue the abort will clear is older. `RunIsSound` ties the label of
the thread to its state and to the callback. `FinalQuitInv` says that the gate is
shut behind a final quit and no client is past it, `OneQuitInv` that the flag of
a quit is read by the thread or still to be read. `SkipsOnlyOutdated` needs two
invariants: before the one abort is asked for nothing is in the second queue, and
only the end of that abort merges the queues (`OneAbort`); then both queues are in
posting order, and while the abort is pending all of the second one is newer than
all of the first (`QueuesInOrder`).

### 6.2 The watcher: `GenericWatcher_proofs`

`ReportsInOrder`: `WatcherInv`, and that `taskFinished` is emitted once per task.
`LineOK` says that what is finished, then what is in hand, then what waits is the
order of scheduling; `HandsOK` that what is popped is the front of the list that
was looked at, although the lock of the push is not held; `RequestsOK` that the
start requests are bounded by the stops.

### 6.3 A playback and an output: `OutputScheduler_proofs`

| Theorem | Hypotheses | What it says |
|---|---|---|
| `PlaybackStaysInRange` | the playback starts in its range | it processes frames of the range only |
| `AllFramesArePlayed` | the same | mode Once plays every frame from its start to its end; a free-for-all render waits for as many frames as it pushes, for every step |
| `NoThreadSleeps` | none | no render thread sleeps on a frame that nobody is about to wake it for |
| `EachFrameOnce` | none | FFA: a frame is in the queue, with one thread, or written, never in two of these places, and written once; the counter counts those written |
| `ProcessesInOrder` | nobody changes the range | each frame processed is the one before, or its successor |
| `BufferStaysBounded` | policy Ordered | `BufferInv`: types; the frames queued, in hand and buffered stay within a limit; after `stopRender()` nobody works, and the queue and the buffer are empty |
| `FrameAwaitedIsComing` | `PlaysOn`: nobody changes the range, no playback bounces, none loops over a single frame | `ExpectedFrameIsComing`: the frame the scheduler awaits is queued, in hand or buffered, unless nothing comes of it or the size of the pool may change |

The range of a playback needs the step 1 that playbacks use: the lemma on
`NextFrameInSequence`. `AllFramesPlayed` needs `OnceInv`: what is processed is the
interval from the start to the frame before the next one.

`ProcessesInOrder` carries the relation from one label of the scheduler to the
next (`SequenceInv`: the frame processed, the one taken from the buffer and the
one expected follow each other), with `RangeInv` for the two ends.
`BufferStaysBounded` and `EachFrameOnce` share `AliveInv` (a thread that works is in the list and has
not quit) and `DrainInv` (`stopRender()` empties the queue, then waits for who has
a frame in hand). `StopInv` adds that who works is among the threads the
scheduler waits for: with the policy FFA a render thread may add one after the
list was copied, which section 9 reports. `OrderedTypes` is `TypeOK` with what it
needs to be inductive (a frame in hand, awaited or last pushed is a frame of the
timeline; a render that gave up is over), and rests on `PushedFrames`: what
`pushFramesToRender()` appends are frames, two per thread in all, or one when the
range has one. As `Steps` follows a recursive function, `WalkExists` shows first,
by induction, that there is such a function. `BoundInv` is the bound: a push comes
after a frame was taken, so one that finds room leaves two frames per thread in
the queue, at most one in each hand and a buffer below the limit of
`isBufferFull()`, and one that appends a single frame only replaces what was
taken; the range may change at any time. It needs `StartOK`: the first adjustment
of a render adds a thread. `PlacesInv` and `CountInv` are the accounting of
`FramesRenderedOnce`; `CountsOnlyInv` says what the scheduler of an FFA render
never does.

`FrameAwaitedIsComing` is about two cursors that the code moves apart, with two
calls of `getNextFrameInSequence()`: the frame pushed and the frame expected, each
with its own direction. `ComingInv` says that both are on one walk `w` of the
sequence: the scheduler expects `w[e]`, the last frame pushed is `w[m - 1]`, and
what is queued is `w[q]` to `w[m - 1]` in order. Between `e` and `q` the order is
lost to the render threads, and a loop visits a frame several times, so the
invariant counts: each frame is as often in hand or buffered as the walk visits
it there, or less often if it fails or is silent. From this, `e < m` is the
property. It is not inductive alone:

* Between taking a frame and pushing more, `e = m` is possible. Then the walk goes
  on after `w[e]`, and the push finds `w[m]`; a buffer that is full
  (`BufferedIsBehind`) or a queue that is full has frames left.
* `PoolInv`: a pool of one size is never asked to shrink, so no thread drops the
  frame it has taken.
* `UnfinishedInv` and `OneWayInv`: a render starts unfinished, with one direction.
* `WalkGoesOn` and `PushedWalk`: what one call of `pushFramesToRender()` appends is
  the same walk, from where the last call left it. `DirectionKept` is why a bounce
  is excluded, and section 9 shows what happens to one.

### 6.4 Frames of the viewer: `CurrentFrameScheduler_proofs`

`ViewerInvariant` is the inductive invariant, with no hypothesis; `OngoingCorrect`,
`FrameIsComing` and `DisplayIsInOrder` follow from it. Its parts:

* `RequestsInv`, `BackupInv`: a request is in one queue of the scheduler or in its
  hands, once, and is new until it is handed over; the backup thread has only
  what was handed over.
* `EventsInv`: one call of the main thread is due exactly while the scheduler
  waits for it.
* `LateInv`: what is in a second queue while no abort is pending is overdue.
* `OngoingRendersRun`: what an abort marks runs, unless it threw.
* `OrderInv`: what is queued is in order, newer than what is in hand, which is
  newer than what was displayed; except neat renders and overdue requests.
* `WaitInv`: the frame awaited is rendered, or in the pool, or with the backup
  thread, where it is the most recent task that is not overdue, so that only an
  overdue one can make the thread skip it.

The exception for what is overdue is needed: without it both properties fail, with
two aborts, and section 9 has the instances.

### 6.5 Shared images: `SharedImage_proofs`

`BitmapInvCorrect`, with no hypothesis: a pixel marked as being rendered is in the
hands of a render at work, and the entry of the image counts those inside.
`ReturnedImageCorrect`: a render that returns an image returns what it was asked
for, rendered, if none failed and no render that nothing aborts copies an input
(`Identities`) at full scale for a proxy (`Proxies`), where the code forgets what is
pending. Four invariants lead there, each on top of the ones before: `Counted`
(the count of the entry), `Shape` (the rectangles left are intervals, and what
each label implies of the locals), `BitmapIsTrue` (2 has an owner, 1 was painted,
0 was not, or a render failed) and `Progress` (as long as none failed, a pixel
asked for and not painted is left to the render, or is pending and the render
knows). The recursion-free `Bbox` and `Rects` have lemmas of their own: the
rectangles are convex, and no pixel that is missing is outside them.

### 6.6 The cache: `Cache_proofs`

`CacheInvariant` has no hypothesis, and `AccountsAreTrue` (`AccountingInv`),
`TableHasNoTwins` (`NoTwins`), `EntriesInUseStay` (`UsedEntriesStay`) and
`SleepersAreRemembered` (`WaitsForTheDeleter`) follow from it. Its parts:

* `MemoryTypeOK`, `OwnersInv`: an entry is in the table or in the deleter's queue,
  not both; one that somebody destroys is nowhere else and in one thread.
* `UsersInv`: which labels of a user mean that it holds an entry, and that the
  entry then has memory or is about to.
* `CreatorInv`: one user at a time creates, for a request the table has no entry
  for. This is what `_getLock` is for, and why there are no twins.
* `AnnounceInv`: the size is the footprint of what is allocated, less what is
  about to be announced, plus what was announced twice; who allocates an entry
  that another one allocates is counted in advance.
* `WaitsForTheDeleter`, which is inductive on top of them.
* `TilesInv`: a tile is marked exactly when one live entry of a file in the cache
  has it.

The cardinalities come from `FiniteSetTheorems`.

### 6.7 Renders of an application: `RenderQueue_proofs`

| Theorem | Hypotheses | What it says |
|---|---|---|
| `QueueTypes` | none | `TypeOK`: among others, what a writer was asked to render is for that writer |
| `CancelsArrive` | none | `CancelIsOnItsWay`: a process that renders what was canceled has the abort or gets it |
| `RendersTakeTurns` | `Overlap = FALSE` | `QueueInv`: queued renders run one at a time, and each request has its task |
| `RequestsAreKept` | `Overlap = FALSE` | `NoRequestLost`: what was requested and not canceled waits, is active, starts, was rendered, or was in a process that crashed |

They hold in the three modes, for any jobs and writers, and any number of clicks
and of processes. `Overlap = FALSE` is what `RQ_Renders` assumes; without it,
`RequestHasTask` (so `QueueInv`) and `NoRequestLost` fail, and section 9 has the
instances.

`CancelsArrive` needs the types and what each end of a channel knows of the other
(`LinesInv`, `CancelInv`): the abort is in the pipe, or is kept until the pipe is
there, and the messages of a process arrive in the order it sent them, so that a
process known to have left is not rendering. The last two need `RendersInv`:

* `ModeInv`: what belongs to another mode is not there.
* `PlacesInv`: a writer has one place: it waits in the queue, its call is what the
  main thread is in the middle of, or it is active.
* `TasksInv`: what waits is the job of a task that lives.
* `QuietInv`: a writer that waits or is about to start has an idle engine and no
  end to be told. This is where a restart before the stop would break in.
* `EngineInv`, `AbortsInv`: an engine at work renders for an active render, and is
  asked to abort only while at work and only what was canceled; so no task of a
  scheduler is set aside.
* `EventsInv`: the end of a render is told once, and the render is over by then.
* `ProcessInv`: a process that started is active until its end is handled.
* `CountInv`: while renders are queued, at most one is active or about to start.
  The user may switch the queue off; `QueueInv` has the exception `everUnqueued` too.
* `LostInv`: `NoRequestLost`, and an end that is told is of a job that was
  rendered, canceled, or crashed.

## 7. What is only model-checked

* Everything temporal, because liveness under fairness is out of the prover's
  reach: `ImplementsFairService`, `ActiveAbortProcessed`, `QuitStopsThread`,
  `EveryTaskReported`, `StopReturns`, `PlaybackProgresses`,
  `EveryRequestAnswered`, `QuitReturns`, `QueueDrains`, `BlockingRendersReturn`,
  `RendersReturn`.

* The properties of section 6 outside the hypotheses of their theorems, where
  section 9 does not say that they fail.

## 8. What is not modelled

* Of the modelled classes: the thread-local data, the thread names, the priority
  setting; views, the second input of a viewer, render statistics, the
  progress reports and the begin/end-sequence calls of sequential writers in the
  scheduler; processing a frame on the main thread is one step
  (`ProcessFrame`), the round trip being in `GenericSchedulerThread`.
* Of the current-frame scheduler: the second input; renders that may not be
  aborted (`canAbort` false); `displayAge`, whose answer is discarded;
  the mode without threads, where the main thread renders by itself; several
  clients that post, abort or quit at once; the refresh queue of `RenderEngine`
  and the playback that a request may interrupt.
* Of the render queues: the paths a render may take before it is queued, the
  checks of frame ranges and files, statistics; the text of the messages between
  processes, and the log of a process. Of the questions, one per render.
* Of shared images: plug-ins that lock out other renders (the model takes
  `eRenderSafetyFullySafe`, whose interleavings include theirs); paint strokes; a
  second look-up when the cache is almost full; the resizing of an image; a pool
  that renders the rectangles of one render at once (they come one at a time, in
  any order); a render that nothing aborts but whose node is deleted
  (Engine/EffectInstanceRenderRoI.cpp:1863); identities are a choice per render,
  not per rectangle. `ImageLocker`, which serialises the allocation of a new
  image, is one step.
* Of the cache: entries in files of their own, their move between RAM and disk
  and their resizing (`ensureBounds()`), so also the part of the tiled cache that
  evicts by LRU; `get()` alone; an allocation that fails; sizes other than one
  unit; quitting the deleter and the cleaner threads; saving and restoring. Two
  pairs of steps are one: `removeEntry()` hands the entry to the deleter as it
  takes it off the table, and the pointer it holds meanwhile destroys nothing.
* The components the plan lists from its point 10 on.
* The parts `PROJECT.json` lists as not modelled, with their reasons.

## 9. Where the code and its documentation disagree

One disagreement has a run that shows it: `IMG_V_Waiters`. Before it waits,
`waitForImageBeingRenderedElsewhereAndUnmark()` reads the bitmap without the
lock it waits with (Engine/EffectInstancePrivate.cpp:424), and the loop tests
that answer together with `refCount > 1`. Two renders that read "being rendered
elsewhere" while a third one renders see each other in the count after the third
has painted, woken and left: both sleep, and nobody is left to wake them
(`SleepersHaveAWaker`).

The following were found the same way. Their statements are at the end of their
modules, or use a property of a passing run; the constants given, with the
others as in the run named, show them.

| Statement | Instance | What happens |
|---|---|---|
| `NoTaskLeftBehind`: `startTask()` "requests the thread to execute the given task" | `GST_InOrder`, one client that aborts and posts | `abortThreadedTask()` reads the state and counts the abort in two steps. If the thread goes to sleep in between, the next task goes to the second queue, the only start request is consumed by the iteration that merges the queues, and the task stays |
| `AbortWaitReturnsWhenDone` | `GST_Abort`, `AbortWaiters = {other}` | `waitForAbortToComplete_internal()` tests `(state == eThreadStateAborted) \|\| eThreadStateIdle`, always true: it never waits (line 389) |
| `AbortFlagFallsWhenAsleep` | as above | the late abort stays pending on a sleeping thread (line 329) |
| `HandledInOrder` | one client that aborts and posts, three tasks, `MaxAborts = 2` | a task of the second queue not merged yet is overtaken (line 544) |
| `RestartAllowedAfterQuit`: "this object may be used again" (Engine/GenericSchedulerThread.h:164) | `GST_Quit`, `Quitters = {main, other}`, `MaxQuits = 2`, `AllowRestarts = {TRUE}` | the second quit reads `isRunning()` (line 155) and passes its gate while the thread leaves (line 534): no restart is allowed any more |
| `FinalQuitIsFinal`: after `quitThread(false)` "this object will no longer be usable" (Engine/GenericSchedulerThread.h:165) | `GST_Quit`, `Starters = {main, other}` | a client that passed the gate of `startTask()` before the quit starts the thread again after it (line 444) |
| `QuitStopsThread` | `GST_Quit`, `EnforceBlocking = {main}` | `waitForThreadToQuit_enforce_blocking()` lets the main thread wait for a thread that is in `requestExecutionOnMainThread()`: "we may deadlock if executeOnMainThread is called", says the comment at line 220, and the application does wait so (Engine/Node.cpp:2537) |
| `QuitClearsQueues` | one client that aborts and posts, `Quitters = {main}`, `MaxQuits = 1` | the second queue is not cleared (line 180) |
| `NoTaskLeftBehind` | `GST_InOrder`, `Quitters = {main}`, `MaxQuits = 1` | a late abort of `quitThread(true)` survives the thread and strands the first task of its next life (line 172) |
| `NoTaskLeftBehind` | `GST_InOrder`, `Callers = Starters = {main, other}` | two clients start a stopped thread: the second start does nothing (line 444) |
| `QuitWaitersReturn` | `GST_Quit` | the thread is restarted before the waiter joined it (line 227) |
| `SkipsOnlyOutdated` | `GST_Quit`, three tasks that may all be skipped, `Starters = {main}`, `Aborters = {other}`, `Quitters = {}`, `MaxAborts = 2`, `MaxQuits = 0` | an abort counted too late strands a task in the second queue; a second one merges it behind newer ones, it is taken as the most recent, and the newer ones are dropped (line 539). With `MaxAborts = 1` it is proved |
| `NoTaskForgotten`: the watcher is "safely implemented to support multiple tasks" (Engine/GenericSchedulerThreadWatcher.h:51) | `GW_Stop` with `Spec`, three tasks, `NeedsMain = {}`, `MaxStops = 0` | one iteration resets all start requests and takes one task (line 157) |
| `~(opc = "pushing" /\ pc = "popping")`: a push does not overlap a pop | as above | `QMutexLocker(&_imp->tasksMutex);` is a temporary, unlocked at once |
| `StopReturns` without `WaitForEachOther` | `GW_Stop` | the main thread replaces a watcher whose wait needs the main thread |
| `FramesInRange`: "Make sure current frame is in the frame range" (Engine/OutputSchedulerThread.cpp:1852) | `PB_Play`, `InsideOnly = FALSE` | the frame computed is dropped; the playback starts at the playhead (line 1046) |
| a bounce moves to a neighbour | `PB_Play`, `Bounce` | from the first frame, forward, it goes to the last but one (line 592) |
| a loop plays every frame | `PB_Play`, `Loop`, `Backward` | the last frame is left out (line 586): `LeftOutByLoop` |
| `RenderFinishes`: the fake frame notifies the scheduler that the render is finished | FFA, a writer with one thread, fair | the scheduler reads the flag and the buffer, and waits later without looking again: the wake-up is lost (line 1436) |
| `AbortStopsRender` | `OS_Ordered`, one thread, a playback in mode Once with every frame `silent` | the wake-up of an abort is lost like that of the last frame (line 1480) |
| `AllThreadsHaveQuit`, `StopReturns` | FFA, four threads, a playback with `parallel = {2}` and one abort | a render thread that decided to add a thread does so after the list was flagged: the assertion of line 525 fails, or, if the thread enters before the copy, the scheduler joins a thread nobody asked to quit. With the policy Ordered only the scheduler resizes the pool, and `StopReturns` holds (`OS_Ordered`) |
| `SomeThreadStays`, `NoFrameIsLost` | FFA, four threads, four frames, a playback with `parallel = {1, 2}` | threads that shrink the pool together stop all of it (line 1509); a thread asked to quit drops the frame it has taken (line 2050) |
| `ExpectedFrameIsComing` | `OS_Ordered`, a playback in mode Loop, `ShrinkingRange`, `MaxRangeChanges = 2` | the expected frame follows the new range, the frames in flight the old one (line 1299) |
| `ExpectedFrameIsComing` | `OS_Ordered`, a playback in mode Bounce with `parallel = {2}` and no abort | a push that finds the queue full turns the direction of the frames to push although it pushes nothing (line 792): the next one turns again, and the frame the scheduler expects is never pushed |
| `ExpectedFrameIsComing` | `OS_Ordered`, a playback in mode Loop, a timeline of a single frame | nothing is pushed after the only frame (line 783), which the scheduler expects again |
| `ExpectedFrameIsComing` without its exception for a pool that changes | `OS_Ordered`, four frames, a playback in mode Once with `parallel = {1, 2}` | a thread that is asked to quit drops the frame it has taken, the one the scheduler awaits (line 2050) |
| `AllThreadsAreOver` | `OS_Ordered`, a playback in mode Once, two threads, nothing that fails or is silent | a thread that has set `hasQuit` is forgotten while it still calls the scheduler (line 1917) |
| `StoppedMeansNoRender`: a stopped thread's object "may safely be destroyed" | `CF_Viewer`, one request and a quit | the scheduler leaves without its frame; the wait finds the thread over and returns before `onWaitForThreadToQuit()` (Engine/GenericSchedulerThread.cpp:209): the render still runs and will call the scheduler |
| `KeepsResponsive`: the backup thread is there "to keep the renders responsive" (Engine/OutputSchedulerThread.h:598) | `CF_Viewer` | the abort of an older request is counted on the backup thread after its render: the next task goes to its second queue and is left there, and the scheduler waits for it for ever (line 3830) |
| `QuitReturns` without `LetDown` | `CF_Viewer`, one request | the backup thread stops with the awaited task in its queue; the quit does not wake the scheduler, which waits for a frame nobody renders (line 3728) |
| `QuitReturns` without `BackupOutlivesQuit` | `CF_Viewer`, one request | the scheduler starts the backup thread after `onQuitRequested()` found it not running: the wait is for a thread that was not asked to quit (line 3836) |
| `QuitReturns` | `CF_Viewer`, `AllowRestarts = {TRUE}` | the base class lets the thread restart before the waiter has joined it |
| `DisplayedInOrder` without its exception for overdue requests | `CF_Viewer`, `MaxRequests = 3`, `MaxCalls = 2`, `AllowRestarts = {}`, `PoolHasRoom = {TRUE}`, `MayBeNeat = {}`, `Faulty = {}` | an abort counted too late leaves request 2 in the second queue; 3 is displayed, a second abort merges the queues, and 2 is displayed after it (Engine/GenericSchedulerThread.cpp:539) |
| `WaitsForAComingFrame` without counting as lost what is skipped for an overdue task | `CF_Viewer`, `MaxRequests = 4`, `MaxCalls = 3`, `AllowRestarts = {}`, `PoolHasRoom = {FALSE}`, `MayBeNeat = {}`, `Faulty = {}` | the same on the backup thread: 3 stays in its second queue, the next abort merges it behind 4, the thread takes 3 as the most recent and skips 4, which the scheduler awaits for ever |
| `NeverGoesBack`: an older render must "not redraw the viewer" (Engine/ViewerInstancePrivate.h:252) | `CF_Viewer`, no abort, no quit | an older frame that ends late replaces a newer one displayed from the cache; `updateViewer()` discards the answer of `checkAndUpdateDisplayAge()`, on purpose, to give the user some feedback (Engine/ViewerInstance.cpp:2710) |
| `NewerImageSurvives` | `CF_Viewer`, `Faulty = {1}`, no abort, no quit | the clearing asked by a failed render is a queued signal, and erases the image a later request took from the cache (line 3600) |
| `NoRenderIsLeftOngoing` | `CF_Viewer`, one request, `Faulty` | an exception skips `removeOngoingRender()` (Engine/ViewerInstance.cpp:545) |
| `WaitEndsWithNothingPending`: after the wait "isBeingRenderedElseWhere should be false" (assertion, Engine/EffectInstancePrivate.cpp:447) | `IMG_Shared` with two renders that nothing aborts | the bitmap was read before the lock; the other render paints and leaves in between, the wait does not take place, and the answer it was to wait for is out of date |
| `NoPixelRenderedByTwo`: "there should never be 2 threads running concurrently renderHandler for the same roi on the same image" (Engine/EffectInstanceRenderRoI.cpp:1926) | as above | what is missing is read under the read lock of the image, and marked under the write lock, taken later: both renders find the same pixels missing before either marks them |
| `EverythingAskedIsRendered`: "check that everything we asked for is rendered" (Engine/EffectInstanceRenderRoI.cpp:1893) | as above | the second of two such renders marks the pixels as being rendered again, after the first has painted them and before it checks |
| `ReturnedImageIsPainted` with an identity and a proxy | `IMG_Shared`, `Identities = {r2}`, `Proxies = {r2}`, `MayFail = {}` | `renderHandlerIdentity()` returns OK and drops the flag of the pixels that another render has in hand (Engine/EffectInstance.cpp:2550): the render does not wait for them, and returns its image without them |
| `NoRequestLost`: queued renders "will start only when all other prior renders are done" (Gui/ProgressPanel.cpp:158) | `RQ_Renders`, `Modes = {"Gui"}`, `Unqueuing = {}`, `Overlap = TRUE` | a writer rendered again, or restarted, before its render has stopped gets its new place in the queue; the signal that the old render ended then stops the task, which takes the new one out of the queue (Gui/ProgressTaskInfo.cpp:347) |
| `RequestHasTask` | as above | an abort that comes when the render is over but `run()` has not reset it sends the next request to the second queue, which no iteration merges (Engine/GenericSchedulerThread.cpp:539) |
| `QueueDrains` without `Wedged` | `RQ_Renders`, `ViewAware = {j2}` | a view-aware writer whose question is refused returns without `s_renderFinished()` (Engine/OutputEffectInstance.cpp:232): it stays active, and what is queued stays queued |
| `QueueDrains` without `Wedged` | `RQ_Renders`, a process that does not start | `onProcessError()` reports no end (Engine/ProcessHandler.cpp:247) |
| `QueueDrains` without `Wedged` | `RQ_Renders` | the destructor of the channel waits for a wake-up that came before it waited (Engine/ProcessHandler.cpp:287): the process never exits |
| `CancelIsOnItsWay` without its exception for a channel that is over | `RQ_Renders` | the thread of the channel ends after one abort, also one that came while the project was loading and quit nothing (Engine/ProcessHandler.cpp:323) |
| `SizeIsFootprint` without `twice`: "This function does nothing if it has been reallocated already" (Engine/EffectInstance.cpp:1348) | `CA_Entries` | `allocateMemory()` looks and allocates in two critical sections: two users of a new entry both announce it (Engine/CacheEntry.h:837), the cache counts it twice for ever, and the bitmap of the image is reset under the first user |
| `NoTileShared` | `CA_Entries` | the path of a new file is made of the number of files there are (Engine/Cache.h:710): after `clear()` it is the path of one that lives |
| `TilesAreInCache` | `CA_Entries` | the tile remembered for the next allocation may be in a file that `clear()` has taken off the list |

These were seen by reading, on paths the models leave out:

* images: the render window shrinks with a proxy only
  (Engine/EffectInstance.cpp:2281, against 2224 and 2351); a render that had
  nothing to do itself returns its image as good after a wait that failed
  (Engine/EffectInstanceRenderRoI.cpp:2235); an identity whose input fails
  leaves its pixels marked as being rendered (Engine/EffectInstance.cpp:2459).
* processes: `ProcessInputChannel::run()` uses a pipe that is null when the GUI
  took more than five seconds to connect (Engine/ProcessHandler.cpp:344), which
  the model has as `CrashWithoutPipe`; a handler is destroyed inside its own
  signal (Engine/AppInstance.cpp:1747).
* blocking renders: `blockingRender()` returns at once when the number of threads
  is -1 (Engine/BlockingBackgroundRender.cpp:62).
* cache: `RamBuffer::resize()` sets its count before it allocates, so an entry
  whose allocation failed subtracts from the size what was never added
  (Engine/CacheEntry.h:99); `removeEntry()` of an entry removes the first one of
  its key (Engine/Cache.h:1478); `isWorking()` does not see the entry in the
  deleter's hands (line 841); the deleter unlocks its mutex twice when it quits
  (line 161); restoring compares with a tile size that is zero for a cache
  without tiles.
