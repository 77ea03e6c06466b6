-------------------------- MODULE OutputScheduler --------------------------
(***************************************************************************)
(* Engine/OutputSchedulerThread.cpp: the thread that renders a range of    *)
(* frames with a pool of render threads.                                   *)
(*                                                                         *)
(* With the policy FFA (DefaultScheduler, for writers) the render threads  *)
(* write the frames themselves and the scheduler only counts them.  With   *)
(* the policy Ordered (ViewerDisplayScheduler) they append each frame to a *)
(* buffer from which the scheduler processes the one it expects next.      *)
(*                                                                         *)
(* Each step is what a thread does under one mutex, or between two; the    *)
(* abort flag and the request for a render are those of the                *)
(* GenericSchedulerThread this class derives from.                         *)
(***************************************************************************)
EXTENDS FrameSequence, FiniteSets

CONSTANTS
    Policy,         \* getSchedulingPolicy()
    Bounds,         \* the ranges the timeline may have, <<first, last>>
    StartFrames,    \* where the timeline may be when a render starts
    Playbacks,      \* what may be rendered, see PlaybackType
    StartDirection,
    Threads,        \* names of render threads; more than ever live at once
    OtherThreads,   \* how many other threads of the application may run
    HardwareThreads,
    StallLimit,     \* NATRON_SCHEDULER_ABORT_AFTER_X_UNSUCCESSFUL_ITERATIONS
    MaxRenders, MaxRangeChanges,    \* bounds on the clients' calls
    NoFrame, Scheduler

Frames == UNION {b[1] .. b[2] : b \in Bounds}
Actors == Threads \cup {Scheduler}

PlaybackType == [mode : Modes,              \* getPlaybackMode()
                 failing : SUBSET Frames,   \* frames whose render fails
                 silent : SUBSET Frames,    \* frames the viewer has nothing new to show for
                 parallel : SUBSET Nat,     \* what the user sets the number of renders to
                 aborts : Nat]              \* bound on the aborts

ASSUME SchedulerAssumption ==
    /\ Policy \in {"FFA", "Ordered"}
    /\ Playbacks # {} /\ Playbacks \subseteq PlaybackType
    /\ StartDirection \in Directions
    /\ Bounds # {} /\ \A b \in Bounds : b \in Int \X Int /\ b[1] <= b[2]
    /\ StartFrames \subseteq Frames
    /\ IsFiniteSet(Threads) /\ Scheduler \notin Threads /\ NoFrame \notin Frames
    /\ HardwareThreads \in Nat \ {0}
    /\ OtherThreads \subseteq Nat /\ OtherThreads # {}
    /\ StallLimit \in Nat \ {0} /\ {MaxRenders, MaxRangeChanges} \subseteq Nat

VARIABLES
    playback,           \* what is played, which does not change
    bounds,             \* the range of the timeline
    args,               \* runArgs: the range and the two directions
    framesToRender, lastFramePushed,
    expectFrameToRender,
    buf,                \* how many images of each frame are buffered
    fakeFrames,         \* null frames in the buffer
    nFramesRendered, renderFinished,
    renderThreads,      \* the threads in the list
    mustQuit, hasQuit,  \* flags of each render thread
    running,            \* threads that notified they are running
    abortRequested,

    rpc,                \* where each render thread is
    frameOf,            \* the frame it picked
    decision,           \* what an actor is about to do in adjustNumberOfThreads()
    spc,                \* where the scheduler is
    finished,           \* its local renderFinished
    taken,              \* the frame it took from the buffer
    nThreads,           \* its local newNThreads
    previous,           \* expectedTimeToRenderPreviousIteration
    stalled,            \* nbIterationsWithoutProcessing
    awaited,            \* the threads it waits for
    aborter,            \* where the thread calling abort is

    rendered,           \* history: how often each frame was written (FFA)
    processed,          \* history: the last frame processed (Ordered)
    renders, aborts, rangeChanges   \* counters for the bounds

workVars   == <<args, framesToRender, lastFramePushed, expectFrameToRender>>
bufVars    == <<buf, fakeFrames>>
countVars  == <<nFramesRendered, renderFinished>>
threadVars == <<renderThreads, mustQuit, hasQuit, running, rpc, frameOf>>
schedVars  == <<spc, finished, taken, nThreads, previous, stalled, awaited>>
boundVars  == <<playback, bounds, renders, aborts, rangeChanges>>
histVars   == <<rendered, processed>>
vars == <<workVars, bufVars, countVars, threadVars, schedVars, boundVars, histVars,
          abortRequested, decision, aborter>>

Mode == playback.mode
Failing == playback.failing
Silent == playback.silent

RenderLabels == {"none", "begin", "take", "asleep", "got", "render", "notify", "fake",
                 "adjust", "act", "wakeall", "fail", "failwake", "done", "quit",
                 "leaving", "gone"}
SchedLabels == {"idle", "start", "adjust0", "act0", "push0", "top", "empty", "take",
                "adjust", "act", "wakeall", "push", "process", "resolve", "decide",
                "waiting", "clear", "flag", "stopwake", "copy", "join", "over"}
AdjustChoices == {"none", "start", "stop", "keep"}

TypeOK ==
    /\ playback \in Playbacks /\ bounds \in Bounds
    /\ args \in [first : Int, last : Int, push : Directions, process : Directions]
    /\ framesToRender \in Seq(Frames)
    /\ lastFramePushed \in Frames \cup {NoFrame}
    /\ expectFrameToRender \in Frames \cup {NoFrame}
    /\ buf \in [Frames -> Nat] /\ fakeFrames \in Nat
    /\ nFramesRendered \in Nat /\ renderFinished \in BOOLEAN
    /\ renderThreads \subseteq Threads /\ running \subseteq Threads
    /\ mustQuit \subseteq Threads /\ hasQuit \subseteq Threads
    /\ rpc \in [Threads -> RenderLabels]
    /\ frameOf \in [Threads -> Frames \cup {NoFrame}]
    /\ decision \in [Actors -> AdjustChoices]
    /\ spc \in SchedLabels /\ finished \in BOOLEAN
    /\ taken \in Frames \cup {NoFrame} /\ nThreads \in Int
    /\ previous \in Frames \cup {NoFrame} /\ stalled \in 0 .. StallLimit /\ awaited \subseteq Threads
    /\ abortRequested \in BOOLEAN /\ aborter \in {"idle", "wake"}
    /\ rendered \in [Frames -> 0 .. 2] /\ processed \in Frames \cup {NoFrame}

Init ==
    /\ playback \in Playbacks /\ bounds \in Bounds
    /\ args = [first |-> bounds[1], last |-> bounds[2],
               push |-> StartDirection, process |-> StartDirection]
    /\ framesToRender = <<>> /\ lastFramePushed = NoFrame
    /\ expectFrameToRender = NoFrame
    /\ buf = [f \in Frames |-> 0] /\ fakeFrames = 0
    /\ nFramesRendered = 0 /\ renderFinished = FALSE
    /\ renderThreads = {} /\ running = {} /\ mustQuit = {} /\ hasQuit = {}
    /\ abortRequested = FALSE /\ aborter = "idle"
    /\ rpc = [t \in Threads |-> "none"] /\ frameOf = [t \in Threads |-> NoFrame]
    /\ decision = [a \in Actors |-> "none"]
    /\ spc = "idle" /\ finished = FALSE /\ taken = NoFrame /\ nThreads = 0
    /\ previous = NoFrame /\ stalled = 0 /\ awaited = {}
    /\ rendered = [f \in Frames |-> 0] /\ processed = NoFrame
    /\ renders = 0 /\ aborts = 0 /\ rangeChanges = 0

-----------------------------------------------------------------------------
(* Wait conditions.  A thread is woken only if it is already waiting.      *)

(* bufEmptyCondition.wakeOne(): only the scheduler waits on it *)
WakeScheduler == spc' = IF spc = "waiting" THEN "top" ELSE spc

(* framesToRenderNotEmptyCond.wakeAll() *)
WakeOne(pcs) == IF \E t \in Threads : pcs[t] = "asleep"
                  THEN [pcs EXCEPT ![CHOOSE t \in Threads : pcs[t] = "asleep"] = "take"]
                  ELSE pcs
WakeAll_None(pcs) == pcs
WakeAll(pcs) == [t \in Threads |-> IF pcs[t] = "asleep" THEN "take" ELSE pcs[t]]

BufferEmpty == fakeFrames = 0 /\ \A f \in Frames : buf[f] = 0
Buffered    == UNION {{f} \X (1 .. buf[f]) : f \in Frames}
BufferSize  == Cardinality(Buffered) + fakeFrames

-----------------------------------------------------------------------------
(* adjustNumberOfThreads(), by the scheduler and by the render threads: the *)
(* numbers are read first, the list changes later.                         *)

AdjustChoice(runningThreads, currentParallelRenders, optimal) ==
    IF \/ runningThreads < optimal /\ currentParallelRenders < optimal
       \/ currentParallelRenders = 0
      THEN "start"
      ELSE IF runningThreads > optimal /\ currentParallelRenders > optimal
             THEN "stop" ELSE "keep"

(* "User wants it to be automatically computed" when the setting is 0 *)
OptimalNThreads(setting) == IF setting = 0 THEN HardwareThreads ELSE setting

NewNThreads(choice, currentParallelRenders) ==
    CASE choice = "start" -> currentParallelRenders + 1
      [] choice = "stop"  -> currentParallelRenders - 1
      [] choice = "keep"  -> IF currentParallelRenders > 1
                               THEN currentParallelRenders ELSE 1

ReadThreadCounts(a) ==
    \E other \in OtherThreads, setting \in playback.parallel :
        decision' = [decision EXCEPT ![a] =
            AdjustChoice(Cardinality(running) + other, Cardinality(renderThreads),
                         OptimalNThreads(setting))]

(* appendRunnable(createRunnable()) *)
FreeThreads == {t \in Threads : rpc[t] \in {"none", "gone"}}
                   \ (renderThreads \cup awaited)
AppendRunnable(pcs) ==
    /\ FreeThreads # {}         \* bound: the names of threads
    /\ LET t == CHOOSE t \in FreeThreads : TRUE
       IN /\ renderThreads' = renderThreads \cup {t}
          /\ rpc' = [pcs EXCEPT ![t] = "begin"]
          /\ mustQuit' = mustQuit \ {t} /\ hasQuit' = hasQuit \ {t}

(* stopRenderThreads(1): flags a thread not flagged yet, and removes those *)
(* that have quit from the list.                                           *)
StopOneThread ==
    /\ \/ \E t \in renderThreads \ mustQuit : mustQuit' = mustQuit \cup {t}
       \/ renderThreads \subseteq mustQuit /\ UNCHANGED mustQuit
    /\ renderThreads' = renderThreads \ hasQuit
    /\ UNCHANGED hasQuit

-----------------------------------------------------------------------------
(* The frames pushed to the render threads *)

(* pushFramesToRenderInternal(): from a frame on, until the queue holds    *)
(* two frames per thread or the range is over.                             *)
StepAfter(s) ==
    NextFrameInSequence(Mode, s.direction, s.frame, args.first, args.last, 1)
Walk(from) ==
    LET walk[k \in Nat] == IF k = 0 THEN from ELSE StepAfter(walk[k - 1])
    IN walk
Steps(room, from) ==
    LET walk   == Walk(from)
        length == Cardinality({k \in 1 .. room : \A j \in 1 .. k : walk[j - 1].canContinue})
    IN [k \in 1 .. length |-> walk[k - 1]]

PushFrom(frame, push, n) ==
    LET room == 2 * (IF n <= 0 THEN 1 ELSE n) - Len(framesToRender)
    IN \E steps \in {IF args.first = args.last THEN <<GoTo(frame, push)>>
                     ELSE Steps(room, GoTo(frame, push))} :
          /\ framesToRender' = framesToRender \o [i \in DOMAIN steps |-> steps[i].frame]
          /\ lastFramePushed' = IF steps = <<>> THEN lastFramePushed
                                ELSE steps[Len(steps)].frame
          /\ args' = [args EXCEPT !.push = IF steps = <<>> THEN push
                                           ELSE steps[Len(steps)].direction]

(* pushFramesToRender(nThreads): from the frame after the last one pushed  *)
PushMoreFrames ==
    LET next == NextFrameInSequence(Mode, args.push, lastFramePushed, args.first,
                                    args.last, 1)
    IN IF args.first = args.last /\ lastFramePushed = args.first
         THEN UNCHANGED <<framesToRender, lastFramePushed, args, rpc>>
         ELSE /\ rpc' = WakeAll(rpc)
              /\ IF next.canContinue
                   THEN PushFrom(next.frame, next.direction, nThreads)
                   ELSE UNCHANGED <<framesToRender, lastFramePushed, args>>

IsBufferFull_Never == FALSE
IsBufferFull == BufferSize >= 3 * HardwareThreads

-----------------------------------------------------------------------------
(* The scheduler: startRender() *)

(* renderFrameRange() or renderFromCurrentFrame(), then startTask() *)
RenderFrameRange ==
    /\ spc = "idle" /\ renders < MaxRenders
    /\ renders' = renders + 1
    /\ args' = [first |-> bounds[1], last |-> bounds[2],
                push |-> StartDirection, process |-> StartDirection]
    /\ IF Policy = "FFA" THEN nFramesRendered' = 0 /\ renderFinished' = FALSE
                         ELSE UNCHANGED countVars
    /\ rendered' = [f \in Frames |-> 0] /\ processed' = NoFrame
    /\ spc' = "start"
    /\ finished' = FALSE /\ previous' = NoFrame /\ stalled' = 0 /\ taken' = NoFrame
    /\ UNCHANGED <<framesToRender, lastFramePushed, expectFrameToRender, bufVars,
                   threadVars, nThreads, awaited, playback, bounds, aborts, rangeChanges,
                   abortRequested, decision, aborter>>

StartRender ==
    /\ spc = "start"
    /\ renderThreads' = renderThreads \ hasQuit
    /\ nThreads' = Cardinality(renderThreads')
    /\ spc' = IF renderThreads' = {} THEN "adjust0" ELSE "push0"
    /\ UNCHANGED <<workVars, bufVars, countVars, mustQuit, hasQuit, running, rpc,
                   frameOf, finished, taken, previous, stalled, awaited, boundVars,
                   histVars, abortRequested, decision, aborter>>

PushFirstFrames ==
    /\ spc = "push0"
    /\ \E frame \in StartFrames :
        /\ expectFrameToRender' = frame
        /\ IF Policy = "FFA"
             THEN /\ framesToRender' = framesToRender
                       \o AllFrameRange(args.push, args.first, args.last, 1)
                  /\ UNCHANGED <<lastFramePushed, args>>
             ELSE PushFrom(frame, args.push, nThreads)
    /\ rpc' = WakeAll(rpc)
    /\ spc' = "top"
    /\ UNCHANGED <<bufVars, countVars, renderThreads, mustQuit, hasQuit, running,
                   frameOf, finished, taken, nThreads, previous, stalled, awaited,
                   boundVars, histVars, abortRequested, decision, aborter>>

(* adjustNumberOfThreads() by the scheduler, when it starts and each time  *)
(* it takes a frame.                                                       *)
SchedulerAdjust ==
    /\ spc \in {"adjust0", "adjust"}
    /\ ReadThreadCounts(Scheduler)
    /\ nThreads' = NewNThreads(decision'[Scheduler], Cardinality(renderThreads))
    /\ spc' = IF spc = "adjust0" THEN "act0" ELSE "act"
    /\ UNCHANGED <<workVars, bufVars, countVars, threadVars, finished, taken, previous,
                   stalled, awaited, boundVars, histVars, abortRequested, aborter>>

AfterAdjust == IF spc = "act0" THEN "push0" ELSE "push"
SchedulerAct ==
    /\ spc \in {"act0", "act"}
    /\ decision' = [decision EXCEPT ![Scheduler] = "none"]
    /\ \/ /\ decision[Scheduler] = "start"
          /\ AppendRunnable(rpc) /\ spc' = AfterAdjust
       \/ /\ decision[Scheduler] = "stop"
          /\ StopOneThread /\ spc' = "wakeall" /\ UNCHANGED rpc
       \/ /\ decision[Scheduler] = "keep"
          /\ spc' = AfterAdjust
          /\ UNCHANGED <<renderThreads, mustQuit, hasQuit, rpc>>
    /\ UNCHANGED <<workVars, bufVars, countVars, running, frameOf, finished, taken,
                   nThreads, previous, stalled, awaited, boundVars, histVars,
                   abortRequested, aborter>>

SchedulerWakeAll ==
    /\ spc = "wakeall"
    /\ rpc' = WakeAll(rpc) /\ spc' = "push"
    /\ UNCHANGED <<workVars, bufVars, countVars, renderThreads, mustQuit, hasQuit,
                   running, frameOf, finished, taken, nThreads, previous, stalled,
                   awaited, boundVars, histVars, abortRequested, decision, aborter>>

-----------------------------------------------------------------------------
(* The scheduler: the loop of threadLoopOnce() *)

ReadRenderFinished ==
    /\ spc = "top"
    /\ finished' = renderFinished /\ spc' = "empty"
    /\ UNCHANGED <<workVars, bufVars, countVars, threadVars, taken, nThreads, previous,
                   stalled, awaited, boundVars, histVars, abortRequested, decision,
                   aborter>>

ReadBufferEmpty ==
    /\ spc = "empty"
    /\ spc' = IF BufferEmpty THEN "resolve" ELSE "take"
    /\ UNCHANGED <<workVars, bufVars, countVars, threadVars, finished, taken, nThreads,
                   previous, stalled, awaited, boundVars, histVars, abortRequested,
                   decision, aborter>>

GiveUp(stalls) ==
    /\ finished' = TRUE /\ stalled' = stalls /\ spc' = "resolve"
    /\ UNCHANGED <<args, expectFrameToRender, buf, taken, previous>>

WaitForExpected(stalls) ==
    /\ previous' = expectFrameToRender /\ stalled' = stalls /\ spc' = "resolve"
    /\ UNCHANGED <<args, expectFrameToRender, buf, taken, finished>>

(* The frame after the expected one, in the range the timeline has now *)
NextExpected_Pushed ==
    NextFrameInSequence(Mode, args.process, lastFramePushed, bounds[1], bounds[2], 1)
NextExpected ==
    IF bounds[1] = bounds[2] /\ Mode = "Once"
      THEN Finished(expectFrameToRender, "Forward")
      ELSE NextFrameInSequence(Mode, args.process, expectFrameToRender, bounds[1],
                               bounds[2], 1)

TakeExpected(stalls) ==
    /\ taken' = expectFrameToRender
    /\ buf' = [buf EXCEPT ![expectFrameToRender] = @ - 1]
    /\ stalled' = stalls
    /\ IF finished
         THEN spc' = "process" /\ UNCHANGED <<args, expectFrameToRender, finished>>
         ELSE /\ args' = [args EXCEPT !.first = bounds[1], !.last = bounds[2],
                                      !.process = NextExpected.direction]
              /\ finished' = ~NextExpected.canContinue
              /\ expectFrameToRender' = NextExpected.frame
              /\ spc' = IF finished' THEN "process" ELSE "adjust"
    /\ UNCHANGED previous

TakeFromBuffer == buf[expectFrameToRender] > 0

TakeFrame ==
    /\ spc = "take"
    /\ LET stalls == IF previous = expectFrameToRender THEN stalled + 1 ELSE 0
       IN IF abortRequested THEN GiveUp(stalled)
          ELSE IF previous = expectFrameToRender /\ stalls >= StallLimit
                 THEN GiveUp(stalls)
          ELSE IF TakeFromBuffer THEN TakeExpected(stalls) ELSE WaitForExpected(stalls)
    /\ UNCHANGED <<framesToRender, lastFramePushed, fakeFrames, countVars, threadVars,
                   nThreads, awaited, boundVars, histVars, abortRequested, decision,
                   aborter>>

PushUnlessBufferFull ==
    /\ spc = "push"
    /\ IF IsBufferFull
         THEN UNCHANGED <<framesToRender, lastFramePushed, args, rpc>>
         ELSE PushMoreFrames
    /\ spc' = "process"
    /\ UNCHANGED <<expectFrameToRender, bufVars, countVars, renderThreads, mustQuit,
                   hasQuit, running, frameOf, finished, taken, nThreads, previous,
                   stalled, awaited, boundVars, histVars, abortRequested, decision,
                   aborter>>

(* processFrame(), here or on the main thread, unless the render is aborted *)
ProcessFrame ==
    /\ spc = "process"
    /\ IF abortRequested
         THEN finished' = TRUE /\ spc' = "resolve" /\ UNCHANGED <<processed, previous>>
         ELSE /\ processed' = taken /\ previous' = taken
              /\ spc' = IF BufferEmpty THEN "resolve" ELSE "take"
              /\ UNCHANGED finished
    /\ taken' = NoFrame
    /\ UNCHANGED <<workVars, bufVars, countVars, threadVars, nThreads, stalled, awaited,
                   boundVars, rendered, abortRequested, decision, aborter>>

ResolveState ==
    /\ spc = "resolve"
    /\ finished' = (finished \/ abortRequested) /\ spc' = "decide"
    /\ UNCHANGED <<workVars, bufVars, countVars, threadVars, taken, nThreads, previous,
                   stalled, awaited, boundVars, histVars, abortRequested, decision,
                   aborter>>

(* The buffer is not looked at again before the wait *)
WaitOrStop ==
    /\ spc = "decide"
    /\ spc' = IF finished THEN "clear" ELSE "waiting"
    /\ UNCHANGED <<workVars, bufVars, countVars, threadVars, finished, taken, nThreads,
                   previous, stalled, awaited, boundVars, histVars, abortRequested,
                   decision, aborter>>

-----------------------------------------------------------------------------
(* The scheduler: stopRender() *)

ClearWork ==
    /\ spc = "clear"
    /\ framesToRender' = <<>> /\ spc' = "flag"
    /\ UNCHANGED <<args, lastFramePushed, expectFrameToRender, bufVars, countVars,
                   threadVars, finished, taken, nThreads, previous, stalled, awaited,
                   boundVars, histVars, abortRequested, decision, aborter>>

(* stopRenderThreads(0) *)
FlaggedToQuit_Idle == {t \in renderThreads : rpc[t] = "asleep"}
FlaggedToQuit == renderThreads

FlagAllThreads ==
    /\ spc = "flag"
    /\ mustQuit' = mustQuit \cup FlaggedToQuit
    /\ renderThreads' = renderThreads \ hasQuit
    /\ spc' = "stopwake"
    /\ UNCHANGED <<workVars, bufVars, countVars, hasQuit, running, rpc, frameOf, finished,
                   taken, nThreads, previous, stalled, awaited, boundVars, histVars,
                   abortRequested, decision, aborter>>

WakeAllThreads ==
    /\ spc = "stopwake"
    /\ rpc' = WakeAll(rpc) /\ spc' = "copy"
    /\ UNCHANGED <<workVars, bufVars, countVars, renderThreads, mustQuit, hasQuit,
                   running, frameOf, finished, taken, nThreads, previous, stalled,
                   awaited, boundVars, histVars, abortRequested, decision, aborter>>

(* waitForRenderThreadsToQuit() *)
CopyThreads ==
    /\ spc = "copy"
    /\ awaited' = renderThreads /\ spc' = "join"
    /\ UNCHANGED <<workVars, bufVars, countVars, threadVars, finished, taken, nThreads,
                   previous, stalled, boundVars, histVars, abortRequested, decision,
                   aborter>>

JoinThreads ==
    /\ spc = "join" /\ \A t \in awaited : rpc[t] = "gone"
    /\ renderThreads' = renderThreads \ hasQuit
    /\ awaited' = {} /\ spc' = "over"
    /\ UNCHANGED <<workVars, bufVars, countVars, mustQuit, hasQuit, running, rpc, frameOf,
                   finished, taken, nThreads, previous, stalled, boundVars, histVars,
                   abortRequested, decision, aborter>>

(* The end of stopRender(); the GenericSchedulerThread then resets the     *)
(* abort request.                                                          *)
ClearBuffer == buf' = [f \in Frames |-> 0]

StopRender ==
    /\ spc = "over"
    /\ ClearBuffer /\ fakeFrames' = 0
    /\ abortRequested' = FALSE
    /\ spc' = "idle"
    /\ UNCHANGED <<workVars, countVars, threadVars, finished, taken, nThreads, previous,
                   stalled, awaited, boundVars, histVars, decision, aborter>>

SchedulerStep ==
    \/ StartRender \/ SchedulerAdjust \/ SchedulerAct \/ SchedulerWakeAll
    \/ PushFirstFrames \/ ReadRenderFinished \/ ReadBufferEmpty \/ TakeFrame
    \/ PushUnlessBufferFull \/ ProcessFrame \/ ResolveState \/ WaitOrStop
    \/ ClearWork \/ FlagAllThreads \/ WakeAllThreads \/ CopyThreads \/ JoinThreads
    \/ StopRender

-----------------------------------------------------------------------------
(* A render thread: RenderThreadTask::run() and renderFrame() *)

At(t, label) == rpc[t] = label
Move(t, label) == rpc' = [rpc EXCEPT ![t] = label]
schedulerKeeps == <<finished, taken, nThreads, previous, stalled, awaited, boundVars,
                    aborter, processed>>

BeginRun(t) ==
    /\ At(t, "begin")
    /\ running' = running \cup {t} /\ Move(t, "take")
    /\ UNCHANGED <<workVars, bufVars, countVars, renderThreads, mustQuit, hasQuit,
                   frameOf, spc, schedulerKeeps, rendered, abortRequested, decision>>

(* pickFrameToRender() *)
QueueWithoutFront == Tail(framesToRender)

PickFrame(t) ==
    /\ At(t, "take")
    /\ IF framesToRender # <<>>
         THEN /\ frameOf' = [frameOf EXCEPT ![t] = Head(framesToRender)]
              /\ framesToRender' = QueueWithoutFront
              /\ running' = running \cup {t} /\ Move(t, "got")
         ELSE /\ running' = running \ {t}
              /\ Move(t, IF t \in mustQuit THEN "quit" ELSE "asleep")
              /\ UNCHANGED <<frameOf, framesToRender>>
    /\ UNCHANGED <<args, lastFramePushed, expectFrameToRender, bufVars, countVars,
                   renderThreads, mustQuit, hasQuit, spc, schedulerKeeps, rendered,
                   abortRequested, decision>>

(* run() leaves with the frame it picked when it must quit *)
CheckMustQuit(t) ==
    /\ At(t, "got")
    /\ IF t \in mustQuit
         THEN Move(t, "quit") /\ frameOf' = [frameOf EXCEPT ![t] = NoFrame]
         ELSE Move(t, "render") /\ UNCHANGED frameOf
    /\ UNCHANGED <<workVars, bufVars, countVars, renderThreads, mustQuit, hasQuit,
                   running, spc, schedulerKeeps, rendered, abortRequested, decision>>

RenderFrameFFA(t) ==
    /\ At(t, "render") /\ Policy = "FFA" /\ frameOf[t] \notin Failing
    /\ rendered' = [rendered EXCEPT ![frameOf[t]] = IF @ = 2 THEN 2 ELSE @ + 1]
    /\ Move(t, "notify")
    /\ UNCHANGED <<workVars, bufVars, countVars, renderThreads, mustQuit, hasQuit,
                   running, frameOf, spc, schedulerKeeps, abortRequested, decision>>

RenderFrameOrdered(t) ==
    /\ At(t, "render") /\ Policy = "Ordered" /\ frameOf[t] \notin Failing \cup Silent
    /\ buf' = [buf EXCEPT ![frameOf[t]] = @ + 1]
    /\ WakeScheduler /\ Move(t, "done")
    /\ UNCHANGED <<workVars, fakeFrames, countVars, renderThreads, mustQuit, hasQuit,
                   running, frameOf, schedulerKeeps, rendered, abortRequested, decision>>

(* The viewer has nothing to show: renderFrame() returns without a frame *)
RenderNothing(t) ==
    /\ At(t, "render") /\ Policy = "Ordered" /\ frameOf[t] \in Silent
    /\ Move(t, "done")
    /\ UNCHANGED <<workVars, bufVars, countVars, renderThreads, mustQuit, hasQuit,
                   running, frameOf, spc, schedulerKeeps, rendered, abortRequested,
                   decision>>

RenderFails(t) ==
    /\ At(t, "render") /\ (frameOf[t] \in Failing \/ abortRequested)
    /\ Move(t, "fail")
    /\ UNCHANGED <<workVars, bufVars, countVars, renderThreads, mustQuit, hasQuit,
                   running, frameOf, spc, schedulerKeeps, rendered, abortRequested,
                   decision>>

(* notifyRenderFailure(): abort, then wake the scheduler *)
AbortOnFailure(t) ==
    /\ At(t, "fail")
    /\ abortRequested' = TRUE /\ Move(t, "failwake")
    /\ UNCHANGED <<workVars, bufVars, countVars, renderThreads, mustQuit, hasQuit,
                   running, frameOf, spc, schedulerKeeps, rendered, decision>>

WakeOnFailure(t) ==
    /\ At(t, "failwake")
    /\ WakeScheduler /\ Move(t, "done")
    /\ UNCHANGED <<workVars, bufVars, countVars, renderThreads, mustQuit, hasQuit,
                   running, frameOf, schedulerKeeps, rendered, abortRequested, decision>>

(* notifyFrameRendered(), policy FFA *)
AllRendered_Early(n) == n >= args.last - args.first
AllRendered(n) == n = TotalFrames(args.first, args.last, 1)

CountFrame(t) ==
    /\ At(t, "notify")
    /\ nFramesRendered' = nFramesRendered + 1
    /\ IF AllRendered(nFramesRendered')
         THEN renderFinished' = TRUE /\ Move(t, "fake")
         ELSE UNCHANGED renderFinished /\ Move(t, "adjust")
    /\ UNCHANGED <<workVars, bufVars, renderThreads, mustQuit, hasQuit, running, frameOf,
                   spc, schedulerKeeps, rendered, abortRequested, decision>>

AppendFakeFrame(t) ==
    /\ At(t, "fake")
    /\ fakeFrames' = fakeFrames + 1
    /\ WakeScheduler /\ Move(t, "done")
    /\ UNCHANGED <<workVars, buf, countVars, renderThreads, mustQuit, hasQuit, running,
                   frameOf, schedulerKeeps, rendered, abortRequested, decision>>

RenderThreadAdjust(t) ==
    /\ At(t, "adjust")
    /\ ReadThreadCounts(t) /\ Move(t, "act")
    /\ UNCHANGED <<workVars, bufVars, countVars, renderThreads, mustQuit, hasQuit,
                   running, frameOf, spc, schedulerKeeps, rendered, abortRequested>>

RenderThreadAct(t) ==
    /\ At(t, "act")
    /\ decision' = [decision EXCEPT ![t] = "none"]
    /\ \/ /\ decision[t] = "start"
          /\ AppendRunnable([rpc EXCEPT ![t] = "done"])
       \/ /\ decision[t] = "stop"
          /\ StopOneThread /\ Move(t, "wakeall")
       \/ /\ decision[t] = "keep"
          /\ Move(t, "done") /\ UNCHANGED <<renderThreads, mustQuit, hasQuit>>
    /\ UNCHANGED <<workVars, bufVars, countVars, running, frameOf, spc, schedulerKeeps,
                   rendered, abortRequested>>

RenderThreadWakeAll(t) ==
    /\ At(t, "wakeall")
    /\ rpc' = [WakeAll(rpc) EXCEPT ![t] = "done"]
    /\ UNCHANGED <<workVars, bufVars, countVars, renderThreads, mustQuit, hasQuit,
                   running, frameOf, spc, schedulerKeeps, rendered, abortRequested,
                   decision>>

FrameDone(t) ==
    /\ At(t, "done")
    /\ frameOf' = [frameOf EXCEPT ![t] = NoFrame]
    /\ Move(t, IF t \in mustQuit THEN "quit" ELSE "take")
    /\ UNCHANGED <<workVars, bufVars, countVars, renderThreads, mustQuit, hasQuit,
                   running, spc, schedulerKeeps, rendered, abortRequested, decision>>

Quit(t) ==
    /\ At(t, "quit")
    /\ hasQuit' = hasQuit \cup {t} /\ running' = running \ {t}
    /\ Move(t, "leaving")
    /\ UNCHANGED <<workVars, bufVars, countVars, renderThreads, mustQuit, frameOf, spc,
                   schedulerKeeps, rendered, abortRequested, decision>>

(* notifyThreadAboutToQuit(), and the QThread is over *)
Leave(t) ==
    /\ At(t, "leaving")
    /\ Move(t, "gone")
    /\ UNCHANGED <<workVars, bufVars, countVars, renderThreads, mustQuit, hasQuit,
                   running, frameOf, spc, schedulerKeeps, rendered, abortRequested,
                   decision>>

RenderThreadStep(t) ==
    \/ BeginRun(t) \/ PickFrame(t) \/ CheckMustQuit(t) \/ RenderFrameFFA(t)
    \/ RenderFrameOrdered(t) \/ RenderNothing(t) \/ RenderFails(t)
    \/ AbortOnFailure(t) \/ WakeOnFailure(t) \/ CountFrame(t) \/ AppendFakeFrame(t)
    \/ RenderThreadAdjust(t) \/ RenderThreadAct(t) \/ RenderThreadWakeAll(t)
    \/ FrameDone(t) \/ Quit(t) \/ Leave(t)

-----------------------------------------------------------------------------
(* The clients *)

(* abortThreadedTask() while the scheduler works, then onAbortRequested() *)
AbortRendering ==
    /\ aborter = "idle" /\ aborts < playback.aborts /\ spc # "idle"
    /\ abortRequested' = TRUE /\ aborts' = aborts + 1 /\ aborter' = "wake"
    /\ UNCHANGED <<workVars, bufVars, countVars, threadVars, schedVars, playback, bounds,
                   renders, rangeChanges, histVars, decision>>

OnAbortRequested ==
    /\ aborter = "wake" /\ aborter' = "idle"
    /\ WakeScheduler
    /\ UNCHANGED <<workVars, bufVars, countVars, threadVars, finished, taken, nThreads,
                   previous, stalled, awaited, boundVars, histVars, abortRequested,
                   decision>>

ChangeRange ==
    /\ rangeChanges < MaxRangeChanges
    /\ bounds' \in Bounds \ {bounds}
    /\ rangeChanges' = rangeChanges + 1
    /\ UNCHANGED <<workVars, bufVars, countVars, threadVars, schedVars, playback, renders,
                   aborts, histVars, abortRequested, decision, aborter>>

Next == \/ RenderFrameRange \/ AbortRendering \/ OnAbortRequested \/ ChangeRange
        \/ SchedulerStep
        \/ \E t \in Threads : RenderThreadStep(t)

Spec == Init /\ [][Next]_vars

(* Every thread is scheduled: a thread that is not waiting goes on *)
FairSpec == Spec /\ WF_vars(SchedulerStep) /\ WF_vars(OnAbortRequested)
                 /\ \A t \in Threads : WF_vars(RenderThreadStep(t))

-----------------------------------------------------------------------------
(* Properties *)

InHand == {t \in Threads : rpc[t] \in {"got", "render", "notify"}}
FramesInHand == {frameOf[t] : t \in InHand}
Queued == {framesToRender[i] : i \in DOMAIN framesToRender}
Rendering == spc \notin {"idle", "start", "adjust0", "act0", "push0"}
Stopping  == spc \in {"clear", "flag", "stopwake", "copy", "join", "over"}

(* framesToRenderNotEmptyCond: no render thread sleeps on a frame to render *)
NoThreadSleepsOnWork ==
    framesToRender # <<>> => \A t \in Threads : rpc[t] # "asleep"

(* Each frame of a free-for-all render is written at most once, and each   *)
(* one of the range has been when the render is reported finished:         *)
(* nFramesRendered counts them.                                            *)
FramesRenderedOnce ==
    /\ \A f \in Frames : rendered[f] <= 1
    /\ Policy = "FFA" /\ renderFinished =>
          \A f \in args.first .. args.last : rendered[f] = 1

(* eSchedulingPolicyOrdered: "frames will be rendered in order".           *)
ProcessedInOrder ==
    [][ /\ processed' # processed /\ processed # NoFrame /\ processed' # NoFrame
        => \E d \in Directions :
             NextFrameInSequence(Mode, d, processed, args.first, args.last, 1).frame
               = processed' ]_vars

(* The frames pushed are the frames expected: the frame the scheduler      *)
(* waits for is queued, being rendered, or in the buffer, unless it failed,*)
(* or was in the hands of a thread that was asked to quit.                 *)
ExpectedFrameIsComing ==
    /\ Policy = "Ordered" /\ spc \in {"top", "empty", "take", "resolve", "decide",
                                      "waiting"}
    /\ ~finished /\ ~abortRequested
    => \/ expectFrameToRender \in Queued \cup FramesInHand
       \/ buf[expectFrameToRender] > 0
       \/ expectFrameToRender \in Failing \cup Silent
       \/ \E m, n \in playback.parallel : m < n

(* isBufferFull(): "limit the size of the internal buffer": what waits to  *)
(* be rendered or processed is bounded.                                    *)
BufferIsBounded ==
    LET n == Cardinality(Threads)
    IN BufferSize + Len(framesToRender) + Cardinality(InHand) <= 3 * HardwareThreads + 3 * n

(* stopRender() leaves nothing behind for the next render.                 *)
StoppedIsClean ==
    spc = "idle" => /\ framesToRender = <<>> /\ BufferEmpty /\ ~abortRequested
                    /\ \A t \in Threads : rpc[t] \in {"none", "leaving", "gone"}

(* The state of the scheduler is one the code may be in, its buffer is     *)
(* bounded, and a stopped one is empty.                                    *)
BufferInv == TypeOK /\ BufferIsBounded /\ StoppedIsClean

(* stopRender() returns: every render thread it waits for quits.           *)
StopReturns == (spc = "clear") ~> (spc = "idle")

(* A free-for-all render finishes: "Notify the scheduler rendering is      *)
(* finished by append a fake frame to the buffer".                         *)
RenderFinishes == (spc = "top") ~> Stopping

-----------------------------------------------------------------------------
(* What the docs and comments of the code say and the code does not keep; *)
(* section 9 of the README gives the instances that show it.             *)

(* Until the render stops, each frame of a free-for-all render is queued,  *)
(* in the hands of a render thread, or written ("let the threads deal with *)
(* it").                                                                   *)
NoFrameIsLost ==
    Policy = "FFA" /\ Rendering /\ ~Stopping /\ ~abortRequested =>
        \A f \in args.first .. args.last :
            f \in Queued \cup FramesInHand \/ rendered[f] > 0

(* Until the render stops, some thread is left to render the queue: "at    *)
(* least 1" is what adjustNumberOfThreads() keeps.                         *)
SomeThreadStays ==
    Rendering /\ ~Stopping => \E t \in renderThreads : t \notin mustQuit

(* stopRender(): "Wait for all render threads to be done".                 *)
AllThreadsAreOver == spc = "idle" => \A t \in Threads : rpc[t] \in {"none", "gone"}

(* waitForRenderThreadsToQuit(): assert( renderThreads.empty() ).          *)
AllThreadsHaveQuit == spc = "over" => renderThreads = {}

(* An abort stops the render: onAbortRequested() wakes the scheduler "if   *)
(* [it] is asleep waiting for the buffer to be filling up".                *)
AbortStopsRender == (abortRequested /\ spc = "waiting") ~> (spc # "waiting")
=============================================================================
