----------------------- MODULE OutputScheduler_proofs -----------------------
(* Theorems about OutputScheduler, for any threads, frames and playbacks,  *)
(* and about Playback, whose steps are those of the same loop.             *)
EXTENDS OutputScheduler, Playback, Subsequences_proofs, SequenceTheorems, FiniteSetTheorems, TLAPS

USE SchedulerAssumption

-----------------------------------------------------------------------------
(* Where the render threads are *)

LabelsOK == rpc \in [Threads -> RenderLabels]

(* A thread that runs is in the list and has not quit: whatever            *)
(* stopRenderThreads() removes from the list is leaving.                   *)
Working == {t \in Threads : rpc[t] \notin {"none", "leaving", "gone"}}
AliveInv == LabelsOK /\ Working \subseteq renderThreads \ hasQuit

(* Between stopRender() and the next push the queue is empty, and after    *)
(* the join nobody has a frame.                                            *)
Drained == spc \in {"flag", "stopwake", "copy", "join", "over", "idle", "start",
                    "adjust0", "act0", "push0"}
Joined  == spc \in {"over", "idle", "start", "adjust0", "act0", "push0"}
Pushing == spc \in {"start", "adjust0", "act0", "push0"}

DrainInv ==
    /\ Drained => framesToRender = <<>>
    /\ spc = "join" => InHand \subseteq awaited
    /\ Joined => InHand = {}

(* The scheduler of a free-for-all render takes nothing from the buffer,   *)
(* so it never adjusts the threads nor pushes frames again.                *)
CountsOnlyInv ==
    /\ buf \in [Frames -> {0}]
    /\ spc \in {"top", "empty", "take", "resolve", "decide", "waiting"}
         => expectFrameToRender \in Frames
    /\ spc = "adjust0" => renderThreads = {}
    /\ decision \in [Actors -> AdjustChoices]
    /\ spc = "act0" => decision[Scheduler] = "start"
    /\ spc \notin {"adjust", "act", "wakeall", "push", "process"}

-----------------------------------------------------------------------------
(* Where the frames of a free-for-all render are *)

Interval  == args.first .. args.last
Carrying  == {t \in Threads : rpc[t] \in {"got", "render"}}
Notifying == {t \in Threads : rpc[t] = "notify"}
Written   == {f \in Frames : rendered[f] = 1}
NotCounted == {frameOf[t] : t \in Notifying}

(* A frame waits in the queue once, or one thread carries it, or it is     *)
(* written.                                                                *)
PlacesInv ==
    /\ args.first \in Int /\ args.last \in Int /\ Interval \subseteq Frames
    /\ args.first <= args.last /\ bounds \in Bounds
    /\ rendered \in [Frames -> {0, 1}] /\ Written \subseteq Interval
    /\ framesToRender \in Seq(Interval)
    /\ \A i, j \in DOMAIN framesToRender :
          framesToRender[i] = framesToRender[j] => i = j
    /\ Queued \cap Written = {}
    /\ frameOf \in [Threads -> Frames \cup {NoFrame}]
    /\ \A t \in Carrying : frameOf[t] \in Interval \ (Queued \cup Written)
    /\ \A t, u \in Carrying : frameOf[t] = frameOf[u] => t = u
    /\ Pushing => Written = {}

(* nFramesRendered counts the written frames, but those about to be        *)
(* notified.                                                               *)
CountInv ==
    /\ NotCounted \subseteq Written
    /\ \A t, u \in Notifying : frameOf[t] = frameOf[u] => t = u
    /\ nFramesRendered = Cardinality(Written \ NotCounted)
    /\ renderFinished => Written = Interval

FFAInv == IF Policy = "FFA" THEN CountsOnlyInv /\ PlacesInv /\ CountInv
                            ELSE rendered \in [Frames -> {0}]
IInv == AliveInv /\ DrainInv /\ FFAInv

(* After ProcessFrame the scheduler expects the frame after the processed  *)
(* one, or the same; from TakeFrame on, the frame after the one in hand.   *)
FollowsIn(mode, first, last, f, g) ==
    f = g \/ \E d \in Directions :
                NextFrameInSequence(mode, d, f, first, last, 1).frame = g
Follows(f, g) == FollowsIn(Mode, args.first, args.last, f, g)
HasTaken == spc \in {"adjust", "act", "wakeall", "push", "process"}
Looking  == \/ spc \in {"top", "empty", "take", "waiting"}
            \/ spc \in {"resolve", "decide"} /\ ~finished
SequenceInv ==
    /\ HasTaken /\ taken # NoFrame =>
         /\ processed # NoFrame => Follows(processed, taken)
         /\ Follows(taken, expectFrameToRender)
    /\ Looking /\ processed # NoFrame => Follows(processed, expectFrameToRender)
    /\ Pushing => processed = NoFrame /\ taken = NoFrame

(* The two ends of the render are those of a timeline nobody changes.      *)
RangeInv ==
    /\ {"first", "last", "push", "process"} \subseteq DOMAIN args
    /\ args.first = bounds[1] /\ args.last = bounds[2] /\ bounds \in Bounds
    /\ args.process \in Directions
    /\ playback \in Playbacks /\ rangeChanges = 0

-----------------------------------------------------------------------------
(* Waking and sleeping *)

(* framesToRenderNotEmptyCond.wakeAll() leaves no thread asleep.           *)
LEMMA WakeAllWakes ==
  ASSUME LabelsOK
  PROVE  /\ WakeAll(rpc) \in [Threads -> RenderLabels]
         /\ \A t \in Threads : WakeAll(rpc)[t] # "asleep"
         /\ \A t \in Threads :
              WakeAll(rpc)[t] = IF rpc[t] = "asleep" THEN "take" ELSE rpc[t]
<1>1. "take" \in RenderLabels
  BY DEF RenderLabels
<1>. QED
  BY <1>1 DEF LabelsOK, WakeAll

(* A new thread is one that was not there.                                 *)
LEMMA NewThread ==
  ASSUME NEW pcs, AppendRunnable(pcs)
  PROVE  \E u \in FreeThreads :
           /\ renderThreads' = renderThreads \cup {u}
           /\ rpc' = [pcs EXCEPT ![u] = "begin"]
           /\ mustQuit' = mustQuit \ {u} /\ hasQuit' = hasQuit \ {u}
<1>. DEFINE u == CHOOSE t \in FreeThreads : TRUE
<1>1. FreeThreads # {} /\ u \in FreeThreads
  BY DEF AppendRunnable
<1>. QED
  BY <1>1 DEF AppendRunnable

(* What the scheduler does to the threads.                                 *)
LEMMA SchedulerMovesThreads ==
  ASSUME SchedulerStep
  PROVE  /\ \/ UNCHANGED rpc
            \/ rpc' = WakeAll(rpc)
            \/ \E u \in FreeThreads : rpc' = [rpc EXCEPT ![u] = "begin"]
         /\ framesToRender' # framesToRender /\ framesToRender' # <<>>
              => rpc' = WakeAll(rpc)
<1>1. CASE SchedulerAct
  BY <1>1, NewThread DEF SchedulerAct, StopOneThread, workVars
<1>2. CASE PushFirstFrames
  BY <1>2 DEF PushFirstFrames
<1>3. CASE PushUnlessBufferFull
  BY <1>3 DEF PushUnlessBufferFull, PushMoreFrames
<1>4. CASE ~SchedulerAct /\ ~PushFirstFrames /\ ~PushUnlessBufferFull
  BY <1>4 DEF SchedulerStep, StartRender, SchedulerAdjust, SchedulerWakeAll,
     ReadRenderFinished, ReadBufferEmpty, TakeFrame, ProcessFrame, ResolveState,
     WaitOrStop, ClearWork, FlagAllThreads, WakeAllThreads, CopyThreads, JoinThreads,
     StopRender, workVars, threadVars
<1>. QED
  BY <1>1, <1>2, <1>3, <1>4

(* A render thread moves itself, starts another thread, or wakes them all. *)
LEMMA RenderThreadMoves ==
  ASSUME NEW t \in Threads, RenderThreadStep(t)
  PROVE  \/ \E l \in RenderLabels : Move(t, l)
         \/ At(t, "act") /\ \E u \in FreeThreads :
               rpc' = [[rpc EXCEPT ![t] = "done"] EXCEPT ![u] = "begin"]
         \/ At(t, "wakeall") /\ rpc' = [WakeAll(rpc) EXCEPT ![t] = "done"]
<1>0. {"take", "asleep", "got", "render", "notify", "fake", "adjust", "act", "wakeall",
       "fail", "failwake", "done", "quit", "leaving", "gone"} \subseteq RenderLabels
  BY DEF RenderLabels
<1>1. CASE \/ BeginRun(t) \/ RenderFrameFFA(t) \/ RenderFrameOrdered(t)
           \/ RenderNothing(t) \/ RenderFails(t) \/ AbortOnFailure(t)
           \/ WakeOnFailure(t) \/ AppendFakeFrame(t) \/ RenderThreadAdjust(t)
           \/ Quit(t) \/ Leave(t)
  BY <1>0, <1>1 DEF BeginRun, RenderFrameFFA, RenderFrameOrdered, RenderNothing,
     RenderFails, AbortOnFailure, WakeOnFailure, AppendFakeFrame, RenderThreadAdjust,
     Quit, Leave
<1>2. CASE PickFrame(t)
  <2>1. Move(t, "got") \/ Move(t, IF t \in mustQuit THEN "quit" ELSE "asleep")
    BY <1>2 DEF PickFrame
  <2>. QED
    BY <1>0, <2>1
<1>3. CASE CheckMustQuit(t)
  BY <1>0, <1>3 DEF CheckMustQuit
<1>4. CASE CountFrame(t)
  BY <1>0, <1>4 DEF CountFrame
<1>5. CASE FrameDone(t)
  <2>1. Move(t, IF t \in mustQuit THEN "quit" ELSE "take")
    BY <1>5 DEF FrameDone
  <2>. QED
    BY <1>0, <2>1
<1>6. CASE RenderThreadAct(t)
  <2>1. At(t, "act")
    BY <1>6 DEF RenderThreadAct
  <2>2. CASE AppendRunnable([rpc EXCEPT ![t] = "done"])
    BY <2>1, <2>2, NewThread
  <2>3. CASE Move(t, "wakeall") \/ Move(t, "done")
    BY <1>0, <2>3
  <2>. QED
    BY <1>6, <2>2, <2>3 DEF RenderThreadAct
<1>7. CASE RenderThreadWakeAll(t)
  BY <1>7 DEF RenderThreadWakeAll
<1>. QED
  BY <1>1, <1>2, <1>3, <1>4, <1>5, <1>6, <1>7 DEF RenderThreadStep

(* It sleeps only on an empty queue, and only takes from the queue.        *)
LEMMA SleepsOnEmptyQueue ==
  ASSUME LabelsOK, NEW t \in Threads, RenderThreadStep(t)
  PROVE  /\ \/ UNCHANGED framesToRender
            \/ PickFrame(t) /\ framesToRender # <<>>
         /\ Move(t, "asleep") => framesToRender' = <<>>
<1> USE DEF Move, LabelsOK
<1>1. CASE \/ BeginRun(t) \/ RenderFrameFFA(t) \/ RenderFrameOrdered(t)
           \/ RenderNothing(t) \/ RenderFails(t) \/ AbortOnFailure(t)
           \/ WakeOnFailure(t) \/ AppendFakeFrame(t) \/ RenderThreadAdjust(t)
           \/ Quit(t) \/ Leave(t) \/ CheckMustQuit(t) \/ CountFrame(t) \/ FrameDone(t)
  BY <1>1 DEF BeginRun, RenderFrameFFA, RenderFrameOrdered, RenderNothing,
     RenderFails, AbortOnFailure, WakeOnFailure, AppendFakeFrame, RenderThreadAdjust,
     Quit, Leave, CheckMustQuit, CountFrame, FrameDone, workVars
<1>2. CASE PickFrame(t)
  BY <1>2 DEF PickFrame
<1>3. CASE RenderThreadAct(t)
  <2>1. UNCHANGED framesToRender /\ At(t, "act")
    BY <1>3 DEF RenderThreadAct, workVars
  <2>2. CASE AppendRunnable([rpc EXCEPT ![t] = "done"])
    <3>1. PICK u \in FreeThreads : rpc' = [[rpc EXCEPT ![t] = "done"] EXCEPT ![u] = "begin"]
      BY <2>2, NewThread
    <3>2. u # t
      BY <2>1 DEF FreeThreads, At
    <3>3. rpc'[t] # "asleep"
      BY <3>1, <3>2 DEF FreeThreads
    <3>. QED
      BY <2>1, <3>3
  <2>3. CASE Move(t, "wakeall") \/ Move(t, "done")
    BY <2>1, <2>3
  <2>. QED
    BY <1>3, <2>2, <2>3 DEF RenderThreadAct
<1>4. CASE RenderThreadWakeAll(t)
  <2>1. rpc' = [WakeAll(rpc) EXCEPT ![t] = "done"] /\ UNCHANGED framesToRender
    BY <1>4 DEF RenderThreadWakeAll, workVars
  <2>2. rpc'[t] = "done"
    BY <2>1, WakeAllWakes
  <2>. QED
    BY <2>1, <2>2
<1>. QED
  BY <1>1, <1>2, <1>3, <1>4 DEF RenderThreadStep

(* Nobody else touches the threads or the queue.                           *)
LEMMA ClientsMoveNobody ==
  ASSUME RenderFrameRange \/ AbortRendering \/ OnAbortRequested \/ ChangeRange
  PROVE  UNCHANGED <<threadVars, framesToRender, bufVars, decision>>
BY DEF RenderFrameRange, AbortRendering, OnAbortRequested, ChangeRange, workVars

(* NoThreadSleepsOnWork: a render thread goes to sleep with the mutex of   *)
(* an empty queue, and who fills the queue wakes them all.                 *)
THEOREM NoThreadSleeps == Spec => []NoThreadSleepsOnWork
<1>. DEFINE Inv == LabelsOK /\ NoThreadSleepsOnWork
<1>1. Init => Inv
  BY DEF Init, LabelsOK, NoThreadSleepsOnWork, RenderLabels
<1>2. ASSUME Inv, SchedulerStep PROVE Inv'
  <2>1. CASE rpc' = WakeAll(rpc)
    BY <1>2, <2>1, WakeAllWakes DEF LabelsOK, NoThreadSleepsOnWork
  <2>2. CASE UNCHANGED rpc
    BY <1>2, <2>2, SchedulerMovesThreads, WakeAllWakes DEF LabelsOK, NoThreadSleepsOnWork
  <2>3. ASSUME NEW u \in FreeThreads, rpc' = [rpc EXCEPT ![u] = "begin"] PROVE Inv'
    <3>1. rpc' \in [Threads -> RenderLabels] /\ u \in Threads
          /\ \A t \in Threads : rpc'[t] = "asleep" => rpc[t] = "asleep"
      BY <1>2, <2>3 DEF LabelsOK, RenderLabels, FreeThreads
    <3>. QED
      BY <1>2, <3>1, SchedulerMovesThreads, WakeAllWakes DEF LabelsOK, NoThreadSleepsOnWork
  <2>. QED
    BY <1>2, <2>1, <2>2, <2>3, SchedulerMovesThreads
<1>3. ASSUME Inv, NEW t \in Threads, RenderThreadStep(t) PROVE Inv'
  <2>1. /\ framesToRender' = framesToRender \/ framesToRender # <<>>
        /\ Move(t, "asleep") => framesToRender' = <<>>
    BY <1>3, SleepsOnEmptyQueue
  <2>2. ASSUME NEW l \in RenderLabels, Move(t, l) PROVE Inv'
    BY <1>3, <2>1, <2>2 DEF LabelsOK, NoThreadSleepsOnWork, Move
  <2>3. ASSUME NEW u \in FreeThreads,
               rpc' = [[rpc EXCEPT ![t] = "done"] EXCEPT ![u] = "begin"]
        PROVE  Inv'
    <3>1. "done" \in RenderLabels /\ "begin" \in RenderLabels
      BY DEF RenderLabels
    <3>2. \A v \in Threads : rpc'[v] = "asleep" => rpc[v] = "asleep"
      BY <1>3, <2>3 DEF LabelsOK, FreeThreads
    <3>3. rpc' \in [Threads -> RenderLabels]
      BY <1>3, <2>3, <3>1 DEF LabelsOK
    <3>. QED
      BY <1>3, <2>1, <3>2, <3>3 DEF LabelsOK, NoThreadSleepsOnWork
  <2>4. ASSUME rpc' = [WakeAll(rpc) EXCEPT ![t] = "done"] PROVE Inv'
    <3>1. "done" \in RenderLabels
      BY DEF RenderLabels
    <3>2. rpc' \in [Threads -> RenderLabels] /\ \A v \in Threads : rpc'[v] # "asleep"
      BY <1>3, <2>4, <3>1, WakeAllWakes
    <3>. QED
      BY <3>2 DEF LabelsOK, NoThreadSleepsOnWork
  <2>. QED
    BY <1>3, <2>2, <2>3, <2>4, RenderThreadMoves
<1>4. Inv /\ [Next]_vars => Inv'
  <2>1. ASSUME Inv, UNCHANGED <<threadVars, framesToRender>> PROVE Inv'
    BY <2>1 DEF LabelsOK, NoThreadSleepsOnWork, threadVars
  <2>2. UNCHANGED vars => UNCHANGED <<threadVars, framesToRender>>
    BY DEF vars, workVars
  <2>. QED
    BY <1>2, <1>3, <2>1, <2>2, ClientsMoveNobody DEF Next
<1>. QED
  BY <1>1, <1>4, PTL DEF Spec

-----------------------------------------------------------------------------
(* The order of the frames                                                 *)

(* getNextFrameInSequence() gives a direction.                             *)
LEMMA NextDirection ==
  ASSUME NEW mode \in Modes, NEW d \in Directions, NEW f, NEW first, NEW last
  PROVE  NextFrameInSequence(mode, d, f, first, last, 1).direction \in Directions
<1>1. \A g, e : GoTo(g, e).direction = e /\ Finished(g, e).direction = e
  BY DEF GoTo, Finished
<1>2. AtFirstFrame(mode, d, f, first, last, 1).direction \in Directions
  BY <1>1 DEF AtFirstFrame, Modes, Directions
<1>3. AtLastFrame(mode, d, f, first, last, 1).direction \in Directions
  BY <1>1 DEF AtLastFrame, Modes, Directions
<1>. QED
  BY <1>1, <1>2, <1>3 DEF NextFrameInSequence

(* The frame after the expected one follows it.                            *)
LEMMA NextFollows ==
  ASSUME RangeInv
  PROVE  /\ NextExpected.direction \in Directions
         /\ Follows(expectFrameToRender, NextExpected.frame)
<1>1. Mode \in Modes
  BY DEF RangeInv, Mode, PlaybackType
<1>2. CASE bounds[1] = bounds[2] /\ Mode = "Once"
  <2>1. NextExpected = Finished(expectFrameToRender, "Forward")
    BY <1>2 DEF NextExpected
  <2>. QED
    BY <2>1 DEF Finished, Follows, FollowsIn, Directions
<1>3. CASE ~(bounds[1] = bounds[2] /\ Mode = "Once")
  <2>1. NextExpected = NextFrameInSequence(Mode, args.process, expectFrameToRender,
                                           args.first, args.last, 1)
    BY <1>3 DEF NextExpected, RangeInv
  <2>. QED
    BY <1>1, <2>1, NextDirection DEF RangeInv, Follows, FollowsIn
<1>. QED
  BY <1>2, <1>3

(* The range is that of a timeline nobody changes, whoever pushes frames.  *)
LEMMA RangeKept ==
  ASSUME MaxRangeChanges = 0, RangeInv, [Next]_vars
  PROVE  /\ RangeInv'
         /\ args'.first = args.first /\ args'.last = args.last /\ Mode' = Mode
         /\ UNCHANGED <<bounds, playback>>
<1>1. UNCHANGED <<bounds, rangeChanges, playback>>
  <2>1. ~ChangeRange
    BY DEF ChangeRange, RangeInv
  <2>2. CASE SchedulerStep
    BY <2>2 DEF SchedulerStep, StartRender, SchedulerAdjust, SchedulerAct,
       SchedulerWakeAll, PushFirstFrames, ReadRenderFinished, ReadBufferEmpty, TakeFrame,
       PushUnlessBufferFull, ProcessFrame, ResolveState, WaitOrStop, ClearWork,
       FlagAllThreads, WakeAllThreads, CopyThreads, JoinThreads, StopRender, boundVars
  <2>3. ASSUME NEW t \in Threads, RenderThreadStep(t)
        PROVE  UNCHANGED <<bounds, rangeChanges, playback>>
    BY <2>3 DEF RenderThreadStep, BeginRun, PickFrame, CheckMustQuit, RenderFrameFFA,
       RenderFrameOrdered, RenderNothing, RenderFails, AbortOnFailure, WakeOnFailure,
       CountFrame, AppendFakeFrame, RenderThreadAdjust, RenderThreadAct,
       RenderThreadWakeAll, FrameDone, Quit, Leave, schedulerKeeps, boundVars
  <2>4. CASE RenderFrameRange \/ AbortRendering \/ OnAbortRequested \/ UNCHANGED vars
    BY <2>4 DEF RenderFrameRange, AbortRendering, OnAbortRequested, vars, boundVars
  <2>. QED
    BY <2>1, <2>2, <2>3, <2>4 DEF Next
<1>2. \/ UNCHANGED args
      \/ \E x : args' = [args EXCEPT !.push = x]
      \/ args' = [args EXCEPT !.first = bounds[1], !.last = bounds[2],
                              !.process = NextExpected.direction]
      \/ args' = [first |-> bounds[1], last |-> bounds[2],
                  push |-> StartDirection, process |-> StartDirection]
  <2>1. CASE PushFirstFrames
    BY <2>1 DEF PushFirstFrames, PushFrom
  <2>2. CASE PushUnlessBufferFull
    BY <2>2 DEF PushUnlessBufferFull, PushMoreFrames, PushFrom
  <2>3. CASE TakeFrame
    BY <2>3 DEF TakeFrame, GiveUp, WaitForExpected, TakeExpected
  <2>4. CASE SchedulerStep /\ ~PushFirstFrames /\ ~PushUnlessBufferFull /\ ~TakeFrame
    BY <2>4 DEF SchedulerStep, StartRender, SchedulerAdjust, SchedulerAct,
       SchedulerWakeAll, ReadRenderFinished, ReadBufferEmpty,
       ProcessFrame, ResolveState, WaitOrStop, ClearWork,
       FlagAllThreads, WakeAllThreads, CopyThreads, JoinThreads, StopRender, workVars
  <2>5. ASSUME NEW t \in Threads, RenderThreadStep(t) PROVE UNCHANGED args
    BY <2>5 DEF RenderThreadStep, BeginRun, PickFrame, CheckMustQuit, RenderFrameFFA,
       RenderFrameOrdered, RenderNothing, RenderFails, AbortOnFailure, WakeOnFailure,
       CountFrame, AppendFakeFrame, RenderThreadAdjust, RenderThreadAct,
       RenderThreadWakeAll, FrameDone, Quit, Leave, workVars
  <2>6. CASE RenderFrameRange \/ AbortRendering \/ OnAbortRequested \/ ChangeRange
               \/ UNCHANGED vars
    BY <2>6 DEF RenderFrameRange, AbortRendering, OnAbortRequested, ChangeRange, vars,
       workVars
  <2>. QED
    BY <2>1, <2>2, <2>3, <2>4, <2>5, <2>6 DEF Next
<1>3. /\ {"first", "last", "push", "process"} \subseteq DOMAIN args'
      /\ args'.first = args.first /\ args'.last = args.last /\ args'.process \in Directions
  <2>0. NextExpected.direction \in Directions
    BY NextFollows
  <2>1. CASE UNCHANGED args
    BY <2>1 DEF RangeInv
  <2>2. ASSUME NEW x, args' = [args EXCEPT !.push = x]
        PROVE  /\ {"first", "last", "push", "process"} \subseteq DOMAIN args'
               /\ args'.first = args.first /\ args'.last = args.last
               /\ args'.process \in Directions
    BY <2>2 DEF RangeInv
  <2>3. CASE args' = [args EXCEPT !.first = bounds[1], !.last = bounds[2],
                                  !.process = NextExpected.direction]
    BY <2>0, <2>3 DEF RangeInv
  <2>4. CASE args' = [first |-> bounds[1], last |-> bounds[2],
                      push |-> StartDirection, process |-> StartDirection]
    BY <2>4 DEF RangeInv
  <2>. QED
    BY <1>2, <2>1, <2>2, <2>3, <2>4
<1>. QED
  BY <1>1, <1>3 DEF RangeInv, Mode

(* ProcessedInOrder, for a range nobody changes: each frame processed is   *)
(* the one processed before, or its successor in the sequence, however     *)
(* late and in whatever order the render threads append frames.            *)
THEOREM ProcessesInOrder ==
  ASSUME MaxRangeChanges = 0
  PROVE  Spec => ProcessedInOrder
<1> DEFINE Inv == RangeInv /\ SequenceInv
<1>1. Init => Inv
  <2> SUFFICES ASSUME Init PROVE Inv
    OBVIOUS
  <2>1. RangeInv
    BY DEF Init, RangeInv
  <2>2. SequenceInv
    BY DEF Init, SequenceInv, HasTaken, Looking, Pushing
  <2>. QED
    BY <2>1, <2>2
<1>2. ASSUME Inv, [Next]_vars PROVE SequenceInv'
  <2>1. \A f, g : FollowsIn(Mode', args'.first, args'.last, f, g) <=> Follows(f, g)
    BY <1>2, RangeKept DEF Follows
  <2>2. \A f : Follows(f, f)
    BY DEF Follows, FollowsIn
  <2>3. Follows(expectFrameToRender, NextExpected.frame)
    BY <1>2, NextFollows
  <2>4. CASE TakeFrame
    <3>1. spc = "take" /\ UNCHANGED processed
      BY <2>4 DEF TakeFrame, histVars
    <3>2. CASE \E stalls : GiveUp(stalls)
      <4>1. ~HasTaken' /\ ~Looking' /\ ~Pushing'
        BY <3>2 DEF GiveUp, HasTaken, Looking, Pushing
      <4>. QED
        BY <4>1 DEF SequenceInv
    <3>3. CASE \E stalls : WaitForExpected(stalls)
      <4>1. ~HasTaken' /\ Looking /\ ~Pushing' /\ UNCHANGED <<expectFrameToRender, taken>>
        BY <3>1, <3>3 DEF WaitForExpected, HasTaken, Looking, Pushing
      <4>. QED
        BY <1>2, <2>1, <3>1, <4>1 DEF SequenceInv, Follows
    <3>4. CASE \E stalls : TakeExpected(stalls)
      <4>1. HasTaken' /\ Looking /\ ~Looking' /\ ~Pushing' /\ taken' = expectFrameToRender
        BY <3>1, <3>4 DEF TakeExpected, HasTaken, Looking, Pushing
      <4>2. expectFrameToRender' \in {expectFrameToRender, NextExpected.frame}
        BY <3>4 DEF TakeExpected
      <4>. QED
        BY <1>2, <2>1, <2>2, <2>3, <3>1, <4>1, <4>2 DEF SequenceInv, Follows
    <3>. QED
      BY <2>4, <3>2, <3>3, <3>4 DEF TakeFrame
  <2>5. CASE ProcessFrame
    <3>1. /\ HasTaken /\ ~HasTaken' /\ ~Pushing' /\ UNCHANGED expectFrameToRender
          /\ ~Looking' \/ processed' = taken
      BY <2>5 DEF ProcessFrame, HasTaken, Looking, Pushing, workVars
    <3>. QED
      BY <1>2, <2>1, <3>1 DEF SequenceInv, Follows
  <2>6. CASE PushFirstFrames
    <3>1. Pushing /\ ~HasTaken' /\ ~Pushing' /\ UNCHANGED processed
      BY <2>6 DEF PushFirstFrames, HasTaken, Pushing, histVars
    <3>. QED
      BY <1>2, <3>1 DEF SequenceInv
  <2>7. CASE RenderFrameRange
    <3>1. processed' = NoFrame /\ taken' = NoFrame
      BY <2>7 DEF RenderFrameRange
    <3>. QED
      BY <3>1 DEF SequenceInv
  <2>8. CASE /\ UNCHANGED <<processed, taken, expectFrameToRender>>
             /\ HasTaken' => HasTaken \/ Pushing
             /\ Looking' => Looking
             /\ Pushing' => Pushing
    BY <1>2, <2>1, <2>8 DEF SequenceInv, Follows
  <2>9. CASE /\ SchedulerStep /\ ~TakeFrame /\ ~ProcessFrame /\ ~PushFirstFrames
    <3>1. UNCHANGED <<processed, taken, expectFrameToRender>>
      BY <2>9 DEF SchedulerStep, StartRender, SchedulerAdjust, SchedulerAct,
         SchedulerWakeAll, ReadRenderFinished, ReadBufferEmpty, PushUnlessBufferFull,
         ResolveState, WaitOrStop, ClearWork, FlagAllThreads, WakeAllThreads,
         CopyThreads, JoinThreads, StopRender, workVars, histVars
    <3>2. /\ HasTaken' => HasTaken \/ Pushing
          /\ Looking' => Looking
          /\ Pushing' => Pushing
      BY <2>9 DEF SchedulerStep, StartRender, SchedulerAdjust, SchedulerAct, AfterAdjust,
         SchedulerWakeAll, ReadRenderFinished, ReadBufferEmpty, PushUnlessBufferFull,
         ResolveState, WaitOrStop, ClearWork, FlagAllThreads, WakeAllThreads,
         CopyThreads, JoinThreads, StopRender, HasTaken, Looking, Pushing
    <3>. QED
      BY <2>8, <3>1, <3>2
  <2>10. ASSUME NEW t \in Threads, RenderThreadStep(t) PROVE SequenceInv'
    <3>1. /\ UNCHANGED <<processed, taken, expectFrameToRender, finished>>
          /\ UNCHANGED spc \/ WakeScheduler
      BY <2>10 DEF RenderThreadStep, BeginRun, PickFrame, CheckMustQuit, RenderFrameFFA,
         RenderFrameOrdered, RenderNothing, RenderFails, AbortOnFailure, WakeOnFailure,
         CountFrame, AppendFakeFrame, RenderThreadAdjust, RenderThreadAct,
         RenderThreadWakeAll, FrameDone, Quit, Leave, schedulerKeeps, workVars
    <3>. QED
      BY <2>8, <3>1 DEF WakeScheduler, HasTaken, Looking, Pushing
  <2>11. CASE AbortRendering \/ OnAbortRequested \/ ChangeRange \/ UNCHANGED vars
    <3>1. /\ UNCHANGED <<processed, taken, expectFrameToRender, finished>>
          /\ UNCHANGED spc \/ WakeScheduler
      BY <2>11 DEF AbortRendering, OnAbortRequested, ChangeRange, vars, schedVars, workVars,
         histVars
    <3>. QED
      BY <2>8, <3>1 DEF WakeScheduler, HasTaken, Looking, Pushing
  <2>. QED
    BY <1>2, <2>4, <2>5, <2>6, <2>7, <2>9, <2>10, <2>11 DEF Next
<1>3. Inv /\ [Next]_vars => Inv'
  BY <1>2, RangeKept
<1>4. ASSUME Inv, Next, processed' # processed, processed # NoFrame, processed' # NoFrame
      PROVE  \E d \in Directions :
               NextFrameInSequence(Mode, d, processed, args.first, args.last, 1).frame
                 = processed'
  <2>1. ~RenderFrameRange
    BY <1>4 DEF RenderFrameRange
  <2>2. ProcessFrame
    <3>1. ASSUME NEW t \in Threads, RenderThreadStep(t) PROVE UNCHANGED processed
      BY <3>1 DEF RenderThreadStep, BeginRun, PickFrame, CheckMustQuit, RenderFrameFFA,
         RenderFrameOrdered, RenderNothing, RenderFails, AbortOnFailure, WakeOnFailure,
         CountFrame, AppendFakeFrame, RenderThreadAdjust, RenderThreadAct,
         RenderThreadWakeAll, FrameDone, Quit, Leave, schedulerKeeps
    <3>2. ASSUME SchedulerStep, ~ProcessFrame PROVE UNCHANGED processed
      BY <3>2 DEF SchedulerStep, StartRender, SchedulerAdjust, SchedulerAct,
         SchedulerWakeAll, PushFirstFrames, ReadRenderFinished, ReadBufferEmpty, TakeFrame,
         PushUnlessBufferFull, ResolveState, WaitOrStop, ClearWork, FlagAllThreads,
         WakeAllThreads, CopyThreads, JoinThreads, StopRender, histVars
    <3>3. ASSUME AbortRendering \/ OnAbortRequested \/ ChangeRange
          PROVE  UNCHANGED processed
      BY <3>3 DEF AbortRendering, OnAbortRequested, ChangeRange, histVars
    <3>. QED
      BY <1>4, <2>1, <3>1, <3>2, <3>3 DEF Next
  <2>3. HasTaken /\ processed' = taken
    BY <1>4, <2>2 DEF ProcessFrame, HasTaken
  <2>4. Follows(processed, taken)
    BY <1>4, <2>3 DEF SequenceInv
  <2>. QED
    BY <1>4, <2>3, <2>4 DEF Follows, FollowsIn
<1>5. Inv /\ [Next]_vars =>
        [processed' # processed /\ processed # NoFrame /\ processed' # NoFrame
           => \E d \in Directions :
                NextFrameInSequence(Mode, d, processed, args.first, args.last, 1).frame
                  = processed']_vars
  BY <1>4
<1>. QED
  BY <1>1, <1>3, <1>5, PTL DEF Spec, ProcessedInOrder

-----------------------------------------------------------------------------
(* The threads in the list, and the frames in hand                         *)

(* A thread that works is in the list and has not quit.                    *)
LEMMA AliveKept ==
  ASSUME AliveInv, [Next]_vars
  PROVE  AliveInv'
<1> USE DEF AliveInv, LabelsOK, Working
<1>1. CASE UNCHANGED <<rpc, renderThreads, hasQuit>>
  BY <1>1
<1>2. CASE rpc' = WakeAll(rpc) /\ UNCHANGED <<renderThreads, hasQuit>>
  <2>1. \A t \in Threads : rpc'[t] = IF rpc[t] = "asleep" THEN "take" ELSE rpc[t]
    BY <1>2, WakeAllWakes
  <2>2. rpc' \in [Threads -> RenderLabels]
    BY <1>2, WakeAllWakes
  <2>. QED
    BY <1>2, <2>1, <2>2
<1>3. CASE UNCHANGED <<rpc, hasQuit>> /\ renderThreads' = renderThreads \ hasQuit
  BY <1>3
<1>4. ASSUME NEW pcs \in [Threads -> RenderLabels], AppendRunnable(pcs),
             \A t \in Threads : pcs[t] \notin {"none", "leaving", "gone"} => t \in Working
      PROVE  AliveInv'
  <2>1. PICK u \in FreeThreads :
           /\ renderThreads' = renderThreads \cup {u}
           /\ rpc' = [pcs EXCEPT ![u] = "begin"]
           /\ mustQuit' = mustQuit \ {u} /\ hasQuit' = hasQuit \ {u}
    BY <1>4, NewThread
  <2>2. "begin" \in RenderLabels
    BY DEF RenderLabels
  <2>. QED
    BY <1>4, <2>1, <2>2
<1>5. CASE SchedulerStep
  <2>1. CASE SchedulerAct
    BY <1>1, <1>3, <1>4, <2>1 DEF SchedulerAct, StopOneThread
  <2>2. CASE SchedulerStep /\ ~SchedulerAct
    <3>1. \/ UNCHANGED <<rpc, renderThreads, hasQuit>>
          \/ rpc' = WakeAll(rpc) /\ UNCHANGED <<renderThreads, hasQuit>>
          \/ UNCHANGED <<rpc, hasQuit>> /\ renderThreads' = renderThreads \ hasQuit
      BY <2>2 DEF SchedulerStep, StartRender, SchedulerAdjust, SchedulerWakeAll,
         PushFirstFrames, ReadRenderFinished, ReadBufferEmpty, TakeFrame,
         PushUnlessBufferFull, PushMoreFrames, ProcessFrame, ResolveState, WaitOrStop,
         ClearWork, FlagAllThreads, WakeAllThreads, CopyThreads, JoinThreads, StopRender,
         threadVars
    <3>. QED
      BY <1>1, <1>2, <1>3, <3>1
  <2>. QED
    BY <1>5, <2>1, <2>2
<1>6. ASSUME NEW t \in Threads, RenderThreadStep(t) PROVE AliveInv'
  <2>0. /\ {"begin", "take", "asleep", "got", "render", "notify", "fake", "adjust", "act",
             "wakeall", "fail", "failwake", "done", "quit", "leaving", "gone"}
              \subseteq RenderLabels
    BY DEF RenderLabels
  <2>1. ASSUME NEW l \in RenderLabels, Move(t, l), UNCHANGED <<renderThreads, hasQuit>>,
               t \in Working \/ l \in {"leaving", "gone"}
        PROVE  AliveInv'
    BY <2>1 DEF Move
  <2>2. CASE /\ ~RenderThreadAct(t) /\ ~RenderThreadWakeAll(t) /\ ~Quit(t)
    <3>1. UNCHANGED <<renderThreads, hasQuit>>
      BY <1>6, <2>2 DEF RenderThreadStep, BeginRun, PickFrame, CheckMustQuit, RenderFrameFFA,
         RenderFrameOrdered, RenderNothing, RenderFails, AbortOnFailure, WakeOnFailure,
         CountFrame, AppendFakeFrame, RenderThreadAdjust, FrameDone, Leave
    <3>2. t \in Working \/ Leave(t)
      BY <1>6, <2>2 DEF RenderThreadStep, BeginRun, PickFrame, CheckMustQuit, RenderFrameFFA,
         RenderFrameOrdered, RenderNothing, RenderFails, AbortOnFailure, WakeOnFailure,
         CountFrame, AppendFakeFrame, RenderThreadAdjust, FrameDone, At
    <3>3. CASE Leave(t)
      BY <2>0, <2>1, <3>1, <3>3 DEF Leave
    <3>4. CASE \E l \in RenderLabels : Move(t, l)
      BY <2>1, <3>1, <3>2, <3>3, <3>4
    <3>5. CASE \E u \in FreeThreads : At(t, "act")
      BY <1>6, <2>2, <3>5 DEF RenderThreadStep, BeginRun, PickFrame, CheckMustQuit,
         RenderFrameFFA, RenderFrameOrdered, RenderNothing, RenderFails, AbortOnFailure,
         WakeOnFailure, CountFrame, AppendFakeFrame, RenderThreadAdjust, FrameDone, Leave, At
    <3>6. CASE At(t, "wakeall")
      BY <1>6, <2>2, <3>6 DEF RenderThreadStep, BeginRun, PickFrame, CheckMustQuit,
         RenderFrameFFA, RenderFrameOrdered, RenderNothing, RenderFails, AbortOnFailure,
         WakeOnFailure, CountFrame, AppendFakeFrame, RenderThreadAdjust, FrameDone, Leave, At
    <3>. QED
      BY <1>6, <3>4, <3>5, <3>6, RenderThreadMoves
  <2>3. CASE Quit(t)
    BY <2>0, <2>3 DEF Quit, Move
  <2>4. CASE RenderThreadWakeAll(t)
    <3>1. rpc' = [WakeAll(rpc) EXCEPT ![t] = "done"] /\ UNCHANGED <<renderThreads, hasQuit>>
          /\ t \in Working
      BY <2>4 DEF RenderThreadWakeAll, At
    <3>2. WakeAll(rpc) \in [Threads -> RenderLabels]
          /\ \A v \in Threads : WakeAll(rpc)[v] = IF rpc[v] = "asleep" THEN "take" ELSE rpc[v]
      BY WakeAllWakes
    <3>. QED
      BY <2>0, <3>1, <3>2
  <2>5. CASE RenderThreadAct(t)
    <3>1. t \in Working /\ At(t, "act")
      BY <2>5 DEF RenderThreadAct, At
    <3>2. CASE AppendRunnable([rpc EXCEPT ![t] = "done"])
      BY <1>4, <2>0, <3>1, <3>2
    <3>3. CASE StopOneThread /\ Move(t, "wakeall")
      BY <2>0, <3>1, <3>3 DEF StopOneThread, Move
    <3>4. CASE Move(t, "done") /\ UNCHANGED <<renderThreads, hasQuit>>
      BY <2>0, <2>1, <3>1, <3>4
    <3>. QED
      BY <2>5, <3>2, <3>3, <3>4 DEF RenderThreadAct
  <2>. QED
    BY <2>2, <2>3, <2>4, <2>5
<1>7. CASE UNCHANGED vars
  BY <1>1, <1>7 DEF vars, threadVars
<1>8. CASE RenderFrameRange \/ AbortRendering \/ OnAbortRequested \/ ChangeRange
  BY <1>1, <1>8, ClientsMoveNobody DEF threadVars
<1>. QED
  BY <1>5, <1>6, <1>7, <1>8 DEF Next

(* On an empty queue nobody gets a frame.                                  *)
LEMMA NobodyPicks ==
  ASSUME LabelsOK, [Next]_vars, framesToRender = <<>>
  PROVE  InHand' \subseteq InHand
<1> USE DEF LabelsOK, InHand
<1>1. CASE UNCHANGED rpc \/ rpc' = WakeAll(rpc)
  BY <1>1, WakeAllWakes
<1>2. ASSUME NEW u \in FreeThreads, rpc' = [rpc EXCEPT ![u] = "begin"]
      PROVE  InHand' \subseteq InHand
  BY <1>2
<1>3. ASSUME NEW t \in Threads, RenderThreadStep(t) PROVE InHand' \subseteq InHand
  <2>1. ASSUME NEW l \in RenderLabels, Move(t, l), l \notin {"got", "render", "notify"}
        PROVE  InHand' \subseteq InHand
    BY <2>1 DEF Move
  <2>2. CASE PickFrame(t)
    BY <2>2 DEF PickFrame, Move
  <2>3. CASE CheckMustQuit(t) \/ RenderFrameFFA(t)
    BY <2>3 DEF CheckMustQuit, RenderFrameFFA, Move, At
  <2>4. CASE RenderThreadWakeAll(t)
    BY <2>4, WakeAllWakes DEF RenderThreadWakeAll
  <2>5. CASE RenderThreadAct(t)
    <3>1. CASE AppendRunnable([rpc EXCEPT ![t] = "done"])
      <4>1. PICK u \in FreeThreads : rpc' = [[rpc EXCEPT ![t] = "done"] EXCEPT ![u] = "begin"]
        BY <3>1, NewThread
      <4>. QED
        BY <4>1
    <3>. QED
      BY <2>5, <3>1 DEF RenderThreadAct, Move
  <2>6. CASE \/ BeginRun(t) \/ RenderFrameOrdered(t) \/ RenderNothing(t) \/ RenderFails(t)
             \/ AbortOnFailure(t) \/ WakeOnFailure(t) \/ CountFrame(t) \/ AppendFakeFrame(t)
             \/ RenderThreadAdjust(t) \/ FrameDone(t) \/ Quit(t) \/ Leave(t)
    BY <2>6 DEF BeginRun, RenderFrameOrdered, RenderNothing, RenderFails, AbortOnFailure,
       WakeOnFailure, CountFrame, AppendFakeFrame, RenderThreadAdjust, FrameDone, Quit,
       Leave, Move
  <2>. QED
    BY <1>3, <2>2, <2>3, <2>4, <2>5, <2>6 DEF RenderThreadStep
<1>4. CASE SchedulerStep
  BY <1>1, <1>2, <1>4, SchedulerMovesThreads
<1>5. CASE \/ RenderFrameRange \/ AbortRendering \/ OnAbortRequested \/ ChangeRange
           \/ UNCHANGED vars
  BY <1>1, <1>5, ClientsMoveNobody DEF threadVars, vars
<1>. QED
  BY <1>3, <1>4, <1>5 DEF Next

(* The queue is empty and nobody has a frame between two renders: the      *)
(* threads with a frame are among those the scheduler waits for.           *)
LEMMA DrainKept ==
  ASSUME AliveInv, DrainInv, [Next]_vars
  PROVE  DrainInv'
<1>0. /\ framesToRender = <<>> => InHand' \subseteq InHand
      /\ InHand \subseteq renderThreads
  BY NobodyPicks DEF AliveInv, InHand, Working
<1>1. CASE \/ ReadRenderFinished \/ ReadBufferEmpty \/ TakeFrame \/ PushUnlessBufferFull
           \/ ProcessFrame \/ ResolveState \/ WaitOrStop \/ SchedulerWakeAll
           \/ PushFirstFrames
  <2>1. ~Drained' /\ ~Joined' /\ spc' # "join"
    BY <1>1 DEF ReadRenderFinished, ReadBufferEmpty, TakeFrame, GiveUp, WaitForExpected,
       TakeExpected, PushUnlessBufferFull, ProcessFrame, ResolveState, WaitOrStop,
       SchedulerWakeAll, PushFirstFrames, Drained, Joined
  <2>. QED
    BY <2>1 DEF DrainInv
<1>2. CASE ClearWork
  BY <1>2 DEF ClearWork, DrainInv, Drained, Joined
<1>3. CASE CopyThreads
  <2>1. UNCHANGED <<rpc, framesToRender>>
    BY <1>3 DEF CopyThreads, threadVars, workVars
  <2>. QED
    BY <1>0, <1>3, <2>1 DEF CopyThreads, DrainInv, Drained, Joined, InHand
<1>4. CASE JoinThreads
  <2>1. UNCHANGED <<rpc, framesToRender>>
    BY <1>4 DEF JoinThreads, workVars
  <2>2. InHand = {}
    BY <1>4 DEF JoinThreads, DrainInv, InHand
  <2>. QED
    BY <1>4, <2>1, <2>2 DEF JoinThreads, DrainInv, Drained, Joined, InHand
<1>5. CASE \/ RenderFrameRange \/ StartRender \/ SchedulerAdjust \/ SchedulerAct
           \/ FlagAllThreads \/ WakeAllThreads \/ StopRender
  <2>1. UNCHANGED framesToRender
    BY <1>5 DEF RenderFrameRange, StartRender, SchedulerAdjust, SchedulerAct,
       FlagAllThreads, WakeAllThreads, StopRender, workVars
  <2>2. (Drained' => Drained) /\ spc' # "join" /\ (Joined' => Joined)
    BY <1>5 DEF RenderFrameRange, StartRender, SchedulerAdjust, SchedulerAct, AfterAdjust,
       FlagAllThreads, WakeAllThreads, StopRender, Drained, Joined
  <2>3. Joined => Drained
    BY DEF Joined, Drained
  <2>. QED
    BY <1>0, <2>1, <2>2, <2>3 DEF DrainInv
<1>6. CASE /\ UNCHANGED awaited
           /\ UNCHANGED spc \/ WakeScheduler
           /\ UNCHANGED framesToRender \/ framesToRender # <<>>
  <2>1. /\ Drained' => Drained
        /\ Joined' => Joined
        /\ spc' = "join" => spc = "join"
    BY <1>6 DEF WakeScheduler, Drained, Joined
  <2>2. (Joined => Drained) /\ (spc = "join" => Drained)
    BY DEF Joined, Drained
  <2>. QED
    BY <1>0, <1>6, <2>1, <2>2 DEF DrainInv
<1>7. ASSUME NEW t \in Threads, RenderThreadStep(t) PROVE DrainInv'
  <2>1. UNCHANGED framesToRender \/ framesToRender # <<>>
    BY <1>7, SleepsOnEmptyQueue DEF AliveInv
  <2>2. UNCHANGED awaited /\ (UNCHANGED spc \/ WakeScheduler)
    BY <1>7 DEF RenderThreadStep, BeginRun, PickFrame, CheckMustQuit, RenderFrameFFA,
       RenderFrameOrdered, RenderNothing, RenderFails, AbortOnFailure, WakeOnFailure,
       CountFrame, AppendFakeFrame, RenderThreadAdjust, RenderThreadAct,
       RenderThreadWakeAll, FrameDone, Quit, Leave, schedulerKeeps
  <2>. QED
    BY <1>6, <2>1, <2>2
<1>8. CASE AbortRendering \/ OnAbortRequested \/ ChangeRange \/ UNCHANGED vars
  <2>1. UNCHANGED <<awaited, framesToRender>> /\ (UNCHANGED spc \/ WakeScheduler)
    BY <1>8 DEF AbortRendering, OnAbortRequested, ChangeRange, schedVars, vars, workVars
  <2>. QED
    BY <1>6, <2>1
<1>. QED
  BY <1>1, <1>2, <1>3, <1>4, <1>5, <1>7, <1>8 DEF Next, SchedulerStep

(* The scheduler of a free-for-all render only counts: it has nothing to   *)
(* take from the buffer.                                                   *)
LEMMA CountsOnlyKept ==
  ASSUME Policy = "FFA", AliveInv, CountsOnlyInv, [Next]_vars
  PROVE  CountsOnlyInv'
<1>1. CASE StartRender
  BY <1>1 DEF StartRender, CountsOnlyInv, bufVars, workVars
<1>2. CASE SchedulerAdjust
  <2>1. spc = "adjust0" /\ renderThreads = {} /\ spc' = "act0" /\ UNCHANGED buf
    BY <1>2 DEF SchedulerAdjust, CountsOnlyInv, bufVars
  <2>2. Cardinality(renderThreads) = 0
    BY <2>1, FS_EmptySet
  <2>3. \A m, n : AdjustChoice(m, Cardinality(renderThreads), n) = "start"
    BY <2>2 DEF AdjustChoice
  <2>4. decision' = [decision EXCEPT ![Scheduler] = "start"]
    BY <1>2, <2>3 DEF SchedulerAdjust, ReadThreadCounts
  <2>. QED
    BY <2>1, <2>4 DEF CountsOnlyInv, Actors, AdjustChoices
<1>3. CASE SchedulerAct
  <2>1. /\ spc = "act0" /\ spc' = "push0" /\ UNCHANGED buf
        /\ decision' = [decision EXCEPT ![Scheduler] = "none"]
    BY <1>3 DEF SchedulerAct, AfterAdjust, CountsOnlyInv, bufVars
  <2>. QED
    BY <2>1 DEF CountsOnlyInv, AdjustChoices
<1>4. CASE PushFirstFrames
  BY <1>4 DEF PushFirstFrames, CountsOnlyInv, bufVars
<1>5. CASE TakeFrame
  <2>1. ~TakeFromBuffer /\ spc = "take" /\ expectFrameToRender \in Frames
    BY <1>5 DEF TakeFrame, TakeFromBuffer, CountsOnlyInv
  <2>2. \E stalls : GiveUp(stalls) \/ WaitForExpected(stalls)
    BY <1>5, <2>1 DEF TakeFrame
  <2>3. spc' = "resolve" /\ UNCHANGED <<expectFrameToRender, buf, decision>>
    BY <1>5, <2>2 DEF TakeFrame, GiveUp, WaitForExpected
  <2>. QED
    BY <2>1, <2>3 DEF CountsOnlyInv
<1>6. CASE StopRender
  BY <1>6 DEF StopRender, ClearBuffer, CountsOnlyInv
<1>7. CASE /\ UNCHANGED <<buf, expectFrameToRender, decision>>
           /\ spc = "adjust0" /\ spc' = "adjust0" => UNCHANGED renderThreads
           /\ spc' \in {"adjust0", "act0", "adjust", "act", "wakeall", "push", "process"}
                => UNCHANGED spc
           /\ spc' \in {"top", "empty", "take", "resolve", "decide", "waiting"}
                => spc \in {"top", "empty", "take", "resolve", "decide", "waiting"}
  BY <1>7 DEF CountsOnlyInv
<1>8. CASE \/ ReadRenderFinished \/ ReadBufferEmpty \/ ResolveState \/ WaitOrStop
           \/ ClearWork \/ FlagAllThreads \/ WakeAllThreads \/ CopyThreads \/ JoinThreads
           \/ PushUnlessBufferFull \/ ProcessFrame \/ SchedulerWakeAll
  BY <1>8 DEF ReadRenderFinished, ReadBufferEmpty, ResolveState, WaitOrStop,
     ClearWork, FlagAllThreads, WakeAllThreads, CopyThreads, JoinThreads,
     PushUnlessBufferFull, ProcessFrame, SchedulerWakeAll, CountsOnlyInv, workVars, bufVars
<1>9. CASE RenderFrameRange \/ AbortRendering \/ OnAbortRequested \/ ChangeRange
             \/ UNCHANGED vars
  BY <1>7, <1>9 DEF RenderFrameRange, AbortRendering, OnAbortRequested, ChangeRange, vars,
     workVars, bufVars, schedVars, threadVars, WakeScheduler
<1>10. ASSUME NEW t \in Threads, RenderThreadStep(t) PROVE CountsOnlyInv'
  <2>1. UNCHANGED expectFrameToRender /\ (UNCHANGED spc \/ WakeScheduler)
    BY <1>10 DEF RenderThreadStep, BeginRun, PickFrame, CheckMustQuit, RenderFrameFFA,
       RenderFrameOrdered, RenderNothing, RenderFails, AbortOnFailure, WakeOnFailure,
       CountFrame, AppendFakeFrame, RenderThreadAdjust, RenderThreadAct,
       RenderThreadWakeAll, FrameDone, Quit, Leave, workVars
  <2>2. UNCHANGED buf
    BY <1>10 DEF RenderThreadStep, BeginRun, PickFrame, CheckMustQuit, RenderFrameFFA,
       RenderFrameOrdered, RenderNothing, RenderFails, AbortOnFailure, WakeOnFailure,
       CountFrame, AppendFakeFrame, RenderThreadAdjust, RenderThreadAct,
       RenderThreadWakeAll, FrameDone, Quit, Leave, bufVars
  <2>3. /\ decision' \in [Actors -> AdjustChoices]
        /\ decision'[Scheduler] = decision[Scheduler]
    <3>1. UNCHANGED decision \/ \E d \in AdjustChoices : decision' = [decision EXCEPT ![t] = d]
      <4>1. \A m, n, k : AdjustChoice(m, n, k) \in AdjustChoices /\ "none" \in AdjustChoices
        BY DEF AdjustChoice, AdjustChoices
      <4>. QED
        BY <1>10, <4>1 DEF RenderThreadStep, BeginRun, PickFrame, CheckMustQuit,
           RenderFrameFFA, RenderFrameOrdered, RenderNothing, RenderFails, AbortOnFailure,
           WakeOnFailure, CountFrame, AppendFakeFrame, RenderThreadAdjust, RenderThreadAct,
           RenderThreadWakeAll, FrameDone, Quit, Leave, ReadThreadCounts
    <3>2. t \in Actors /\ t # Scheduler
      BY DEF Actors
    <3>3. decision \in [Actors -> AdjustChoices]
      BY DEF CountsOnlyInv
    <3>4. ASSUME NEW d \in AdjustChoices, decision' = [decision EXCEPT ![t] = d]
          PROVE  /\ decision' \in [Actors -> AdjustChoices]
                 /\ decision'[Scheduler] = decision[Scheduler]
      BY <3>2, <3>3, <3>4 DEF Actors
    <3>. QED
      BY <3>1, <3>3, <3>4
  <2>4. renderThreads = {} => UNCHANGED renderThreads
    <3>1. renderThreads = {} => ~RenderThreadAct(t)
      BY DEF AliveInv, Working, RenderThreadAct, At
    <3>. QED
      BY <1>10, <3>1 DEF RenderThreadStep, BeginRun, PickFrame, CheckMustQuit,
         RenderFrameFFA, RenderFrameOrdered, RenderNothing, RenderFails, AbortOnFailure,
         WakeOnFailure, CountFrame, AppendFakeFrame, RenderThreadAdjust,
         RenderThreadWakeAll, FrameDone, Quit, Leave
  <2>. QED
    BY <2>1, <2>2, <2>3, <2>4 DEF CountsOnlyInv, WakeScheduler
<1>. QED
  BY <1>1, <1>2, <1>3, <1>4, <1>5, <1>6, <1>8, <1>9, <1>10 DEF Next, SchedulerStep

-----------------------------------------------------------------------------
(* Each frame of a free-for-all render in one place                        *)

(* pushAllFrameRange() pushes each frame of the range once.                *)
LEMMA AllFramesOnce ==
  ASSUME NEW first \in Int, NEW last \in Int, first <= last, NEW d
  PROVE  LET q == AllFrameRange(d, first, last, 1)
         IN /\ q \in Seq(first .. last)
            /\ \A i, j \in DOMAIN q : q[i] = q[j] => i = j
<1>. DEFINE q == AllFrameRange(d, first, last, 1)
            n == last - first + 1
<1>1. n \in Nat /\ ((last - first) \div 1) + 1 = n
  OBVIOUS
<1>2. \A k \in Int : (k - 1) * 1 = k - 1
  OBVIOUS
<1>3. q = [k \in 1 .. n |-> IF d = "Forward" THEN first + (k - 1) ELSE last - (k - 1)]
  BY <1>1, <1>2 DEF AllFrameRange
<1>4. \A k \in 1 .. n : q[k] \in first .. last
  BY <1>3, SMTT(40)
<1>5. q \in [1 .. n -> first .. last]
  BY <1>3, <1>4
<1>6. q \in Seq(first .. last) /\ DOMAIN q = 1 .. n
  BY <1>1, <1>5, SeqDef
<1>7. \A i, j \in 1 .. n : q[i] = q[j] => i = j
  BY <1>3, SMTT(40)
<1>. QED
  BY <1>6, <1>7

(* pickFrameToRender() takes a frame nobody else will find.                *)
LEMMA PickedFrame ==
  ASSUME NEW S, NEW q \in Seq(S), q # <<>>,
         \A i, j \in DOMAIN q : q[i] = q[j] => i = j
  PROVE  /\ Head(q) \in S /\ Tail(q) \in Seq(S)
         /\ \A i, j \in DOMAIN Tail(q) : Tail(q)[i] = Tail(q)[j] => i = j
         /\ Head(q) \in {q[i] : i \in DOMAIN q}
         /\ {Tail(q)[i] : i \in DOMAIN Tail(q)} \subseteq {q[i] : i \in DOMAIN q} \ {Head(q)}
<1>1. /\ Head(q) = q[1] /\ 1 \in DOMAIN q /\ Head(q) \in S
      /\ Tail(q) \in Seq(S) /\ DOMAIN Tail(q) = 1 .. Len(q) - 1 /\ DOMAIN q = 1 .. Len(q)
      /\ Len(q) \in Nat
      /\ \A i \in 1 .. Len(q) - 1 : Tail(q)[i] = q[i + 1]
  OBVIOUS
<1>2. \A i \in 1 .. Len(q) - 1 : i + 1 \in DOMAIN q /\ i + 1 # 1
  BY <1>1
<1>3. \A i \in 1 .. Len(q) - 1 : Tail(q)[i] # Head(q)
                                 /\ Tail(q)[i] \in {q[k] : k \in DOMAIN q}
  BY <1>1, <1>2
<1>4. \A i, j \in 1 .. Len(q) - 1 : i + 1 = j + 1 => i = j
  BY <1>1
<1>5. \A i, j \in DOMAIN Tail(q) : Tail(q)[i] = Tail(q)[j] => i = j
  BY <1>1, <1>2, <1>4, SMTT(30)
<1>. QED
  BY <1>1, <1>3, <1>5

(* A step that writes no frame, counts none and leaves those in hand where *)
(* they are.                                                               *)
LEMMA PlacesStay ==
  ASSUME PlacesInv, CountInv, UNCHANGED <<args, rendered, nFramesRendered, renderFinished>>,
         bounds' \in Bounds,
         frameOf' \in [Threads -> Frames \cup {NoFrame}],
         framesToRender' \in {framesToRender, <<>>},
         Carrying' \subseteq Carrying, Notifying' = Notifying,
         \A t \in Carrying' \cup Notifying : frameOf'[t] = frameOf[t],
         Pushing' => Pushing
  PROVE  PlacesInv' /\ CountInv'
<1>1. Written' = Written /\ Interval' = Interval
  BY DEF Written, Interval
<1>2. /\ Queued' \subseteq Queued
      /\ framesToRender' \in Seq(Interval)
      /\ \A i, j \in DOMAIN framesToRender' :
            framesToRender'[i] = framesToRender'[j] => i = j
  <2>1. CASE framesToRender' = framesToRender
    BY <2>1 DEF PlacesInv, Queued
  <2>2. CASE framesToRender' = <<>>
    <3>1. DOMAIN framesToRender' = {} /\ framesToRender' \in Seq(Interval)
      BY <2>2
    <3>2. Queued' = {}
      BY <3>1 DEF Queued
    <3>. QED
      BY <3>1, <3>2
  <2>. QED
    BY <2>1, <2>2
<1>3. NotCounted' = NotCounted
  BY DEF NotCounted
<1>4. \A t \in Carrying' : frameOf'[t] \in Interval' \ (Queued' \cup Written')
  BY <1>1, <1>2 DEF PlacesInv
<1>5. \A t, u \in Carrying' : frameOf'[t] = frameOf'[u] => t = u
  BY DEF PlacesInv
<1>6. Queued' \cap Written' = {} /\ (Pushing' => Written' = {})
  BY <1>1, <1>2 DEF PlacesInv
<1>7. PlacesInv'
  BY <1>1, <1>2, <1>4, <1>5, <1>6 DEF PlacesInv
<1>8. \A t, u \in Notifying' : frameOf'[t] = frameOf'[u] => t = u
  BY DEF CountInv
<1>9. CountInv'
  BY <1>1, <1>3, <1>8 DEF CountInv
<1>. QED
  BY <1>7, <1>9

(* A render starts with nothing written and nothing in hand, and its queue *)
(* holds the range once.                                                   *)
LEMMA PlacesAtStart ==
  ASSUME Policy = "FFA", DrainInv, PlacesInv, CountInv, RenderFrameRange \/ PushFirstFrames
  PROVE  PlacesInv' /\ CountInv'
<1>1. /\ framesToRender = <<>> /\ Carrying = {} /\ Notifying = {}
  BY DEF RenderFrameRange, PushFirstFrames, DrainInv, Drained, Joined, InHand, Carrying,
     Notifying
<1>2. CASE RenderFrameRange
  <2>1. /\ UNCHANGED <<rpc, frameOf, framesToRender, bounds>>
        /\ rendered' = [f \in Frames |-> 0]
        /\ args'.first = bounds[1] /\ args'.last = bounds[2]
        /\ nFramesRendered' = 0 /\ renderFinished' = FALSE
    BY <1>2 DEF RenderFrameRange, threadVars
  <2>2. Written' = {} /\ rendered' \in [Frames -> {0, 1}]
    BY <2>1 DEF Written
  <2>3. Carrying' = {} /\ Notifying' = {}
    BY <1>1, <2>1 DEF Carrying, Notifying
  <2>4. NotCounted' = {} /\ Cardinality(Written' \ NotCounted') = 0
    BY <2>2, <2>3, FS_EmptySet DEF NotCounted
  <2>5. CountInv'
    BY <2>1, <2>2, <2>3, <2>4 DEF CountInv
  <2>6. /\ args'.first \in Int /\ args'.last \in Int /\ args'.first <= args'.last
        /\ Interval' \subseteq Frames /\ bounds' \in Bounds
    <3>1. bounds \in Bounds
      BY DEF PlacesInv
    <3>2. bounds[1] \in Int /\ bounds[2] \in Int /\ bounds[1] <= bounds[2]
      BY <3>1
    <3>3. bounds[1] .. bounds[2] \subseteq Frames
      BY <3>1 DEF Frames
    <3>. QED
      BY <2>1, <3>1, <3>2, <3>3 DEF Interval
  <2>7. DOMAIN framesToRender' = {} /\ framesToRender' \in Seq(Interval')
    BY <1>1, <2>1
  <2>8. frameOf' \in [Threads -> Frames \cup {NoFrame}]
    BY <2>1 DEF PlacesInv
  <2>9. PlacesInv'
    BY <2>2, <2>3, <2>6, <2>7, <2>8 DEF PlacesInv
  <2>. QED
    BY <2>5, <2>9
<1>3. CASE PushFirstFrames
  <2>1. /\ UNCHANGED <<args, rendered, frameOf, nFramesRendered, renderFinished, bounds>>
        /\ framesToRender' = <<>> \o AllFrameRange(args.push, args.first, args.last, 1)
        /\ rpc' = WakeAll(rpc) /\ spc' = "top" /\ spc = "push0"
    BY <1>1, <1>3 DEF PushFirstFrames, countVars, histVars, boundVars
  <2>2. Written = {} /\ Written' = {} /\ Interval' = Interval /\ ~Pushing'
    BY <2>1 DEF PlacesInv, Pushing, Written, Interval
  <2>3. Carrying' = {} /\ Notifying' = {}
    BY <1>1, <2>1 DEF Carrying, Notifying, WakeAll
  <2>4. args.first \in Int /\ args.last \in Int /\ args.first <= args.last
    BY DEF PlacesInv
  <2>. DEFINE q == AllFrameRange(args.push, args.first, args.last, 1)
  <2>5. q \in Seq(Interval) /\ \A i, j \in DOMAIN q : q[i] = q[j] => i = j
    BY <2>4, AllFramesOnce DEF Interval
  <2>. HIDE DEF q
  <2>6. framesToRender' = q
    BY <2>1, <2>5 DEF q
  <2>7. PlacesInv'
    BY <2>1, <2>2, <2>3, <2>5, <2>6 DEF PlacesInv
  <2>8. NotCounted = {} /\ NotCounted' = {}
    BY <1>1, <2>3 DEF NotCounted
  <2>9. CountInv'
    BY <2>1, <2>2, <2>3, <2>8 DEF CountInv
  <2>. QED
    BY <2>7, <2>9
<1>. QED
  BY <1>2, <1>3

(* pickFrameToRender(): the frame goes from the queue to the thread.       *)
LEMMA PlacesPick ==
  ASSUME LabelsOK, PlacesInv, CountInv, NEW t \in Threads, PickFrame(t)
  PROVE  PlacesInv' /\ CountInv'
<1>1. /\ UNCHANGED <<args, rendered, nFramesRendered, renderFinished, spc, bounds>>
      /\ rpc[t] = "take"
  BY DEF PickFrame, At, countVars, schedulerKeeps, boundVars
<1>2. CASE framesToRender = <<>>
  <2>1. UNCHANGED <<frameOf, framesToRender>>
        /\ Move(t, IF t \in mustQuit THEN "quit" ELSE "asleep")
    BY <1>2 DEF PickFrame
  <2>2. Carrying' = Carrying /\ Notifying' = Notifying
    BY <1>1, <2>1 DEF LabelsOK, Move, Carrying, Notifying
  <2>. QED
    BY <1>1, <2>1, <2>2, PlacesStay DEF PlacesInv, Pushing
<1>3. CASE framesToRender # <<>>
  <2>. DEFINE f == Head(framesToRender)
  <2>1. frameOf' = [frameOf EXCEPT ![t] = f] /\ framesToRender' = Tail(framesToRender)
        /\ Move(t, "got")
    BY <1>3 DEF PickFrame, QueueWithoutFront
  <2>2. Carrying' = Carrying \cup {t} /\ t \notin Carrying /\ Notifying' = Notifying
        /\ t \notin Notifying
    BY <1>1, <2>1 DEF LabelsOK, Move, Carrying, Notifying
  <2>3. framesToRender \in Seq(Interval)
        /\ \A i, j \in DOMAIN framesToRender :
              framesToRender[i] = framesToRender[j] => i = j
    BY DEF PlacesInv
  <2>4. /\ f \in Interval /\ framesToRender' \in Seq(Interval)
        /\ f \in Queued /\ Queued' \subseteq Queued \ {f}
        /\ \A i, j \in DOMAIN framesToRender' :
              framesToRender'[i] = framesToRender'[j] => i = j
    BY <1>3, <2>1, <2>3, PickedFrame, SMTT(40) DEF Queued
  <2>. HIDE DEF f
  <2>5. Interval' = Interval /\ Written' = Written /\ (Pushing' => Pushing)
    BY <1>1 DEF Interval, Written, Pushing
  <2>6. f \in Frames /\ f \notin Written
    BY <2>4 DEF PlacesInv
  <2>7. frameOf' \in [Threads -> Frames \cup {NoFrame}] /\ frameOf'[t] = f
        /\ \A u \in Threads \ {t} : frameOf'[u] = frameOf[u]
    BY <2>1, <2>6 DEF PlacesInv
  <2>8. \A u \in Carrying' : frameOf'[u] \in Interval \ (Queued' \cup Written)
    BY <2>2, <2>4, <2>6, <2>7 DEF PlacesInv, Carrying
  <2>9. \A u, v \in Carrying' : frameOf'[u] = frameOf'[v] => u = v
    <3>1. \A u \in Carrying : u \in Threads \ {t} /\ frameOf[u] # f
      BY <2>2, <2>4 DEF PlacesInv, Carrying
    <3>. QED
      BY <2>2, <2>7, <3>1 DEF PlacesInv
  <2>10. PlacesInv'
    BY <1>1, <2>4, <2>5, <2>7, <2>8, <2>9 DEF PlacesInv
  <2>11. \A u \in Notifying : frameOf'[u] = frameOf[u]
    BY <2>2, <2>7 DEF Notifying
  <2>12. NotCounted' = NotCounted
    BY <2>2, <2>11 DEF NotCounted
  <2>13. CountInv'
    BY <1>1, <2>2, <2>5, <2>11, <2>12 DEF CountInv
  <2>. QED
    BY <2>10, <2>13
<1>. QED
  BY <1>2, <1>3

(* A thread writes a frame that nobody has written, and has yet to tell.   *)
LEMMA PlacesWrite ==
  ASSUME LabelsOK, DrainInv, PlacesInv, CountInv, NEW t \in Threads, RenderFrameFFA(t)
  PROVE  PlacesInv' /\ CountInv'
<1>. DEFINE f == frameOf[t]
<1>1. /\ UNCHANGED <<args, frameOf, framesToRender, nFramesRendered, renderFinished, spc,
                     bounds>>
      /\ rendered' = [rendered EXCEPT ![f] = IF @ = 2 THEN 2 ELSE @ + 1]
      /\ Move(t, "notify") /\ t \in Carrying
  BY DEF RenderFrameFFA, At, workVars, countVars, schedulerKeeps, boundVars, Carrying
<1>2. f \in Interval \ (Queued \cup Written) /\ f \in Frames
      /\ rendered \in [Frames -> {0, 1}]
  BY <1>1 DEF PlacesInv
<1>. HIDE DEF f
<1>3. /\ rendered' = [rendered EXCEPT ![f] = 1] /\ rendered' \in [Frames -> {0, 1}]
      /\ Written' = Written \cup {f}
  <2>1. rendered[f] = 0
    BY <1>2 DEF Written
  <2>2. rendered' = [rendered EXCEPT ![f] = 1]
    BY <1>1, <2>1
  <2>3. rendered' \in [Frames -> {0, 1}]
        /\ \A g \in Frames : rendered'[g] = IF g = f THEN 1 ELSE rendered[g]
    BY <1>2, <2>2
  <2>. QED
    BY <1>2, <2>2, <2>3 DEF Written
<1>4. Carrying' = Carrying \ {t} /\ Notifying' = Notifying \cup {t} /\ t \notin Notifying
  BY <1>1 DEF LabelsOK, Move, Carrying, Notifying
<1>5. Interval' = Interval /\ Queued' = Queued /\ ~Pushing'
  <2>1. t \in InHand
    BY <1>1 DEF Carrying, InHand
  <2>2. ~Pushing
    BY <2>1 DEF DrainInv, Pushing, Joined
  <2>. QED
    BY <1>1, <2>2 DEF Interval, Queued, Pushing
<1>6. PlacesInv'
  <2>1. \A u \in Carrying' : frameOf'[u] \in Interval \ (Queued \cup Written')
    BY <1>1, <1>3, <1>4 DEF PlacesInv, f
  <2>2. \A u, v \in Carrying' : frameOf'[u] = frameOf'[v] => u = v
    BY <1>1, <1>4 DEF PlacesInv
  <2>3. Written' \subseteq Interval /\ Queued \cap Written' = {}
    BY <1>2, <1>3 DEF PlacesInv
  <2>. QED
    BY <1>1, <1>3, <1>5, <2>1, <2>2, <2>3 DEF PlacesInv
<1>7. NotCounted' = NotCounted \cup {f} /\ f \notin NotCounted
  BY <1>1, <1>2, <1>4 DEF NotCounted, CountInv, f
<1>8. Written' \ NotCounted' = Written \ NotCounted
  BY <1>2, <1>3, <1>7
<1>9. ~renderFinished
  BY <1>2 DEF CountInv
<1>10. \A u, v \in Notifying' : frameOf'[u] = frameOf'[v] => u = v
  <2>1. \A u \in Notifying : frameOf[u] # f
    BY <1>7 DEF NotCounted
  <2>. QED
    BY <1>1, <1>4, <2>1 DEF CountInv, f
<1>11. CountInv'
  BY <1>1, <1>3, <1>7, <1>8, <1>9, <1>10 DEF CountInv
<1>. QED
  BY <1>6, <1>11

(* notifyFrameRendered(): the count of all the frames of the range says    *)
(* that each one is written.                                               *)
LEMMA PlacesCount ==
  ASSUME LabelsOK, PlacesInv, CountInv, NEW t \in Threads, CountFrame(t)
  PROVE  PlacesInv' /\ CountInv'
<1>. DEFINE f == frameOf[t]
            C == Written \ NotCounted
<1>1. /\ UNCHANGED <<args, rendered, frameOf, framesToRender, spc, bounds>>
      /\ nFramesRendered' = nFramesRendered + 1
      /\ renderFinished' = renderFinished \/ AllRendered(nFramesRendered')
      /\ Move(t, "fake") \/ Move(t, "adjust")
      /\ t \in Notifying
  BY DEF CountFrame, At, workVars, schedulerKeeps, boundVars, histVars, Notifying
<1>2. Carrying' = Carrying /\ Notifying' = Notifying \ {t}
  BY <1>1 DEF LabelsOK, Move, Carrying, Notifying
<1>3. Written' = Written /\ Interval' = Interval /\ Queued' = Queued
      /\ (Pushing' => Pushing)
  BY <1>1 DEF Written, Interval, Queued, Pushing
<1>4. PlacesInv'
  BY <1>1, <1>2, <1>3 DEF PlacesInv
<1>5. f \in NotCounted /\ f \in Written /\ NotCounted' = NotCounted \ {f}
  BY <1>1, <1>2 DEF NotCounted, CountInv
<1>6. Written' \ NotCounted' = C \cup {f} /\ f \notin C
  BY <1>3, <1>5
<1>7. IsFiniteSet(Interval) /\ Cardinality(Interval) = args.last - args.first + 1
  <2>1. args.first \in Int /\ args.last \in Int /\ args.first <= args.last
    BY DEF PlacesInv
  <2>2. ASSUME NEW a \in Int, NEW b \in Int, a <= b
        PROVE  IsFiniteSet(a .. b) /\ Cardinality(a .. b) = b - a + 1
    <3>. DEFINE c == Cardinality(a .. b)
    <3>1. IsFiniteSet(a .. b) /\ c = IF a > b THEN 0 ELSE b - a + 1
      BY FS_Interval, Zenon
    <3>. HIDE DEF c
    <3>2. c = b - a + 1
      BY <2>2, <3>1
    <3>. QED
      BY <3>1, <3>2 DEF c
  <2>. QED
    BY <2>1, <2>2 DEF Interval
<1>8. C \subseteq Interval /\ C \cup {f} \subseteq Interval
  BY <1>5 DEF PlacesInv
<1>9. IsFiniteSet(C) /\ IsFiniteSet(C \cup {f})
  BY <1>7, <1>8, FS_Subset
<1>10. Cardinality(C \cup {f}) = Cardinality(C) + 1
  BY <1>6, <1>9, FS_AddElement
<1>11. nFramesRendered' = Cardinality(Written' \ NotCounted')
  BY <1>1, <1>6, <1>10 DEF CountInv
<1>12. ASSUME AllRendered(nFramesRendered') PROVE Written = Interval
  <2>1. TotalFrames(args.first, args.last, 1) = args.last - args.first + 1
    BY DEF TotalFrames, PlacesInv
  <2>2. args' = args
    BY <1>1
  <2>3. Cardinality(C \cup {f}) = Cardinality(Interval)
    BY <1>6, <1>7, <1>11, <1>12, <2>1, <2>2 DEF AllRendered
  <2>4. C \cup {f} = Interval
    BY <1>7, <1>8, <2>3, FS_Subset
  <2>5. Written \subseteq Interval
    BY DEF PlacesInv
  <2>. QED
    BY <1>5, <2>4, <2>5
<1>13. renderFinished' => Written' = Interval'
  BY <1>1, <1>3, <1>12 DEF CountInv
<1>14. \A u, v \in Notifying' : frameOf'[u] = frameOf'[v] => u = v
  BY <1>1, <1>2 DEF CountInv
<1>15. CountInv'
  BY <1>3, <1>5, <1>11, <1>13, <1>14 DEF CountInv
<1>. QED
  BY <1>4, <1>15

(* Every other step of the scheduler leaves the frames where they are, but *)
(* ClearWork, that drops the queue.                                        *)
LEMMA PlacesKept ==
  ASSUME Policy = "FFA", IInv, [Next]_vars
  PROVE  PlacesInv' /\ CountInv'
<1>0. /\ LabelsOK /\ AliveInv /\ DrainInv /\ CountsOnlyInv /\ PlacesInv /\ CountInv
      /\ frameOf \in [Threads -> Frames \cup {NoFrame}] /\ bounds \in Bounds
  BY DEF IInv, FFAInv, AliveInv, PlacesInv
<1>. DEFINE Same == UNCHANGED <<args, rendered, nFramesRendered, renderFinished>>
<1>1. CASE RenderFrameRange \/ PushFirstFrames
  BY <1>0, <1>1, PlacesAtStart
<1>2. CASE SchedulerStep /\ ~PushFirstFrames
  <2>1. Same /\ UNCHANGED <<frameOf, bounds>> /\ framesToRender' \in {framesToRender, <<>>}
    <3>1. CASE TakeFrame
      <4>1. ~TakeFromBuffer
        BY <1>0, <3>1 DEF TakeFrame, TakeFromBuffer, CountsOnlyInv
      <4>. QED
        BY <3>1, <4>1 DEF TakeFrame, GiveUp, WaitForExpected, countVars, threadVars,
           boundVars, histVars
    <3>2. ~PushUnlessBufferFull /\ ~ProcessFrame /\ ~SchedulerWakeAll
      BY <1>0 DEF PushUnlessBufferFull, ProcessFrame, SchedulerWakeAll, CountsOnlyInv
    <3>. QED
      BY <1>2, <3>1, <3>2 DEF SchedulerStep, StartRender, SchedulerAdjust, SchedulerAct,
         ReadRenderFinished, ReadBufferEmpty, ResolveState, WaitOrStop, ClearWork,
         FlagAllThreads, WakeAllThreads, CopyThreads, JoinThreads, StopRender, countVars,
         threadVars, boundVars, histVars, workVars
  <2>2. Pushing' => Pushing
    BY <1>2 DEF SchedulerStep, StartRender, SchedulerAdjust, SchedulerAct, AfterAdjust,
       SchedulerWakeAll, ReadRenderFinished, ReadBufferEmpty, TakeFrame, GiveUp,
       WaitForExpected, TakeExpected, PushUnlessBufferFull, ProcessFrame, ResolveState,
       WaitOrStop, ClearWork, FlagAllThreads, WakeAllThreads, CopyThreads, JoinThreads,
       StopRender, Pushing
  <2>3. Carrying' = Carrying /\ Notifying' = Notifying
    <3>1. \A t \in Threads : rpc'[t] = rpc[t]
             \/ (rpc[t] \in {"asleep", "none", "gone"} /\ rpc'[t] \in {"take", "begin"})
      <4>1. CASE UNCHANGED rpc \/ rpc' = WakeAll(rpc)
        BY <4>1 DEF WakeAll
      <4>2. ASSUME NEW u \in FreeThreads, rpc' = [rpc EXCEPT ![u] = "begin"]
            PROVE  \A t \in Threads : rpc'[t] = rpc[t]
               \/ (rpc[t] \in {"asleep", "none", "gone"} /\ rpc'[t] \in {"take", "begin"})
        BY <1>0, <4>2 DEF LabelsOK, FreeThreads
      <4>. QED
        BY <1>2, <4>1, <4>2, SchedulerMovesThreads
    <3>. QED
      BY <3>1 DEF Carrying, Notifying
  <2>. QED
    BY <1>0, <2>1, <2>2, <2>3, PlacesStay
<1>3. ASSUME NEW t \in Threads, RenderThreadStep(t) PROVE PlacesInv' /\ CountInv'
  <2>1. CASE PickFrame(t)
    BY <1>0, <2>1, PlacesPick
  <2>2. CASE RenderFrameFFA(t)
    BY <1>0, <2>2, PlacesWrite
  <2>3. CASE CountFrame(t)
    BY <1>0, <2>3, PlacesCount
  <2>4. ASSUME Same, UNCHANGED <<framesToRender, bounds>>, UNCHANGED spc \/ WakeScheduler,
               frameOf' = [frameOf EXCEPT ![t] = NoFrame] \/ UNCHANGED frameOf,
               Notifying' = Notifying, Carrying' \subseteq Carrying,
               t \notin Notifying,
               UNCHANGED frameOf \/ t \notin Carrying'
        PROVE  PlacesInv' /\ CountInv'
    <3>1. frameOf' \in [Threads -> Frames \cup {NoFrame}]
      BY <1>0, <2>4
    <3>2. \A u \in Carrying' \cup Notifying : frameOf'[u] = frameOf[u]
      BY <1>0, <2>4 DEF Carrying, Notifying
    <3>3. Pushing' => Pushing
      BY <2>4 DEF WakeScheduler, Pushing
    <3>. QED
      BY <1>0, <2>4, <3>1, <3>2, <3>3, PlacesStay
  <2>5. CASE ~PickFrame(t) /\ ~RenderFrameFFA(t) /\ ~CountFrame(t)
    <3>1. Same /\ UNCHANGED <<framesToRender, bounds>>
      BY <1>3, <2>5 DEF RenderThreadStep, BeginRun, CheckMustQuit,
         RenderFrameOrdered, RenderNothing, RenderFails, AbortOnFailure, WakeOnFailure,
         AppendFakeFrame, RenderThreadAdjust, RenderThreadAct,
         RenderThreadWakeAll, FrameDone, Quit, Leave, workVars, countVars, schedulerKeeps,
         boundVars
    <3>2. UNCHANGED spc \/ WakeScheduler
      BY <1>3, <2>5 DEF RenderThreadStep, BeginRun, CheckMustQuit,
         RenderFrameOrdered, RenderNothing, RenderFails, AbortOnFailure, WakeOnFailure,
         AppendFakeFrame, RenderThreadAdjust, RenderThreadAct,
         RenderThreadWakeAll, FrameDone, Quit, Leave
    <3>3. t \notin Notifying
      BY <1>3, <2>5 DEF RenderThreadStep, BeginRun, CheckMustQuit,
         RenderFrameOrdered, RenderNothing, RenderFails, AbortOnFailure, WakeOnFailure,
         AppendFakeFrame, RenderThreadAdjust, RenderThreadAct,
         RenderThreadWakeAll, FrameDone, Quit, Leave, At, Notifying
    <3>4. CASE CheckMustQuit(t)
      <4>1. CASE Move(t, "quit") /\ frameOf' = [frameOf EXCEPT ![t] = NoFrame]
        BY <1>0, <2>4, <3>1, <3>2, <3>3, <4>1 DEF LabelsOK, Move, Carrying, Notifying
      <4>2. CASE Move(t, "render") /\ UNCHANGED frameOf /\ t \in Carrying
        BY <1>0, <2>4, <3>1, <3>2, <3>3, <4>2 DEF LabelsOK, Move, Carrying, Notifying
      <4>. QED
        BY <3>4, <4>1, <4>2 DEF CheckMustQuit, At, Carrying
    <3>5. CASE ~CheckMustQuit(t)
      <4>1. /\ frameOf' = [frameOf EXCEPT ![t] = NoFrame] \/ UNCHANGED frameOf
        BY <1>3, <2>5, <3>5 DEF RenderThreadStep, BeginRun,
           RenderFrameOrdered, RenderNothing, RenderFails, AbortOnFailure, WakeOnFailure,
           AppendFakeFrame, RenderThreadAdjust, RenderThreadAct,
           RenderThreadWakeAll, FrameDone, Quit, Leave
      <4>2. \A u \in Threads \ {t} :
              rpc'[u] = rpc[u] \/ (rpc'[u] \in {"take", "begin"}
                                   /\ rpc[u] \in {"asleep", "none", "gone"})
        <5>1. ASSUME NEW l, Move(t, l) PROVE \A u \in Threads \ {t} : rpc'[u] = rpc[u]
          BY <5>1 DEF Move
        <5>2. ASSUME NEW u \in FreeThreads,
                     rpc' = [[rpc EXCEPT ![t] = "done"] EXCEPT ![u] = "begin"]
              PROVE  \A v \in Threads \ {t} :
                 rpc'[v] = rpc[v] \/ (rpc'[v] \in {"take", "begin"}
                                      /\ rpc[v] \in {"asleep", "none", "gone"})
          BY <1>0, <5>2 DEF LabelsOK, FreeThreads
        <5>3. CASE rpc' = [WakeAll(rpc) EXCEPT ![t] = "done"]
          BY <5>3 DEF WakeAll
        <5>. QED
          BY <1>0, <1>3, <5>1, <5>2, <5>3, RenderThreadMoves
      <4>3. rpc'[t] \notin {"got", "render", "notify"}
        <5>1. ASSUME NEW l, Move(t, l), l \notin {"got", "render", "notify"}
              PROVE  rpc'[t] \notin {"got", "render", "notify"}
          BY <1>0, <5>1 DEF LabelsOK, Move
        <5>2. CASE RenderThreadAct(t)
          <6>1. CASE AppendRunnable([rpc EXCEPT ![t] = "done"])
            <7>1. PICK u \in FreeThreads :
                     rpc' = [[rpc EXCEPT ![t] = "done"] EXCEPT ![u] = "begin"]
              BY <6>1, NewThread
            <7>. QED
              BY <1>0, <7>1 DEF LabelsOK
          <6>. QED
            BY <5>1, <5>2, <6>1 DEF RenderThreadAct
        <5>3. CASE RenderThreadWakeAll(t)
          BY <1>0, <5>3, WakeAllWakes DEF RenderThreadWakeAll
        <5>4. CASE ~RenderThreadAct(t) /\ ~RenderThreadWakeAll(t)
          BY <1>3, <2>5, <3>5, <5>1, <5>4 DEF RenderThreadStep, BeginRun,
             RenderFrameOrdered, RenderNothing, RenderFails, AbortOnFailure, WakeOnFailure,
             AppendFakeFrame, RenderThreadAdjust, FrameDone, Quit, Leave
        <5>. QED
          BY <5>2, <5>3, <5>4
      <4>4. Carrying' \subseteq Carrying \ {t} /\ Notifying' = Notifying
        BY <3>3, <4>2, <4>3 DEF Carrying, Notifying
      <4>. QED
        BY <2>4, <3>1, <3>2, <3>3, <4>1, <4>4
    <3>. QED
      BY <3>4, <3>5
  <2>. QED
    BY <1>3, <2>1, <2>2, <2>3, <2>5
<1>4. CASE AbortRendering \/ OnAbortRequested \/ ChangeRange \/ UNCHANGED vars
  <2>1. Same /\ UNCHANGED <<frameOf, framesToRender, rpc>>
        /\ bounds' \in Bounds /\ (UNCHANGED spc \/ WakeScheduler)
    BY <1>0, <1>4 DEF AbortRendering, OnAbortRequested, ChangeRange, vars, workVars,
       countVars, threadVars, boundVars, histVars, schedVars
  <2>2. Pushing' => Pushing
    BY <2>1 DEF WakeScheduler, Pushing
  <2>3. Carrying' = Carrying /\ Notifying' = Notifying
    BY <2>1 DEF Carrying, Notifying
  <2>. QED
    BY <1>0, <2>1, <2>2, <2>3, PlacesStay
<1>. QED
  BY <1>1, <1>2, <1>3, <1>4 DEF Next

(* FramesRenderedOnce: a frame is in the queue, in the hands of one        *)
(* thread, or written, and nFramesRendered counts the written ones, so the *)
(* count reaches that of the range only when all are.                      *)
THEOREM EachFrameOnce == Spec => []FramesRenderedOnce
<1>1. Init => IInv
  <2>. SUFFICES ASSUME Init PROVE IInv
    OBVIOUS
  <2>1. LabelsOK /\ Working = {} /\ InHand = {} /\ Carrying = {} /\ Notifying = {}
    BY DEF Init, LabelsOK, RenderLabels, Working, InHand, Carrying, Notifying
  <2>2. AliveInv /\ DrainInv
    BY <2>1 DEF Init, AliveInv, DrainInv
  <2>3. Written = {} /\ NotCounted = {} /\ rendered \in [Frames -> {0}]
    BY <2>1 DEF Init, Written, NotCounted
  <2>4. CountsOnlyInv
    BY DEF Init, CountsOnlyInv, Actors, AdjustChoices
  <2>5. PlacesInv
    <3>1. bounds \in Bounds /\ args.first = bounds[1] /\ args.last = bounds[2]
      BY DEF Init
    <3>2. bounds[1] \in Int /\ bounds[2] \in Int /\ bounds[1] <= bounds[2]
      BY <3>1
    <3>3. Interval \subseteq Frames
      BY <3>1 DEF Interval, Frames
    <3>4. framesToRender \in Seq(Interval) /\ DOMAIN framesToRender = {}
          /\ frameOf \in [Threads -> Frames \cup {NoFrame}]
      BY DEF Init
    <3>. QED
      BY <2>1, <2>3, <3>1, <3>2, <3>3, <3>4 DEF PlacesInv
  <2>6. CountInv
    BY <2>1, <2>3, FS_EmptySet DEF Init, CountInv
  <2>. QED
    BY <2>2, <2>3, <2>4, <2>5, <2>6 DEF IInv, FFAInv
<1>2. IInv /\ [Next]_vars => IInv'
  <2>. SUFFICES ASSUME IInv, [Next]_vars PROVE IInv'
    OBVIOUS
  <2>1. AliveInv' /\ DrainInv'
    BY AliveKept, DrainKept DEF IInv
  <2>2. CASE Policy = "FFA"
    BY <2>1, <2>2, CountsOnlyKept, PlacesKept DEF IInv, FFAInv
  <2>3. CASE Policy # "FFA"
    <3>1. UNCHANGED rendered \/ rendered' = [f \in Frames |-> 0]
      BY <2>3 DEF Next, RenderFrameRange, AbortRendering, OnAbortRequested, ChangeRange,
         SchedulerStep, StartRender, SchedulerAdjust, SchedulerAct, SchedulerWakeAll,
         PushFirstFrames, ReadRenderFinished, ReadBufferEmpty, TakeFrame,
         PushUnlessBufferFull, ProcessFrame, ResolveState, WaitOrStop, ClearWork,
         FlagAllThreads, WakeAllThreads, CopyThreads, JoinThreads, StopRender,
         RenderThreadStep, BeginRun, PickFrame, CheckMustQuit, RenderFrameFFA,
         RenderFrameOrdered, RenderNothing, RenderFails, AbortOnFailure, WakeOnFailure,
         CountFrame, AppendFakeFrame, RenderThreadAdjust, RenderThreadAct,
         RenderThreadWakeAll, FrameDone, Quit, Leave, histVars, vars
    <3>. QED
      BY <2>1, <2>3, <3>1 DEF IInv, FFAInv
  <2>. QED
    BY <2>2, <2>3
<1>3. IInv => FramesRenderedOnce
  <2>. SUFFICES ASSUME IInv PROVE FramesRenderedOnce
    OBVIOUS
  <2>1. rendered \in [Frames -> {0, 1}]
    BY DEF IInv, FFAInv, PlacesInv
  <2>2. Policy = "FFA" /\ renderFinished => \A f \in args.first .. args.last : rendered[f] = 1
    BY DEF IInv, FFAInv, CountInv, Written, Interval
  <2>. QED
    BY <2>1, <2>2 DEF FramesRenderedOnce
<1>. QED
  BY <1>1, <1>2, <1>3, PTL DEF Spec

-----------------------------------------------------------------------------
(* What stopRender() leaves                                                *)

(* With the policy Ordered only the scheduler starts threads, so those it  *)
(* copies before it waits are all those that work.                         *)
FFALabels == {"notify", "fake", "adjust", "act", "wakeall"}
StopInv ==
    /\ \A t \in Threads : rpc[t] \notin FFALabels
    /\ spc = "join" => Working \subseteq awaited
    /\ spc \in {"over", "idle"} => Working = {}
    /\ spc = "idle" => BufferEmpty /\ ~abortRequested

(* An ordered render thread goes from label to label, and wakes nobody but *)
(* the scheduler.                                                          *)
LEMMA OrderedThread ==
  ASSUME Policy = "Ordered", LabelsOK, NEW t \in Threads, RenderThreadStep(t),
         rpc[t] \notin FFALabels
  PROVE  /\ \E l \in RenderLabels \ FFALabels :
              Move(t, l) /\ (t \notin Working => l = "gone")
         /\ UNCHANGED awaited /\ (UNCHANGED spc \/ WakeScheduler)
         /\ t \in Working \/ UNCHANGED <<buf, fakeFrames, abortRequested>>
<1>1. ~RenderFrameFFA(t) /\ ~CountFrame(t) /\ ~AppendFakeFrame(t) /\ ~RenderThreadAdjust(t)
      /\ ~RenderThreadAct(t) /\ ~RenderThreadWakeAll(t)
  BY DEF RenderFrameFFA, CountFrame, AppendFakeFrame, RenderThreadAdjust, RenderThreadAct,
     RenderThreadWakeAll, At, FFALabels
<1>2. {"take", "asleep", "got", "render", "fail", "failwake", "done", "quit", "leaving",
       "gone"} \subseteq RenderLabels \ FFALabels
  BY DEF RenderLabels, FFALabels
<1>3. UNCHANGED awaited /\ (UNCHANGED spc \/ WakeScheduler)
  BY <1>1 DEF RenderThreadStep, BeginRun, PickFrame, CheckMustQuit, RenderFrameOrdered,
     RenderNothing, RenderFails, AbortOnFailure, WakeOnFailure, FrameDone, Quit, Leave,
     schedulerKeeps
<1>4. CASE Leave(t)
  BY <1>2, <1>3, <1>4 DEF Leave, bufVars
<1>5. CASE ~Leave(t)
  <2>1. t \in Working
    BY <1>1, <1>5 DEF RenderThreadStep, BeginRun, PickFrame, CheckMustQuit,
       RenderFrameOrdered, RenderNothing, RenderFails, AbortOnFailure, WakeOnFailure,
       FrameDone, Quit, At, Working
  <2>2. CASE PickFrame(t)
    <3>1. Move(t, "got") \/ Move(t, IF t \in mustQuit THEN "quit" ELSE "asleep")
      BY <2>2 DEF PickFrame
    <3>. QED
      BY <1>2, <1>3, <2>1, <3>1
  <2>3. CASE CheckMustQuit(t)
    BY <1>2, <1>3, <2>1, <2>3 DEF CheckMustQuit
  <2>4. CASE FrameDone(t)
    <3>1. Move(t, IF t \in mustQuit THEN "quit" ELSE "take")
      BY <2>4 DEF FrameDone
    <3>. QED
      BY <1>2, <1>3, <2>1, <3>1
  <2>. QED
    BY <1>1, <1>2, <1>3, <1>5, <2>1, <2>2, <2>3, <2>4 DEF RenderThreadStep, BeginRun,
       RenderFrameOrdered, RenderNothing, RenderFails, AbortOnFailure, WakeOnFailure, Quit
<1>. QED
  BY <1>4, <1>5

(* While nobody works, nothing starts and nothing is appended.             *)
LEMMA StopKept ==
  ASSUME Policy = "Ordered", AliveInv, StopInv, [Next]_vars
  PROVE  StopInv'
<1>0. LabelsOK /\ \A t \in Threads : rpc[t] \notin FFALabels
  BY DEF AliveInv, StopInv
<1>1. ASSUME NEW t \in Threads, RenderThreadStep(t) PROVE StopInv'
  <2>1. PICK l \in RenderLabels \ FFALabels : Move(t, l) /\ (t \notin Working => l = "gone")
    BY <1>0, <1>1, OrderedThread
  <2>2. \A u \in Threads : rpc'[u] = IF u = t THEN l ELSE rpc[u]
    BY <1>0, <2>1 DEF LabelsOK, Move
  <2>3. Working' \subseteq Working
    BY <2>1, <2>2 DEF Working
  <2>4. UNCHANGED awaited /\ (spc' = spc \/ (spc = "waiting" /\ spc' = "top"))
    BY <1>0, <1>1, OrderedThread DEF WakeScheduler
  <2>5. t \in Working \/ UNCHANGED <<buf, fakeFrames, abortRequested>>
    BY <1>0, <1>1, OrderedThread
  <2>6. spc' = "idle" => BufferEmpty' /\ ~abortRequested'
    BY <2>4, <2>5 DEF StopInv, BufferEmpty
  <2>. QED
    BY <1>0, <2>2, <2>3, <2>4, <2>6 DEF StopInv
<1>2. CASE SchedulerStep
  <2>1. \A t \in Threads : rpc'[t] \notin FFALabels
    <3>1. CASE UNCHANGED rpc \/ rpc' = WakeAll(rpc)
      BY <1>0, <3>1 DEF WakeAll, FFALabels
    <3>2. ASSUME NEW u \in FreeThreads, rpc' = [rpc EXCEPT ![u] = "begin"]
          PROVE  \A t \in Threads : rpc'[t] \notin FFALabels
      BY <1>0, <3>2 DEF LabelsOK, FFALabels
    <3>. QED
      BY <1>2, <3>1, <3>2, SchedulerMovesThreads
  <2>2. CASE CopyThreads
    <3>1. awaited' = renderThreads /\ UNCHANGED rpc /\ spc' = "join"
      BY <2>2 DEF CopyThreads, threadVars
    <3>2. Working' = Working /\ Working \subseteq renderThreads
      BY <3>1 DEF Working, AliveInv
    <3>. QED
      BY <2>1, <3>1, <3>2 DEF StopInv
  <2>3. CASE JoinThreads
    <3>1. spc = "join" /\ spc' = "over" /\ UNCHANGED rpc
          /\ \A t \in awaited : rpc[t] = "gone"
      BY <2>3 DEF JoinThreads
    <3>2. Working' = Working /\ Working \subseteq awaited
      BY <3>1 DEF Working, StopInv
    <3>3. Working' = {}
      BY <3>1, <3>2 DEF Working
    <3>. QED
      BY <2>1, <3>1, <3>3 DEF StopInv
  <2>4. CASE StopRender
    <3>1. spc = "over" /\ spc' = "idle" /\ UNCHANGED rpc /\ abortRequested' = FALSE
          /\ buf' = [f \in Frames |-> 0] /\ fakeFrames' = 0
      BY <2>4 DEF StopRender, ClearBuffer, threadVars
    <3>2. Working' = {} /\ BufferEmpty'
      BY <3>1 DEF Working, StopInv, BufferEmpty
    <3>. QED
      BY <2>1, <3>1, <3>2 DEF StopInv
  <2>5. CASE ~CopyThreads /\ ~JoinThreads /\ ~StopRender
    <3>1. spc' \notin {"join", "over", "idle"}
      BY <1>2, <2>5 DEF SchedulerStep, StartRender, SchedulerAdjust, SchedulerAct,
         AfterAdjust, SchedulerWakeAll, PushFirstFrames, ReadRenderFinished,
         ReadBufferEmpty, TakeFrame, GiveUp, WaitForExpected, TakeExpected,
         PushUnlessBufferFull, ProcessFrame, ResolveState, WaitOrStop, ClearWork,
         FlagAllThreads, WakeAllThreads
    <3>. QED
      BY <2>1, <3>1 DEF StopInv
  <2>. QED
    BY <2>2, <2>3, <2>4, <2>5
<1>3. CASE RenderFrameRange
  <2>1. UNCHANGED rpc /\ spc' = "start"
    BY <1>3 DEF RenderFrameRange, threadVars
  <2>. QED
    BY <1>0, <2>1 DEF StopInv
<1>4. CASE AbortRendering \/ OnAbortRequested \/ ChangeRange \/ UNCHANGED vars
  <2>1. UNCHANGED <<rpc, awaited, buf, fakeFrames>>
        /\ (spc' = spc \/ (spc = "waiting" /\ spc' = "top"))
        /\ (spc' = "idle" => UNCHANGED abortRequested)
    BY <1>4 DEF AbortRendering, OnAbortRequested, ChangeRange, vars, threadVars, schedVars,
       bufVars, WakeScheduler
  <2>2. Working' = Working /\ (UNCHANGED abortRequested => (BufferEmpty' <=> BufferEmpty))
        /\ (BufferEmpty => BufferEmpty')
    BY <2>1 DEF Working, BufferEmpty
  <2>. QED
    BY <1>0, <2>1, <2>2 DEF StopInv
<1>. QED
  BY <1>1, <1>2, <1>3, <1>4 DEF Next

-----------------------------------------------------------------------------
(* What pushFramesToRender() pushes                                        *)

(* f starts at x and goes on by next, up to n.                             *)
StartsAs(f, n, x, next) ==
    f[0] = x /\ \A i \in 0 .. n - 1 : f[i + 1] = next[f[i]]

(* A walk of each length exists.                                           *)
LEMMA PrefixExists ==
  ASSUME NEW S, NEW x \in S, NEW next \in [S -> S], NEW n \in Nat
  PROVE  \E f \in [Nat -> S] : StartsAs(f, n, x, next)
<1>. DEFINE Bad == {k \in Nat : ~ \E f \in [Nat -> S] : StartsAs(f, k, x, next)}
<1>. SUFFICES ASSUME Bad # {} PROVE FALSE
  OBVIOUS
<1>1. PICK k \in Bad : \A m \in Bad : k <= m
  <2>. HIDE DEF Bad
  <2>1. Bad \subseteq Nat
    BY DEF Bad
  <2>. QED
    BY <2>1, LeastExists
<1>2. CASE k = 0
  <2>1. [i \in Nat |-> x] \in [Nat -> S] /\ StartsAs([i \in Nat |-> x], 0, x, next)
    BY DEF StartsAs
  <2>. QED
    BY <1>2, <2>1
<1>3. CASE k # 0
  <2>1. k - 1 \in Nat /\ k - 1 \notin Bad
    BY <1>1, <1>3
  <2>2. PICK f \in [Nat -> S] : StartsAs(f, k - 1, x, next)
    BY <2>1
  <2>. DEFINE g == [i \in Nat |-> IF i = k THEN next[f[k - 1]] ELSE f[i]]
  <2>3. g \in [Nat -> S]
    BY <2>1
  <2>4. g[0] = x
    BY <1>3, <2>2 DEF StartsAs
  <2>5. ASSUME NEW i \in 0 .. k - 1 PROVE g[i + 1] = next[g[i]]
    <3>1. i \in Nat /\ i + 1 \in Nat /\ i # k /\ g[i] = f[i]
      BY <2>5
    <3>2. CASE i = k - 1
      BY <3>1, <3>2
    <3>3. CASE i # k - 1
      <4>1. i \in 0 .. (k - 1) - 1 /\ i + 1 # k
        BY <2>5, <3>3
      <4>2. f[i + 1] = next[f[i]]
        BY <2>2, <4>1 DEF StartsAs
      <4>. QED
        BY <3>1, <4>1, <4>2
    <3>. QED
      BY <3>2, <3>3
  <2>6. StartsAs(g, k, x, next)
    BY <2>4, <2>5 DEF StartsAs
  <2>. QED
    BY <2>3, <2>6
<1>. QED
  BY <1>2, <1>3

(* Two walks of the same start are the same as far as both go.             *)
LEMMA PrefixesAgree ==
  ASSUME NEW S, NEW x \in S, NEW next \in [S -> S], NEW m \in Nat, NEW n \in Nat,
         NEW f \in [Nat -> S], StartsAs(f, m, x, next),
         NEW g \in [Nat -> S], StartsAs(g, n, x, next),
         NEW i \in Nat, i <= m, i <= n
  PROVE  f[i] = g[i]
<1>. DEFINE Bad == {k \in 0 .. i : f[k] # g[k]}
<1>. SUFFICES ASSUME Bad # {} PROVE FALSE
  OBVIOUS
<1>1. PICK k \in Bad : \A l \in Bad : k <= l
  <2>. HIDE DEF Bad
  <2>1. Bad \subseteq Nat
    BY DEF Bad
  <2>. QED
    BY <2>1, LeastExists
<1>2. k # 0
  BY <1>1 DEF StartsAs
<1>3. k - 1 \in 0 .. i /\ k - 1 \notin Bad /\ k - 1 \in 0 .. m - 1 /\ k - 1 \in 0 .. n - 1
  BY <1>1, <1>2
<1>4. f[(k - 1) + 1] = next[f[k - 1]] /\ g[(k - 1) + 1] = next[g[k - 1]]
  BY <1>3 DEF StartsAs
<1>5. (k - 1) + 1 = k
  BY <1>1
<1>. QED
  BY <1>1, <1>3, <1>4, <1>5

(* f goes by next for ever.                                                *)
GoesBy(f, x, next) == f[0] = x /\ \A n \in Nat : f[n + 1] = next[f[n]]

(* A function may be defined by its value at 0 and that after each other.  *)
LEMMA WalkExists ==
  ASSUME NEW S, NEW x \in S, NEW next \in [S -> S]
  PROVE  \E f \in [Nat -> S] : GoesBy(f, x, next)
<1>. DEFINE p[n \in Nat] == CHOOSE f \in [Nat -> S] : StartsAs(f, n, x, next)
            w == [n \in Nat |-> p[n][n]]
<1>1. ASSUME NEW n \in Nat PROVE p[n] \in [Nat -> S] /\ StartsAs(p[n], n, x, next)
  BY PrefixExists
<1>. HIDE DEF p
<1>2. w \in [Nat -> S] /\ w[0] = x
  BY <1>1 DEF StartsAs
<1>3. ASSUME NEW n \in Nat PROVE w[n + 1] = next[w[n]]
  <2>1. n + 1 \in Nat /\ n \in 0 .. (n + 1) - 1 /\ n <= n + 1 /\ n <= n
    OBVIOUS
  <2>a. /\ p[n] \in [Nat -> S] /\ StartsAs(p[n], n, x, next)
        /\ p[n + 1] \in [Nat -> S] /\ StartsAs(p[n + 1], n + 1, x, next)
    BY <1>1, <2>1
  <2>2. p[n + 1][n] = p[n][n]
    <3>. DEFINE f == p[n + 1]
                g == p[n]
                k == n + 1
    <3>1. /\ f \in [Nat -> S] /\ StartsAs(f, k, x, next) /\ k \in Nat
          /\ g \in [Nat -> S] /\ StartsAs(g, n, x, next)
          /\ n <= k /\ n <= n
      BY <2>1, <2>a
    <3>. HIDE DEF f, g, k
    <3>2. f[n] = g[n]
      BY ONLY <3>1, PrefixesAgree, x \in S, next \in [S -> S], n \in Nat
    <3>. QED
      BY <3>2 DEF f, g
  <2>3. p[n + 1][n + 1] = next[p[n + 1][n]]
    BY <1>1, <2>1 DEF StartsAs
  <2>. QED
    BY <2>1, <2>2, <2>3
<1>. QED
  BY <1>2, <1>3 DEF GoesBy

(* The frames of a playback, and where getNextFrameInSequence() may go.    *)
FrameStep == [canContinue : BOOLEAN, frame : Frames, direction : Directions]
InFrames(first, last) ==
    first \in Int /\ last \in Int /\ first <= last /\ first .. last \subseteq Frames

(* Frames are integers, and the range of a timeline has frames.            *)
LEMMA FramesAreNumbers ==
  /\ Frames \subseteq Int /\ NoFrame \notin Frames
  /\ \A b \in Bounds : InFrames(b[1], b[2])
BY DEF Frames, InFrames

(* The next frame of a playback is one of its timeline.                    *)
LEMMA NextInFrames ==
  ASSUME NEW mode \in Modes, NEW d \in Directions, NEW f \in Frames, NEW first, NEW last,
         InFrames(first, last)
  PROVE  NextFrameInSequence(mode, d, f, first, last, 1) \in FrameStep
<1>1. \A g \in Frames, e \in Directions : GoTo(g, e) \in FrameStep /\ Finished(g, e) \in FrameStep
  BY DEF GoTo, Finished, FrameStep
<1>2. first \in Frames /\ last \in Frames /\ f \in Int /\ first \in Int /\ last \in Int
  BY FramesAreNumbers DEF InFrames
<1>3. CASE first = last
  BY <1>1, <1>2, <1>3 DEF NextFrameInSequence
<1>4. CASE first # last
  <2>1. first + 1 \in Frames /\ last - 1 \in Frames
    BY <1>2, <1>4 DEF InFrames
  <2>2. "Forward" \in Directions /\ "Backward" \in Directions
    BY DEF Directions
  <2>3. AtFirstFrame(mode, d, f, first, last, 1) \in FrameStep
    BY <1>1, <1>2, <2>1, <2>2 DEF AtFirstFrame, Modes, Directions
  <2>4. AtLastFrame(mode, d, f, first, last, 1) \in FrameStep
    BY <1>1, <1>2, <2>1, <2>2 DEF AtLastFrame, Modes, Directions
  <2>5. ASSUME first < f, f < last
        PROVE  GoTo(IF d = "Forward" THEN f + 1 ELSE f - 1, d) \in FrameStep
    <3>1. f + 1 \in Frames /\ f - 1 \in Frames
      BY <1>2, <2>5 DEF InFrames
    <3>. QED
      BY <1>1, <3>1
  <2>. QED
    BY <1>2, <1>4, <2>3, <2>4, <2>5 DEF NextFrameInSequence
<1>. QED
  BY <1>3, <1>4

(* The frames from one on are frames of the timeline.                      *)
LEMMA WalkIsInFrames ==
  ASSUME Mode \in Modes, InFrames(args.first, args.last), NEW from \in FrameStep
  PROVE  /\ Walk(from) \in [Nat -> FrameStep] /\ Walk(from)[0] = from
         /\ \A n \in Nat : Walk(from)[n + 1] = StepAfter(Walk(from)[n])
<1>. DEFINE next == [s \in FrameStep |-> StepAfter(s)]
            Is(f) == f = [k \in Nat |-> IF k = 0 THEN from ELSE StepAfter(f[k - 1])]
<1>1. ASSUME NEW s \in FrameStep PROVE StepAfter(s) \in FrameStep
  BY NextInFrames DEF StepAfter, FrameStep
<1>2. next \in [FrameStep -> FrameStep]
  BY <1>1
<1>3. PICK f \in [Nat -> FrameStep] : GoesBy(f, from, next)
  <2>. HIDE DEF next
  <2>. QED
    BY <1>2, WalkExists
<1>4. Is(f)
  <2>1. ASSUME NEW k \in Nat PROVE f[k] = IF k = 0 THEN from ELSE StepAfter(f[k - 1])
    <3>1. CASE k = 0
      BY <1>3, <3>1 DEF GoesBy
    <3>2. CASE k # 0
      <4>1. k - 1 \in Nat /\ (k - 1) + 1 = k
        BY <3>2
      <4>2. f[k] = next[f[k - 1]] /\ f[k - 1] \in FrameStep
        BY <1>3, <4>1 DEF GoesBy
      <4>. QED
        BY <3>2, <4>2
    <3>. QED
      BY <3>1, <3>2
  <2>. QED
    BY <2>1
<1>5. Walk(from) = CHOOSE g : Is(g)
  BY DEF Walk
<1>6. Is(Walk(from))
  <2>. HIDE DEF Is
  <2>. QED
    BY <1>4, <1>5
<1>. DEFINE w == Walk(from)
<1>. HIDE DEF w
<1>7. Is(w)
  BY <1>6 DEF w
<1>8. w[0] = from /\ \A n \in Nat : w[n + 1] = StepAfter(w[n])
  BY <1>7
<1>9. \A n \in Nat : w[n] \in FrameStep
  <2>. DEFINE Bad == {n \in Nat : w[n] \notin FrameStep}
  <2>. SUFFICES ASSUME Bad # {} PROVE FALSE
    OBVIOUS
  <2>1. PICK k \in Bad : \A l \in Bad : k <= l
    <3>. HIDE DEF Bad
    <3>1. Bad \subseteq Nat
      BY DEF Bad
    <3>. QED
      BY <3>1, LeastExists
  <2>2. k # 0
    BY <1>8, <2>1
  <2>3. k - 1 \in Nat /\ (k - 1) + 1 = k /\ w[k - 1] \in FrameStep
    BY <2>1, <2>2
  <2>4. w[k] \in FrameStep
    BY <1>1, <1>8, <2>3
  <2>. QED
    BY <2>1, <2>4
<1>10. w \in [Nat -> FrameStep]
  <2>1. w = [k \in Nat |-> IF k = 0 THEN from ELSE StepAfter(w[k - 1])]
    BY <1>7
  <2>. HIDE DEF Is
  <2>. QED
    BY <1>9, <2>1
<1>. QED
  BY <1>8, <1>10 DEF w

(* pushFramesToRenderInternal(): what is pushed are frames, no more than   *)
(* there is room for, and at least the first one when there is room.       *)
LEMMA StepsAreFrames ==
  ASSUME Mode \in Modes, InFrames(args.first, args.last), NEW from \in FrameStep,
         NEW room \in Int
  PROVE  /\ Steps(room, from) \in Seq(FrameStep)
         /\ Len(Steps(room, from)) = 0 \/ Len(Steps(room, from)) <= room
         /\ room > 0 /\ from.canContinue => Len(Steps(room, from)) > 0
         /\ \A i \in 1 .. Len(Steps(room, from)) : Steps(room, from)[i] = Walk(from)[i - 1]
<1>. DEFINE walk == Walk(from)
            K == {k \in 1 .. room : \A j \in 1 .. k : walk[j - 1].canContinue}
            n == Cardinality(K)
<1>1. walk \in [Nat -> FrameStep] /\ walk[0] = from
  BY WalkIsInFrames
<1>. HIDE DEF walk
<1>2. IsFiniteSet(K) /\ n \in Nat /\ (n = 0 \/ n <= room)
  <2>1. IsFiniteSet(1 .. room) /\ (room > 0 => Cardinality(1 .. room) = room)
        /\ (~(room > 0) => 1 .. room = {})
    <3>1. /\ IsFiniteSet(1 .. room)
          /\ Cardinality(1 .. room) = IF 1 > room THEN 0 ELSE room - 1 + 1
      BY FS_Interval, 1 \in Int, room \in Int
    <3>. QED
      BY <3>1
  <2>2. K \subseteq 1 .. room
    OBVIOUS
  <2>3. IsFiniteSet(K) /\ n \in Nat /\ n <= Cardinality(1 .. room)
    <3>. HIDE DEF K
    <3>. QED
      BY <2>1, <2>2, FS_Subset, FS_CardinalityType
  <2>4. ~(room > 0) => n = 0
    <3>1. ~(room > 0) => K = {}
      BY <2>1
    <3>. HIDE DEF K
    <3>. QED
      BY <3>1, FS_EmptySet
  <2>. QED
    BY <2>1, <2>3, <2>4
<1>3. ASSUME room > 0, from.canContinue PROVE n > 0
  <2>1. 1 \in K
    BY <1>1, <1>3
  <2>. HIDE DEF K
  <2>. QED
    BY <1>2, <2>1, FS_EmptySet
<1>4. Steps(room, from) = [k \in 1 .. n |-> walk[k - 1]]
  BY DEF Steps, walk
<1>. HIDE DEF K, n
<1>5. \A k \in 1 .. n : walk[k - 1] \in FrameStep
  BY <1>1, <1>2
<1>6. [k \in 1 .. n |-> walk[k - 1]] \in Seq(FrameStep)
      /\ Len([k \in 1 .. n |-> walk[k - 1]]) = n
  BY <1>2, <1>5
<1>. QED
  BY <1>2, <1>3, <1>4, <1>6 DEF walk

ArgsType == [first : Int, last : Int, push : Directions, process : Directions]
AtLeastOne(n) == IF n <= 0 THEN 1 ELSE n

(* The queue after a push: frames, two per thread at most, or a frame more *)
(* when the range has only one.                                            *)
LEMMA PushedFrames ==
  ASSUME Mode \in Modes, args \in ArgsType, InFrames(args.first, args.last),
         framesToRender \in Seq(Frames), NEW frame \in Frames, NEW push \in Directions,
         NEW n \in Int, PushFrom(frame, push, n)
  PROVE  /\ framesToRender' \in Seq(Frames)
         /\ \E d \in Directions : args' = [args EXCEPT !.push = d]
         /\ lastFramePushed' = lastFramePushed \/ lastFramePushed' \in Frames
         /\ framesToRender = <<>> => lastFramePushed' \in Frames
         /\ args.first # args.last =>
              \/ Len(framesToRender') <= Len(framesToRender)
              \/ Len(framesToRender') <= 2 * AtLeastOne(n)
         /\ args.first = args.last => /\ Len(framesToRender') = Len(framesToRender) + 1
                                      /\ lastFramePushed' = frame
<1>. DEFINE from == GoTo(frame, push)
            room == 2 * AtLeastOne(n) - Len(framesToRender)
            steps == IF args.first = args.last THEN <<from>> ELSE Steps(room, from)
            new == [i \in DOMAIN steps |-> steps[i].frame]
<1>1. /\ framesToRender' = framesToRender \o new
      /\ lastFramePushed' = IF steps = <<>> THEN lastFramePushed ELSE steps[Len(steps)].frame
      /\ args' = [args EXCEPT !.push = IF steps = <<>> THEN push
                                       ELSE steps[Len(steps)].direction]
  BY DEF PushFrom, AtLeastOne
<1>2. from \in FrameStep /\ from.canContinue /\ from.frame = frame
  BY DEF GoTo, FrameStep
<1>3. Len(framesToRender) \in Nat /\ room \in Int /\ AtLeastOne(n) \in Nat \ {0}
  BY DEF AtLeastOne
<1>4. steps \in Seq(FrameStep)
  <2>1. CASE args.first = args.last
    BY <1>2, <2>1
  <2>2. CASE args.first # args.last
    <3>. HIDE DEF room, from
    <3>. QED
      BY <1>2, <1>3, <2>2, StepsAreFrames
  <2>. QED
    BY <2>1, <2>2
<1>5. args.first # args.last => /\ Len(steps) = 0 \/ Len(steps) <= room
                                /\ room > 0 => Len(steps) > 0
  <2>. HIDE DEF room, from
  <2>. QED
    BY <1>2, <1>3, StepsAreFrames
<1>6. args.first = args.last => steps = <<from>> /\ Len(steps) = 1 /\ steps[1] = from
  OBVIOUS
<1>. HIDE DEF steps
<1>7. /\ Len(steps) \in Nat /\ DOMAIN steps = 1 .. Len(steps)
      /\ \A i \in 1 .. Len(steps) : steps[i] \in FrameStep
      /\ Len(steps) = 0 <=> steps = <<>>
  BY <1>4, LenProperties, ElementOfSeq, EmptySeq
<1>8. steps # <<>> => steps[Len(steps)] \in FrameStep
  BY <1>7
<1>9. new \in Seq(Frames) /\ Len(new) = Len(steps)
  <2>1. new = [i \in 1 .. Len(steps) |-> steps[i].frame]
    BY <1>7
  <2>2. \A i \in 1 .. Len(steps) : steps[i].frame \in Frames
    BY <1>7 DEF FrameStep
  <2>. QED
    BY <1>7, <2>1, <2>2
<1>. HIDE DEF new
<1>10. /\ framesToRender' \in Seq(Frames)
       /\ Len(framesToRender') = Len(framesToRender) + Len(steps)
  <2>1. /\ framesToRender \o new \in Seq(Frames)
        /\ Len(framesToRender \o new) = Len(framesToRender) + Len(new)
    BY ONLY <1>9, framesToRender \in Seq(Frames), ConcatProperties
  <2>. QED
    BY <1>1, <1>9, <2>1
<1>11. framesToRender = <<>> => steps # <<>>
  <2>1. framesToRender = <<>> => room > 0
    BY <1>3
  <2>. HIDE DEF room
  <2>. QED
    BY <1>5, <1>6, <1>7, <2>1
<1>12. lastFramePushed' = lastFramePushed \/ lastFramePushed' \in Frames
  BY <1>1, <1>8 DEF FrameStep
<1>13. framesToRender = <<>> => lastFramePushed' \in Frames
  BY <1>1, <1>8, <1>11 DEF FrameStep
<1>14. \E d \in Directions : args' = [args EXCEPT !.push = d]
  <2>1. CASE steps = <<>>
    BY <1>1, <2>1
  <2>2. CASE steps # <<>>
    BY <1>1, <1>8, <2>2 DEF FrameStep
  <2>. QED
    BY <2>1, <2>2
<1>15. args.first = args.last => lastFramePushed' = frame
  <2>1. args.first = args.last => steps # <<>> /\ steps[Len(steps)] = from
    BY <1>6, <1>7
  <2>. HIDE DEF from
  <2>. QED
    BY <1>1, <1>2, <2>1
<1>16. args.first # args.last =>
          \/ Len(framesToRender') <= Len(framesToRender)
          \/ Len(framesToRender') <= 2 * AtLeastOne(n)
  <2>. DEFINE a == AtLeastOne(n)
              b == 2 * a
  <2>1. b \in Int /\ room = b - Len(framesToRender)
    BY <1>3
  <2>. HIDE DEF a, b, room, from
  <2>2. args.first # args.last =>
          Len(framesToRender') <= Len(framesToRender) \/ Len(framesToRender') <= b
    BY <1>3, <1>5, <1>7, <1>10, <2>1
  <2>. QED
    BY <2>2 DEF a, b
<1>17. args.first = args.last => Len(framesToRender') = Len(framesToRender) + 1
  <2>. HIDE DEF room, from
  <2>. QED
    BY <1>6, <1>10
<1>. HIDE DEF room, from
<1>. QED
  BY <1>10, <1>12, <1>13, <1>14, <1>15, <1>16, <1>17

-----------------------------------------------------------------------------
(* The types of an ordered render                                          *)

(* A render that gave up on the frame it awaits is over; frames in hand,   *)
(* awaited and pushed are frames of the timeline.                          *)
GivenUp == {"resolve", "decide", "clear", "flag", "stopwake", "copy", "join", "over", "idle"}
FramesOK ==
    /\ InFrames(args.first, args.last) /\ fakeFrames = 0
    /\ stalled < StallLimit \/ (finished /\ spc \in GivenUp)
    /\ \A t \in InHand : frameOf[t] \in Frames
    /\ ~Pushing /\ spc # "idle" => expectFrameToRender \in Frames /\ lastFramePushed \in Frames
OrderedTypes == TypeOK /\ FramesOK

(* The first adjustment of a render finds no thread and adds one.          *)
StartOK ==
    /\ spc = "adjust0" => renderThreads = {}
    /\ spc = "act0" => decision[Scheduler] = "start"
    /\ spc \notin {"idle", "start", "adjust0", "act0"} => Threads # {}

(* What a step that touches no frame keeps.                                *)
LEMMA FramesStay ==
  ASSUME FramesOK, UNCHANGED <<args, fakeFrames, stalled, finished, expectFrameToRender,
                               lastFramePushed>>,
         \/ UNCHANGED spc
         \/ Pushing /\ Pushing'
         \/ ~Pushing /\ ~Pushing' /\ spc # "idle" /\ (spc \in GivenUp => spc' \in GivenUp),
         \A t \in InHand' : t \in InHand /\ frameOf'[t] = frameOf[t]
  PROVE  FramesOK'
BY DEF FramesOK, InFrames, Pushing, GivenUp

(* The choice of adjustNumberOfThreads().                                  *)
LEMMA ChoiceOK ==
  ASSUME TypeOK, NEW a \in Actors, ReadThreadCounts(a)
  PROVE  /\ decision' \in [Actors -> AdjustChoices]
         /\ \A b \in Actors : b # a => decision'[b] = decision[b]
         /\ decision'[a] \in {"start", "stop", "keep"}
         /\ decision'[a] # "start" => Cardinality(renderThreads) > 0
<1>0. IsFiniteSet(renderThreads) /\ Cardinality(renderThreads) \in Nat
  BY FS_Subset, FS_CardinalityType DEF TypeOK
<1>1. PICK other \in OtherThreads, setting \in playback.parallel :
        decision' = [decision EXCEPT ![a] =
            AdjustChoice(Cardinality(running) + other, Cardinality(renderThreads),
                         OptimalNThreads(setting))]
  BY DEF ReadThreadCounts
<1>. QED
  BY <1>0, <1>1 DEF AdjustChoice, TypeOK, AdjustChoices

(* What an ordered render thread leaves alone.                             *)
LEMMA OrderedThreadKeeps ==
  ASSUME Policy = "Ordered", StopInv, NEW t \in Threads, RenderThreadStep(t)
  PROVE  /\ UNCHANGED <<renderThreads, mustQuit, decision, args, lastFramePushed,
                        expectFrameToRender, fakeFrames, countVars, rendered>>
         /\ UNCHANGED <<finished, taken, nThreads, previous, stalled, awaited, boundVars,
                        aborter, processed>>
         /\ UNCHANGED spc \/ (spc = "waiting" /\ spc' = "top")
<1>1. ~RenderFrameFFA(t) /\ ~CountFrame(t) /\ ~AppendFakeFrame(t) /\ ~RenderThreadAdjust(t)
      /\ ~RenderThreadAct(t) /\ ~RenderThreadWakeAll(t)
  BY DEF RenderFrameFFA, CountFrame, AppendFakeFrame, RenderThreadAdjust, RenderThreadAct,
     RenderThreadWakeAll, At, FFALabels, StopInv
<1>. QED
  BY <1>1 DEF RenderThreadStep, BeginRun, PickFrame, CheckMustQuit, RenderFrameOrdered,
     RenderNothing, RenderFails, AbortOnFailure, WakeOnFailure, FrameDone, Quit, Leave,
     schedulerKeeps, workVars, bufVars, WakeScheduler

(* The start of a render is kept.                                          *)
LEMMA StartKept ==
  ASSUME Policy = "Ordered", TypeOK, StopInv, StartOK, [Next]_vars
  PROVE  StartOK'
<1>. USE DEF StartOK
<1>1. ASSUME NEW t \in Threads, RenderThreadStep(t) PROVE StartOK'
  BY <1>1, OrderedThreadKeeps
<1>2. CASE StartRender
  <2>1. renderThreads' = {} \/ Threads # {}
    BY <1>2 DEF StartRender, TypeOK
  <2>. QED
    BY <1>2, <2>1 DEF StartRender
<1>3. CASE SchedulerAdjust
  <2>1. spc = "adjust0" => decision'[Scheduler] = "start"
    <3>1. ReadThreadCounts(Scheduler) /\ Scheduler \in Actors
      BY <1>3 DEF SchedulerAdjust, Actors
    <3>2. spc = "adjust0" => Cardinality(renderThreads) = 0
      BY FS_EmptySet
    <3>. QED
      BY <3>1, <3>2, ChoiceOK
  <2>. QED
    BY <1>3, <2>1 DEF SchedulerAdjust
<1>4. CASE SchedulerAct
  <2>1. Threads # {}
    <3>1. CASE spc = "act0"
      BY <1>4, <3>1, NewThread DEF SchedulerAct, FreeThreads
    <3>2. CASE spc # "act0"
      BY <1>4, <3>2 DEF SchedulerAct
    <3>. QED
      BY <3>1, <3>2
  <2>. QED
    BY <1>4, <2>1 DEF SchedulerAct, AfterAdjust
<1>5. CASE SchedulerStep /\ ~StartRender /\ ~SchedulerAdjust /\ ~SchedulerAct
  BY <1>5 DEF SchedulerStep, SchedulerWakeAll, PushFirstFrames, ReadRenderFinished,
     ReadBufferEmpty, TakeFrame, GiveUp, WaitForExpected, TakeExpected,
     PushUnlessBufferFull, ProcessFrame, ResolveState, WaitOrStop, ClearWork,
     FlagAllThreads, WakeAllThreads, CopyThreads, JoinThreads, StopRender
<1>6. CASE RenderFrameRange
  BY <1>6 DEF RenderFrameRange
<1>7. CASE AbortRendering \/ OnAbortRequested \/ ChangeRange \/ UNCHANGED vars
  BY <1>7 DEF AbortRendering, OnAbortRequested, ChangeRange, vars, threadVars, schedVars,
     WakeScheduler
<1>. QED
  BY <1>1, <1>2, <1>3, <1>4, <1>5, <1>6, <1>7 DEF Next, SchedulerStep

(* A thread that is added was free.                                        *)
LEMMA AddedThread ==
  ASSUME TypeOK, NEW pcs \in [Threads -> RenderLabels], AppendRunnable(pcs)
  PROVE  \E u \in Threads :
           /\ rpc[u] \in {"none", "gone"} /\ u \notin renderThreads
           /\ renderThreads' = renderThreads \cup {u} /\ renderThreads' \subseteq Threads
           /\ mustQuit' \subseteq Threads /\ hasQuit' \subseteq Threads
           /\ rpc' = [pcs EXCEPT ![u] = "begin"] /\ rpc' \in [Threads -> RenderLabels]
<1>1. PICK u \in FreeThreads :
           /\ renderThreads' = renderThreads \cup {u}
           /\ rpc' = [pcs EXCEPT ![u] = "begin"]
           /\ mustQuit' = mustQuit \ {u} /\ hasQuit' = hasQuit \ {u}
  BY NewThread
<1>2. u \in Threads /\ rpc[u] \in {"none", "gone"} /\ u \notin renderThreads
  BY DEF FreeThreads
<1>3. "begin" \in RenderLabels
  BY DEF RenderLabels
<1>. QED
  BY <1>1, <1>2, <1>3 DEF TypeOK

(* The scheduler starts a render and adjusts its threads.                  *)
LEMMA SchedulerAdjustTypes ==
  ASSUME Policy = "Ordered", OrderedTypes, StartOK,
         StartRender \/ SchedulerAdjust \/ SchedulerAct \/ SchedulerWakeAll
  PROVE  OrderedTypes'
<1>. USE DEF OrderedTypes, InHand
<1>0. {"adjust0", "push0", "act0", "act", "wakeall", "push"} \subseteq SchedLabels
  BY DEF SchedLabels
<1>1. CASE StartRender
  <2>1. spc = "start" /\ spc' \in {"adjust0", "push0"}
        /\ renderThreads' = renderThreads \ hasQuit /\ nThreads' = Cardinality(renderThreads')
        /\ UNCHANGED <<rpc, mustQuit, hasQuit, running, frameOf>>
    BY <1>1 DEF StartRender
  <2>2. nThreads' \in Int
    <3>1. renderThreads' \subseteq Threads
      BY <2>1 DEF TypeOK
    <3>2. IsFiniteSet(renderThreads')
      BY <3>1, FS_Subset
    <3>. QED
      BY <2>1, <3>2, FS_CardinalityType
  <2>3. FramesOK'
    BY <1>1, <2>1, FramesStay DEF StartRender, workVars, bufVars, Pushing
  <2>4. TypeOK'
    BY <1>0, <1>1, <2>1, <2>2 DEF StartRender, TypeOK, workVars, bufVars, countVars,
       boundVars, histVars
  <2>. QED
    BY <2>3, <2>4
<1>2. CASE SchedulerAdjust
  <2>1. /\ ReadThreadCounts(Scheduler)
        /\ nThreads' = NewNThreads(decision'[Scheduler], Cardinality(renderThreads))
        /\ \/ spc = "adjust0" /\ spc' = "act0"
           \/ spc = "adjust" /\ spc' = "act"
    BY <1>2 DEF SchedulerAdjust
  <2>2. decision' \in [Actors -> AdjustChoices] /\ decision'[Scheduler] \in {"start", "stop", "keep"}
    BY <2>1, ChoiceOK DEF Actors
  <2>3. nThreads' \in Int
    <3>1. IsFiniteSet(renderThreads) /\ Cardinality(renderThreads) \in Nat
      BY FS_Subset, FS_CardinalityType DEF TypeOK
    <3>. QED
      BY <2>1, <2>2, <3>1 DEF NewNThreads
  <2>4. FramesOK'
    BY <1>2, <2>1, FramesStay DEF SchedulerAdjust, workVars, bufVars, threadVars, Pushing, GivenUp
  <2>5. TypeOK'
    BY <1>0, <1>2, <2>1, <2>2, <2>3 DEF SchedulerAdjust, TypeOK, workVars, bufVars, countVars,
       threadVars, boundVars, histVars
  <2>. QED
    BY <2>4, <2>5
<1>3. CASE SchedulerAct
  <2>1. /\ \/ spc = "act0" /\ spc' = "push0"
           \/ spc = "act" /\ spc' \in {"push", "wakeall"}
        /\ decision' = [decision EXCEPT ![Scheduler] = "none"]
    BY <1>3 DEF SchedulerAct, AfterAdjust, StartOK
  <2>2. /\ renderThreads' \subseteq Threads /\ mustQuit' \subseteq Threads
        /\ hasQuit' \subseteq Threads /\ rpc' \in [Threads -> RenderLabels]
        /\ \A t \in Threads : rpc'[t] = rpc[t] \/ rpc'[t] = "begin"
    <3>1. CASE AppendRunnable(rpc)
      BY <3>1, AddedThread DEF TypeOK
    <3>2. CASE StopOneThread /\ UNCHANGED rpc
      BY <3>2 DEF StopOneThread, TypeOK
    <3>3. CASE UNCHANGED <<renderThreads, mustQuit, hasQuit, rpc>>
      BY <3>3 DEF TypeOK
    <3>. QED
      BY <1>3, <3>1, <3>2, <3>3 DEF SchedulerAct
  <2>3. FramesOK'
    BY <1>3, <2>1, <2>2, FramesStay DEF SchedulerAct, workVars, bufVars, Pushing, GivenUp
  <2>4. TypeOK'
    <3>1. decision' \in [Actors -> AdjustChoices]
      BY <2>1 DEF TypeOK, AdjustChoices
    <3>2. UNCHANGED <<workVars, bufVars, countVars, running, frameOf, finished, taken,
                      nThreads, previous, stalled, awaited, boundVars, histVars,
                      abortRequested, aborter>>
      BY <1>3 DEF SchedulerAct
    <3>3. /\ UNCHANGED <<args, framesToRender, lastFramePushed, expectFrameToRender, buf,
                         fakeFrames, nFramesRendered, renderFinished, running, frameOf>>
          /\ UNCHANGED <<finished, taken, nThreads, previous, stalled, awaited, playback,
                         bounds, rendered, processed, abortRequested, aborter>>
      BY ONLY <3>2 DEF workVars, bufVars, countVars, boundVars, histVars
    <3>4. spc' \in SchedLabels
      BY ONLY <1>0, <2>1
    <3>5. TypeOK
      OBVIOUS
    <3>. QED
      BY ONLY <2>2, <3>1, <3>3, <3>4, <3>5 DEF TypeOK
  <2>. QED
    BY <2>3, <2>4
<1>4. CASE SchedulerWakeAll
  <2>1. rpc' = WakeAll(rpc) /\ spc = "wakeall" /\ spc' = "push"
    BY <1>4 DEF SchedulerWakeAll
  <2>2. rpc' \in [Threads -> RenderLabels] /\ InHand' = InHand
    <3>1. LabelsOK
      BY DEF TypeOK, LabelsOK
    <3>. QED
      BY <2>1, <3>1, WakeAllWakes
  <2>3. FramesOK'
    BY <1>4, <2>1, <2>2, FramesStay DEF SchedulerWakeAll, workVars, bufVars, Pushing, GivenUp
  <2>4. TypeOK'
    BY <1>0, <1>4, <2>1, <2>2 DEF SchedulerWakeAll, TypeOK, workVars, bufVars, countVars,
       boundVars, histVars
  <2>. QED
    BY <2>3, <2>4
<1>. QED
  BY <1>1, <1>2, <1>3, <1>4

(* The scheduler pushes frames.                                            *)
LEMMA SchedulerPushTypes ==
  ASSUME Policy = "Ordered", OrderedTypes, DrainInv, PushFirstFrames \/ PushUnlessBufferFull
  PROVE  OrderedTypes'
<1>. USE DEF OrderedTypes
<1>0. {"top", "process"} \subseteq SchedLabels /\ Mode \in Modes /\ LabelsOK
      /\ args \in ArgsType /\ InFrames(args.first, args.last)
  BY DEF SchedLabels, TypeOK, Mode, PlaybackType, LabelsOK, ArgsType, FramesOK
<1>1. ASSUME NEW d \in Directions, args' = [args EXCEPT !.push = d]
      PROVE  args' \in ArgsType /\ args'.first = args.first /\ args'.last = args.last
  BY <1>0, <1>1 DEF ArgsType
<1>2. ASSUME rpc' = WakeAll(rpc), UNCHANGED frameOf
      PROVE  rpc' \in [Threads -> RenderLabels] /\ InHand' = InHand
  BY <1>0, <1>2, WakeAllWakes DEF InHand
<1>3. ASSUME NEW frame \in Frames, NEW push \in Directions, NEW n \in Int,
             PushFrom(frame, push, n)
      PROVE  /\ framesToRender' \in Seq(Frames) /\ args' \in ArgsType
             /\ args'.first = args.first /\ args'.last = args.last
             /\ framesToRender = <<>> \/ lastFramePushed \in Frames => lastFramePushed' \in Frames
  BY <1>0, <1>1, <1>3, PushedFrames DEF TypeOK
<1>4. CASE PushFirstFrames
  <2>1. PICK frame \in StartFrames :
          expectFrameToRender' = frame /\ PushFrom(frame, args.push, nThreads)
    BY <1>4 DEF PushFirstFrames
  <2>2. frame \in Frames /\ args.push \in Directions /\ nThreads \in Int
    BY DEF TypeOK
  <2>3. framesToRender = <<>> /\ spc = "push0" /\ spc' = "top"
    BY <1>4 DEF PushFirstFrames, DrainInv, Drained
  <2>4. /\ framesToRender' \in Seq(Frames) /\ args' \in ArgsType
        /\ args'.first = args.first /\ args'.last = args.last
        /\ lastFramePushed' \in Frames
    BY <1>3, <2>1, <2>2, <2>3
  <2>5. rpc' \in [Threads -> RenderLabels] /\ InHand' = InHand
    BY <1>2, <1>4 DEF PushFirstFrames
  <2>6. UNCHANGED <<bufVars, countVars, renderThreads, mustQuit, hasQuit, running,
                    frameOf, finished, taken, nThreads, previous, stalled, awaited,
                    boundVars, histVars, abortRequested, decision, aborter>>
    BY <1>4 DEF PushFirstFrames
  <2>7. FramesOK'
    BY <2>1, <2>2, <2>3, <2>4, <2>5, <2>6 DEF FramesOK, InFrames, GivenUp, bufVars
  <2>8. TypeOK'
    BY <1>0, <2>1, <2>2, <2>3, <2>4, <2>5, <2>6 DEF TypeOK, ArgsType, bufVars, countVars,
       boundVars, histVars
  <2>. QED
    BY <2>7, <2>8
<1>5. CASE PushUnlessBufferFull
  <2>1. spc = "push" /\ spc' = "process" /\ lastFramePushed \in Frames
    BY <1>5 DEF PushUnlessBufferFull, FramesOK, Pushing
  <2>. DEFINE next == NextFrameInSequence(Mode, args.push, lastFramePushed, args.first,
                                          args.last, 1)
  <2>2. next.frame \in Frames /\ next.direction \in Directions
    BY <1>0, <2>1, NextInFrames DEF TypeOK, FrameStep
  <2>3. \/ UNCHANGED <<framesToRender, lastFramePushed, args>>
        \/ PushFrom(next.frame, next.direction, nThreads)
    BY <1>5 DEF PushUnlessBufferFull, PushMoreFrames
  <2>. HIDE DEF next
  <2>4. /\ framesToRender' \in Seq(Frames) /\ args' \in ArgsType
        /\ args'.first = args.first /\ args'.last = args.last
        /\ lastFramePushed' \in Frames
    <3>1. nThreads \in Int /\ framesToRender \in Seq(Frames)
      BY DEF TypeOK
    <3>. QED
      BY <1>0, <1>3, <2>1, <2>2, <2>3, <3>1
  <2>5. rpc' \in [Threads -> RenderLabels] /\ InHand' = InHand
    <3>1. UNCHANGED frameOf /\ (UNCHANGED rpc \/ rpc' = WakeAll(rpc))
      BY <1>5 DEF PushUnlessBufferFull, PushMoreFrames
    <3>. QED
      BY <1>0, <1>2, <3>1 DEF LabelsOK, InHand
  <2>6. UNCHANGED <<expectFrameToRender, bufVars, countVars, renderThreads, mustQuit,
                    hasQuit, running, frameOf, finished, taken, nThreads, previous, stalled,
                    awaited, boundVars, histVars, abortRequested, decision, aborter>>
    BY <1>5 DEF PushUnlessBufferFull
  <2>7. FramesOK'
    BY <2>1, <2>4, <2>5, <2>6 DEF FramesOK, InFrames, GivenUp, bufVars, Pushing
  <2>8. TypeOK'
    BY <1>0, <2>1, <2>4, <2>5, <2>6 DEF TypeOK, ArgsType, bufVars, countVars, boundVars,
       histVars
  <2>. QED
    BY <2>7, <2>8
<1>. QED
  BY <1>4, <1>5

(* The scheduler takes the frame it expects, waits for it, or gives up.    *)
LEMMA SchedulerTakeTypes ==
  ASSUME Policy = "Ordered", OrderedTypes, TakeFrame
  PROVE  OrderedTypes'
<1>. USE DEF OrderedTypes
<1>0. {"resolve", "process", "adjust"} \subseteq SchedLabels /\ Mode \in Modes
  BY DEF SchedLabels, TypeOK, Mode, PlaybackType
<1>1. /\ spc = "take" /\ stalled < StallLimit /\ stalled \in 0 .. StallLimit
      /\ expectFrameToRender \in Frames
  BY DEF TakeFrame, FramesOK, GivenUp, Pushing, TypeOK
<1>2. UNCHANGED <<framesToRender, lastFramePushed, fakeFrames, countVars, threadVars,
                  nThreads, awaited, boundVars, histVars, abortRequested, decision, aborter>>
  BY DEF TakeFrame
<1>3. InHand' = InHand
  BY <1>2 DEF InHand, threadVars
<1>. DEFINE stalls == IF previous = expectFrameToRender THEN stalled + 1 ELSE 0
<1>4. stalls \in 0 .. StallLimit
  BY <1>1
<1>5. \/ GiveUp(stalled) \/ GiveUp(stalls)
      \/ stalls < StallLimit /\ buf[expectFrameToRender] > 0 /\ TakeExpected(stalls)
      \/ stalls < StallLimit /\ WaitForExpected(stalls)
  <2>. DEFINE stop == previous = expectFrameToRender /\ stalls >= StallLimit
  <2>1. ~stop => stalls < StallLimit
    <3>1. StallLimit \in Nat /\ StallLimit > 0 /\ stalled \in Nat
      BY <1>1
    <3>2. CASE previous = expectFrameToRender
      BY <3>1, <3>2
    <3>3. CASE previous # expectFrameToRender
      BY <3>1, <3>3
    <3>. QED
      BY <3>2, <3>3
  <2>2. \/ GiveUp(stalled) \/ GiveUp(stalls)
        \/ ~stop /\ buf[expectFrameToRender] > 0 /\ TakeExpected(stalls)
        \/ ~stop /\ WaitForExpected(stalls)
    BY DEF TakeFrame, TakeFromBuffer
  <2>. QED
    BY <2>1, <2>2
<1>. HIDE DEF stalls
<1>6. ASSUME NEW n \in 0 .. StallLimit, GiveUp(n)
      PROVE  OrderedTypes'
  <2>0. /\ finished' = TRUE /\ spc' = "resolve" /\ spc' \in GivenUp
        /\ UNCHANGED <<args, expectFrameToRender, lastFramePushed, fakeFrames, frameOf>>
    BY <1>2, <1>6 DEF GiveUp, GivenUp, threadVars
  <2>1. FramesOK'
    <3>1. expectFrameToRender \in Frames /\ lastFramePushed \in Frames
      BY <1>1 DEF FramesOK, Pushing
    <3>. QED
      BY <1>3, <2>0, <3>1 DEF FramesOK, InFrames
  <2>2. TypeOK'
    BY <1>0, <1>2, <1>6 DEF TypeOK, GiveUp, countVars, threadVars, boundVars, histVars
  <2>. QED
    BY <2>1, <2>2
<1>7. CASE stalls < StallLimit /\ WaitForExpected(stalls)
  <2>1. FramesOK'
    BY <1>1, <1>2, <1>3, <1>4, <1>7 DEF FramesOK, InFrames, WaitForExpected, GivenUp,
       Pushing, threadVars
  <2>2. TypeOK'
    <3>1. UNCHANGED <<args, expectFrameToRender, buf, taken, finished>>
          /\ previous' \in Frames \cup {NoFrame} /\ stalled' \in 0 .. StallLimit
          /\ spc' \in SchedLabels
      BY <1>0, <1>1, <1>4, <1>7 DEF WaitForExpected
    <3>2. /\ UNCHANGED <<framesToRender, lastFramePushed, fakeFrames, nFramesRendered,
                         renderFinished, renderThreads, mustQuit, hasQuit, running, rpc, frameOf>>
          /\ UNCHANGED <<nThreads, awaited, playback, bounds, rendered, processed,
                         abortRequested, decision, aborter>>
      BY ONLY <1>2 DEF countVars, threadVars, boundVars, histVars
    <3>3. TypeOK
      OBVIOUS
    <3>. QED
      BY ONLY <3>1, <3>2, <3>3 DEF TypeOK
  <2>. QED
    BY <2>1, <2>2
<1>8. CASE stalls < StallLimit /\ buf[expectFrameToRender] > 0 /\ TakeExpected(stalls)
  <2>1. buf' \in [Frames -> Nat]
    <3>1. buf \in [Frames -> Nat] /\ buf[expectFrameToRender] - 1 \in Nat
      BY <1>1, <1>8 DEF TypeOK
    <3>2. buf' = [buf EXCEPT ![expectFrameToRender] = buf[expectFrameToRender] - 1]
      BY <1>8 DEF TakeExpected
    <3>. QED
      BY ONLY <1>1, <3>1, <3>2
  <2>2. NextExpected.frame \in Frames /\ NextExpected.direction \in Directions
        /\ NextExpected.canContinue \in BOOLEAN
    <3>1. bounds \in Bounds /\ InFrames(bounds[1], bounds[2]) /\ args.process \in Directions
      BY FramesAreNumbers DEF TypeOK
    <3>2. CASE bounds[1] = bounds[2] /\ Mode = "Once"
      BY <1>1, <3>2 DEF NextExpected, Finished, Directions
    <3>3. CASE ~(bounds[1] = bounds[2] /\ Mode = "Once")
      BY <1>0, <1>1, <3>1, <3>3, NextInFrames DEF NextExpected, FrameStep
    <3>. QED
      BY <3>2, <3>3
  <2>3. /\ args' \in ArgsType /\ InFrames(args'.first, args'.last)
        /\ finished' \in BOOLEAN /\ expectFrameToRender' \in Frames
        /\ spc' \in {"process", "adjust"}
    <3>1. CASE finished
      BY <1>1, <1>8, <3>1 DEF TakeExpected, TypeOK, FramesOK, ArgsType
    <3>2. CASE ~finished
      <4>1. InFrames(bounds[1], bounds[2])
        BY FramesAreNumbers DEF TypeOK
      <4>2. args' = [args EXCEPT !.first = bounds[1], !.last = bounds[2],
                                 !.process = NextExpected.direction]
            /\ args \in ArgsType
        BY <1>8, <3>2 DEF TakeExpected, TypeOK, ArgsType
      <4>3. args' \in ArgsType /\ args'.first = bounds[1] /\ args'.last = bounds[2]
        BY <2>2, <4>1, <4>2 DEF ArgsType, InFrames
      <4>. QED
        BY <1>8, <2>2, <3>2, <4>1, <4>3 DEF TakeExpected
    <3>. QED
      BY <3>1, <3>2 DEF TypeOK
  <2>4. taken' = expectFrameToRender /\ stalled' = stalls /\ UNCHANGED previous
    BY <1>8 DEF TakeExpected
  <2>5. FramesOK'
    BY <1>1, <1>2, <1>3, <1>8, <2>3, <2>4 DEF FramesOK, Pushing, threadVars
  <2>6. TypeOK'
    BY <1>0, <1>1, <1>2, <1>4, <2>1, <2>3, <2>4 DEF TypeOK, ArgsType, countVars, threadVars,
       boundVars, histVars
  <2>. QED
    BY <2>5, <2>6
<1>. QED
  BY <1>1, <1>4, <1>5, <1>6, <1>7, <1>8

(* The other steps of the scheduler touch the frames only to clear them.   *)
LEMMA SchedulerLoopTypes ==
  ASSUME Policy = "Ordered", OrderedTypes,
         \/ ReadRenderFinished \/ ReadBufferEmpty \/ ProcessFrame \/ ResolveState
         \/ WaitOrStop
  PROVE  OrderedTypes'
<1>. USE DEF OrderedTypes
<1>0. {"empty", "resolve", "take", "decide", "clear", "waiting"} \subseteq SchedLabels
  BY DEF SchedLabels
<1>1. UNCHANGED <<workVars, bufVars, countVars, threadVars, nThreads, stalled, awaited,
                  boundVars, rendered, abortRequested, decision, aborter>>
  BY DEF ReadRenderFinished, ReadBufferEmpty, ProcessFrame, ResolveState, WaitOrStop, histVars
<1>2. InHand' = InHand
  BY <1>1 DEF InHand, threadVars
<1>3. /\ spc \in {"top", "empty", "process", "resolve", "decide"}
      /\ spc' \in {"empty", "resolve", "take", "decide", "clear", "waiting"}
      /\ finished' \in BOOLEAN /\ taken' \in Frames \cup {NoFrame}
      /\ previous' \in Frames \cup {NoFrame} /\ processed' \in Frames \cup {NoFrame}
      /\ stalled < StallLimit \/ (finished' /\ spc' \in GivenUp)
  <2>1. CASE ReadRenderFinished
    BY <2>1 DEF ReadRenderFinished, TypeOK, FramesOK, GivenUp, histVars
  <2>2. CASE ReadBufferEmpty
    BY <2>2 DEF ReadBufferEmpty, TypeOK, FramesOK, GivenUp, histVars
  <2>3. CASE ProcessFrame
    BY <2>3 DEF ProcessFrame, TypeOK, FramesOK, GivenUp
  <2>4. CASE ResolveState
    BY <2>4 DEF ResolveState, TypeOK, FramesOK, GivenUp, histVars
  <2>5. CASE WaitOrStop
    BY <2>5 DEF WaitOrStop, TypeOK, FramesOK, GivenUp, histVars
  <2>. QED
    BY <2>1, <2>2, <2>3, <2>4, <2>5
<1>4. FramesOK'
  BY <1>1, <1>2, <1>3 DEF FramesOK, InFrames, Pushing, workVars, bufVars, threadVars
<1>5. TypeOK'
  BY <1>0, <1>1, <1>3 DEF TypeOK, workVars, bufVars, countVars, threadVars, boundVars
<1>. QED
  BY <1>4, <1>5

(* The end of a render.                                                    *)
LEMMA SchedulerStopTypes ==
  ASSUME Policy = "Ordered", OrderedTypes,
         \/ ClearWork \/ FlagAllThreads \/ WakeAllThreads \/ CopyThreads \/ JoinThreads
         \/ StopRender
  PROVE  OrderedTypes'
<1>. USE DEF OrderedTypes
<1>0. {"flag", "stopwake", "copy", "join", "over", "idle"} \subseteq SchedLabels
  BY DEF SchedLabels
<1>1. UNCHANGED <<args, lastFramePushed, expectFrameToRender, countVars, running, frameOf,
                  hasQuit, finished, taken, nThreads, previous, stalled, boundVars,
                  histVars, decision, aborter>>
  BY DEF ClearWork, FlagAllThreads, WakeAllThreads, CopyThreads, JoinThreads, StopRender,
     threadVars, workVars
<1>2. rpc' \in [Threads -> RenderLabels] /\ InHand' = InHand
  <2>0. LabelsOK
    BY DEF TypeOK, LabelsOK
  <2>1. UNCHANGED rpc \/ rpc' = WakeAll(rpc)
    BY DEF ClearWork, FlagAllThreads, WakeAllThreads, CopyThreads, JoinThreads, StopRender,
       threadVars
  <2>. QED
    BY <2>0, <2>1, WakeAllWakes DEF InHand, LabelsOK
<1>3. /\ framesToRender' \in Seq(Frames) /\ buf' \in [Frames -> Nat] /\ fakeFrames' = 0
      /\ renderThreads' \subseteq Threads /\ mustQuit' \subseteq Threads
      /\ awaited' \subseteq Threads /\ abortRequested' \in BOOLEAN
  <2>1. <<>> \in Seq(Frames)
    OBVIOUS
  <2>2. CASE StopRender
    <3>1. [f \in Frames |-> 0] \in [Frames -> Nat]
      OBVIOUS
    <3>. QED
      BY <2>2, <3>1 DEF StopRender, ClearBuffer, TypeOK, FramesOK, threadVars, workVars
  <2>3. CASE ~StopRender
    <3>1. UNCHANGED <<buf, fakeFrames, abortRequested>>
      BY <2>3 DEF ClearWork, FlagAllThreads, WakeAllThreads, CopyThreads, JoinThreads,
         bufVars
    <3>2. UNCHANGED framesToRender \/ framesToRender' = <<>>
      BY <2>3 DEF ClearWork, FlagAllThreads, WakeAllThreads, CopyThreads, JoinThreads,
         workVars
    <3>3. /\ renderThreads' \subseteq renderThreads
          /\ mustQuit' \subseteq mustQuit \cup renderThreads
          /\ awaited' \subseteq awaited \cup renderThreads
      BY <2>3 DEF ClearWork, FlagAllThreads, WakeAllThreads, CopyThreads, JoinThreads,
         FlaggedToQuit, threadVars
    <3>. QED
      BY <2>1, <3>1, <3>2, <3>3 DEF TypeOK, FramesOK
  <2>. QED
    BY <2>2, <2>3
<1>4. /\ spc \in {"clear", "flag", "stopwake", "copy", "join", "over"}
      /\ spc' \in {"flag", "stopwake", "copy", "join", "over", "idle"}
  BY DEF ClearWork, FlagAllThreads, WakeAllThreads, CopyThreads, JoinThreads, StopRender
<1>5. FramesOK'
  BY <1>1, <1>2, <1>3, <1>4 DEF FramesOK, InFrames, Pushing, GivenUp
<1>6. TypeOK'
  BY <1>0, <1>1, <1>2, <1>3, <1>4 DEF TypeOK, FramesOK, countVars, boundVars, histVars
<1>. QED
  BY <1>5, <1>6

(* A render thread carries frames from the queue to the buffer.            *)
LEMMA RenderThreadTypes ==
  ASSUME Policy = "Ordered", StopInv, OrderedTypes, NEW t \in Threads, RenderThreadStep(t)
  PROVE  OrderedTypes'
<1>. USE DEF OrderedTypes
<1>0. LabelsOK /\ rpc[t] \notin FFALabels /\ "top" \in SchedLabels
  BY DEF TypeOK, LabelsOK, StopInv, SchedLabels
<1>1. PICK l \in RenderLabels : Move(t, l)
  BY <1>0, OrderedThread
<1>2. /\ rpc' \in [Threads -> RenderLabels]
      /\ \A u \in Threads : rpc'[u] = IF u = t THEN l ELSE rpc[u]
  BY <1>0, <1>1 DEF LabelsOK, Move
<1>3. /\ UNCHANGED <<renderThreads, mustQuit, decision, args, lastFramePushed,
                     expectFrameToRender, fakeFrames, countVars, rendered>>
      /\ UNCHANGED <<finished, taken, nThreads, previous, stalled, awaited, boundVars,
                     aborter, processed>>
      /\ UNCHANGED spc \/ (spc = "waiting" /\ spc' = "top")
  BY OrderedThreadKeeps
<1>4. /\ running' \subseteq Threads /\ hasQuit' \subseteq Threads
      /\ abortRequested' \in BOOLEAN
  BY <1>0 DEF RenderThreadStep, BeginRun, PickFrame, CheckMustQuit, RenderFrameFFA,
     RenderFrameOrdered, RenderNothing, RenderFails, AbortOnFailure, WakeOnFailure,
     CountFrame, AppendFakeFrame, RenderThreadAdjust, RenderThreadAct, RenderThreadWakeAll,
     FrameDone, Quit, Leave, At, FFALabels, TypeOK
<1>5. /\ frameOf' \in [Threads -> Frames \cup {NoFrame}] /\ framesToRender' \in Seq(Frames)
      /\ \A u \in InHand' : frameOf'[u] \in Frames
  <2>1. CASE PickFrame(t)
    <3>1. CASE framesToRender # <<>>
      <4>1. /\ frameOf' = [frameOf EXCEPT ![t] = Head(framesToRender)]
            /\ framesToRender' = Tail(framesToRender)
        BY <2>1, <3>1 DEF PickFrame, QueueWithoutFront
      <4>2. Head(framesToRender) \in Frames /\ framesToRender' \in Seq(Frames)
        BY <3>1, <4>1, HeadTailProperties DEF TypeOK
      <4>. QED
        BY <1>2, <4>1, <4>2 DEF TypeOK, FramesOK, InHand
    <3>2. CASE framesToRender = <<>>
      <4>1. UNCHANGED <<frameOf, framesToRender>> /\ rpc'[t] \in {"quit", "asleep"}
        BY <1>0, <2>1, <3>2 DEF PickFrame, Move, LabelsOK
      <4>. QED
        BY <1>2, <4>1 DEF TypeOK, FramesOK, InHand
    <3>. QED
      BY <3>1, <3>2
  <2>2. CASE CheckMustQuit(t) \/ FrameDone(t)
    <3>1. CASE frameOf' = [frameOf EXCEPT ![t] = NoFrame]
      <4>1. rpc'[t] \in {"quit", "take"} /\ UNCHANGED framesToRender
        <5>1. CASE CheckMustQuit(t) /\ t \in mustQuit
          BY <1>0, <5>1 DEF CheckMustQuit, Move, LabelsOK, workVars
        <5>2. CASE CheckMustQuit(t) /\ t \notin mustQuit
          <6>1. UNCHANGED frameOf /\ At(t, "got")
            BY <5>2 DEF CheckMustQuit
          <6>2. frameOf[t] \in Frames
            BY <6>1 DEF At, FramesOK, InHand
          <6>. QED
            BY <3>1, <6>1, <6>2 DEF TypeOK
        <5>3. CASE FrameDone(t)
          BY <1>0, <5>3 DEF FrameDone, Move, LabelsOK, workVars
        <5>. QED
          BY <2>2, <5>1, <5>2, <5>3
      <4>. QED
        BY <1>2, <3>1, <4>1 DEF TypeOK, FramesOK, InHand
    <3>2. CASE ~(frameOf' = [frameOf EXCEPT ![t] = NoFrame])
      <4>1. CheckMustQuit(t) /\ t \notin mustQuit
        BY <2>2, <3>2 DEF CheckMustQuit, FrameDone
      <4>2. UNCHANGED <<frameOf, framesToRender>> /\ t \in InHand
        BY <4>1 DEF CheckMustQuit, At, InHand, workVars
      <4>. QED
        BY <1>2, <4>2 DEF TypeOK, FramesOK, InHand
    <3>. QED
      BY <3>1, <3>2
  <2>3. CASE ~PickFrame(t) /\ ~CheckMustQuit(t) /\ ~FrameDone(t)
    <3>1. UNCHANGED <<frameOf, framesToRender>>
      BY <2>3 DEF RenderThreadStep, BeginRun, RenderFrameFFA,
         RenderFrameOrdered, RenderNothing, RenderFails, AbortOnFailure, WakeOnFailure,
         CountFrame, AppendFakeFrame, RenderThreadAdjust, RenderThreadAct,
         RenderThreadWakeAll, Quit, Leave, workVars
    <3>2. l \notin {"got", "render", "notify"}
      BY <1>0, <1>1, <2>3 DEF RenderThreadStep, BeginRun, RenderFrameFFA,
         RenderFrameOrdered, RenderNothing, RenderFails, AbortOnFailure, WakeOnFailure,
         CountFrame, AppendFakeFrame, RenderThreadAdjust, RenderThreadAct,
         RenderThreadWakeAll, Quit, Leave, Move, At, LabelsOK, FFALabels
    <3>. QED
      BY <1>2, <3>1, <3>2 DEF TypeOK, FramesOK, InHand
  <2>. QED
    BY <2>1, <2>2, <2>3
<1>6. buf' \in [Frames -> Nat]
  <2>1. CASE RenderFrameOrdered(t)
    <3>1. frameOf[t] \in Frames /\ buf' = [buf EXCEPT ![frameOf[t]] = buf[frameOf[t]] + 1]
      BY <2>1 DEF RenderFrameOrdered, At, FramesOK, InHand
    <3>2. buf \in [Frames -> Nat]
      BY DEF TypeOK
    <3>. QED
      BY ONLY <3>1, <3>2
  <2>2. CASE ~RenderFrameOrdered(t)
    BY <1>0, <2>2 DEF RenderThreadStep, BeginRun, PickFrame, CheckMustQuit, RenderFrameFFA,
       RenderNothing, RenderFails, AbortOnFailure, WakeOnFailure, CountFrame,
       AppendFakeFrame, RenderThreadAdjust, RenderThreadAct, RenderThreadWakeAll,
       FrameDone, Quit, Leave, bufVars, TypeOK
  <2>. QED
    BY <2>1, <2>2
<1>7. FramesOK'
  BY <1>3, <1>5 DEF FramesOK, InFrames, Pushing, GivenUp
<1>8. TypeOK'
  BY <1>0, <1>2, <1>3, <1>4, <1>5, <1>6 DEF TypeOK, countVars, boundVars
<1>. QED
  BY <1>7, <1>8

(* The calls of the clients.                                               *)
LEMMA ClientTypes ==
  ASSUME Policy = "Ordered", OrderedTypes, DrainInv,
         \/ RenderFrameRange \/ AbortRendering \/ OnAbortRequested \/ ChangeRange
         \/ UNCHANGED vars
  PROVE  OrderedTypes'
<1>. USE DEF OrderedTypes
<1>0. {"top", "start"} \subseteq SchedLabels /\ StartDirection \in Directions
  BY DEF SchedLabels
<1>1. CASE RenderFrameRange
  <2>1. /\ spc' = "start" /\ finished' = FALSE /\ stalled' = 0
        /\ taken' = NoFrame /\ previous' = NoFrame /\ processed' = NoFrame
        /\ args' = [first |-> bounds[1], last |-> bounds[2],
                    push |-> StartDirection, process |-> StartDirection]
        /\ rendered' = [f \in Frames |-> 0]
    BY <1>1 DEF RenderFrameRange
  <2>2. UNCHANGED <<framesToRender, lastFramePushed, expectFrameToRender, bufVars,
                    countVars, threadVars, nThreads, awaited, playback, bounds, aborts,
                    rangeChanges, abortRequested, decision, aborter>>
    BY <1>1 DEF RenderFrameRange
  <2>3. InFrames(bounds[1], bounds[2])
    BY FramesAreNumbers DEF TypeOK
  <2>4. args' \in ArgsType /\ args'.first = bounds[1] /\ args'.last = bounds[2]
    BY <1>0, <2>1, <2>3 DEF ArgsType, InFrames
  <2>5. InHand' = InHand
    BY <2>2 DEF InHand, threadVars
  <2>6. FramesOK'
    BY <2>1, <2>2, <2>3, <2>4, <2>5 DEF FramesOK, Pushing, bufVars, threadVars
  <2>7. [f \in Frames |-> 0] \in [Frames -> 0 .. 2]
    OBVIOUS
  <2>8. TypeOK'
    <3>1. /\ spc' \in SchedLabels /\ finished' \in BOOLEAN /\ stalled' \in 0 .. StallLimit
          /\ taken' \in Frames \cup {NoFrame} /\ previous' \in Frames \cup {NoFrame}
          /\ processed' \in Frames \cup {NoFrame} /\ rendered' \in [Frames -> 0 .. 2]
      <4>1. 0 \in 0 .. StallLimit
        OBVIOUS
      <4>. QED
        BY ONLY <1>0, <2>1, <2>7, <4>1
    <3>. QED
      BY <2>2, <2>4, <3>1 DEF TypeOK, ArgsType, bufVars, countVars, threadVars
  <2>. QED
    BY <2>6, <2>8
<1>2. CASE AbortRendering \/ OnAbortRequested \/ ChangeRange \/ UNCHANGED vars
  <2>1. /\ UNCHANGED <<workVars, bufVars, countVars, threadVars, finished, taken, nThreads,
                       previous, stalled, awaited, playback, histVars, decision>>
        /\ UNCHANGED spc \/ (spc = "waiting" /\ spc' = "top")
        /\ abortRequested' \in BOOLEAN /\ bounds' \in Bounds /\ aborter' \in {"idle", "wake"}
    BY <1>2 DEF AbortRendering, OnAbortRequested, ChangeRange, vars, schedVars, boundVars,
       WakeScheduler, TypeOK
  <2>2. InHand' = InHand
    BY <2>1 DEF InHand, threadVars
  <2>3. FramesOK'
    BY <2>1, <2>2 DEF FramesOK, InFrames, Pushing, GivenUp, workVars, bufVars, threadVars
  <2>4. TypeOK'
    BY <1>0, <2>1 DEF TypeOK, workVars, bufVars, countVars, threadVars, histVars
  <2>. QED
    BY <2>3, <2>4
<1>. QED
  BY <1>1, <1>2

(* The types of an ordered render are kept.                                *)
LEMMA TypesKept ==
  ASSUME Policy = "Ordered", DrainInv, StopInv, StartOK, OrderedTypes, [Next]_vars
  PROVE  OrderedTypes'
<1>1. ASSUME NEW t \in Threads, RenderThreadStep(t) PROVE OrderedTypes'
  BY <1>1, RenderThreadTypes
<1>2. CASE SchedulerStep
  BY <1>2, SchedulerAdjustTypes, SchedulerPushTypes, SchedulerTakeTypes,
     SchedulerLoopTypes, SchedulerStopTypes DEF SchedulerStep
<1>. QED
  BY <1>1, <1>2, ClientTypes DEF Next

-----------------------------------------------------------------------------
(* What waits to be rendered or processed                                  *)

NumThreads  == Cardinality(Threads)
BufferLimit == 3 * HardwareThreads + 3 * NumThreads
InStock     == Cardinality(Buffered) + Len(framesToRender) + Cardinality(InHand)
Pushes      == spc \in {"adjust", "act", "wakeall", "push"}

(* The frame the scheduler took leaves room for one more before it pushes; *)
(* the number of threads it pushes for is at most what it will have.       *)
BoundInv ==
    /\ IsFiniteSet(Buffered)
    /\ InStock <= BufferLimit
    /\ Pushes => InStock < BufferLimit
    /\ Pushing => BufferEmpty
    /\ spc \in {"push0", "wakeall", "push"} => nThreads <= NumThreads
    /\ spc \in {"act0", "act"} =>
          \/ nThreads <= NumThreads
          \/ decision[Scheduler] = "start" /\ nThreads = Cardinality(renderThreads) + 1

(* The sets whose sizes count are finite.                                  *)
LEMMA StockIsFinite ==
  ASSUME TypeOK
  PROVE  /\ NumThreads \in Nat
         /\ IsFiniteSet(InHand) /\ Cardinality(InHand) \in 0 .. NumThreads
         /\ Len(framesToRender) \in Nat /\ BufferLimit \in Nat
         /\ IsFiniteSet(Buffered) => Cardinality(Buffered) \in Nat /\ InStock \in Nat
<1>1. NumThreads \in Nat
  BY FS_CardinalityType DEF NumThreads
<1>2. IsFiniteSet(InHand) /\ Cardinality(InHand) \in Nat /\ Cardinality(InHand) <= NumThreads
  <2>1. InHand \in SUBSET Threads
    BY DEF InHand
  <2>. QED
    BY <2>1, FS_Subset, FS_CardinalityType DEF NumThreads
<1>3. Len(framesToRender) \in Nat
  BY LenProperties DEF TypeOK
<1>4. IsFiniteSet(Buffered) => Cardinality(Buffered) \in Nat
  BY FS_CardinalityType
<1>. QED
  BY <1>1, <1>2, <1>3, <1>4 DEF BufferLimit, InStock

(* An image more, or less, in the buffer.                                  *)
LEMMA OneImageMore ==
  ASSUME TypeOK, IsFiniteSet(Buffered), NEW f \in Frames, buf' = [buf EXCEPT ![f] = @ + 1]
  PROVE  IsFiniteSet(Buffered') /\ Cardinality(Buffered') = Cardinality(Buffered) + 1
<1>1. buf \in [Frames -> Nat] /\ \A g \in Frames : buf'[g] = IF g = f THEN buf[f] + 1 ELSE buf[g]
  BY DEF TypeOK
<1>2. \A x : x \in Buffered' <=> x \in Buffered \cup {<<f, buf[f] + 1>>}
  BY <1>1 DEF Buffered
<1>3. Buffered' = Buffered \cup {<<f, buf[f] + 1>>}
  BY <1>2
<1>4. <<f, buf[f] + 1>> \notin Buffered
  BY <1>1 DEF Buffered
<1>. QED
  BY <1>3, <1>4, FS_AddElement

LEMMA OneImageLess ==
  ASSUME TypeOK, IsFiniteSet(Buffered), NEW f \in Frames, buf[f] > 0,
         buf' = [buf EXCEPT ![f] = @ - 1]
  PROVE  IsFiniteSet(Buffered') /\ Cardinality(Buffered') = Cardinality(Buffered) - 1
<1>1. buf \in [Frames -> Nat] /\ \A g \in Frames : buf'[g] = IF g = f THEN buf[f] - 1 ELSE buf[g]
  BY DEF TypeOK
<1>2. \A x : x \in Buffered' <=> x \in Buffered \ {<<f, buf[f]>>}
  BY <1>1 DEF Buffered
<1>3. Buffered' = Buffered \ {<<f, buf[f]>>}
  BY <1>2
<1>4. <<f, buf[f]>> \in Buffered
  BY <1>1 DEF Buffered
<1>. QED
  BY <1>3, <1>4, FS_RemoveElement

(* What a step that leaves the stock or lowers it keeps.                   *)
LEMMA BoundStays ==
  ASSUME BoundInv, IsFiniteSet(Buffered'),
         InStock' <= InStock, InStock \in Nat, InStock' \in Nat, BufferLimit \in Nat,
         Pushes' => Pushes \/ InStock' < InStock,
         Pushing' => BufferEmpty',
         spc' \in {"push0", "wakeall", "push"} => nThreads' <= NumThreads,
         spc' \in {"act0", "act"} =>
            \/ nThreads' <= NumThreads
            \/ decision'[Scheduler] = "start" /\ nThreads' = Cardinality(renderThreads') + 1
  PROVE  BoundInv'
<1>1. BufferLimit' = BufferLimit /\ NumThreads' = NumThreads
  BY DEF BufferLimit, NumThreads
<1>2. InStock' <= BufferLimit /\ (Pushes' => InStock' < BufferLimit)
  BY DEF BoundInv
<1>. QED
  BY <1>1, <1>2 DEF BoundInv

(* The scheduler counts the threads it has, and adds one at most.          *)
LEMMA SchedulerAdjustBound ==
  ASSUME Policy = "Ordered", OrderedTypes, OrderedTypes', StartOK, BoundInv,
         StartRender \/ SchedulerAdjust \/ SchedulerAct \/ SchedulerWakeAll
  PROVE  BoundInv'
<1>0. TypeOK /\ NumThreads \in Nat /\ InStock \in Nat /\ BufferLimit \in Nat
  BY StockIsFinite DEF OrderedTypes, BoundInv
<1>1. UNCHANGED <<buf, fakeFrames, framesToRender>>
  BY DEF StartRender, SchedulerAdjust, SchedulerAct, SchedulerWakeAll, bufVars, workVars
<1>2. InHand' = InHand
  <2>0. LabelsOK
    BY <1>0 DEF TypeOK, LabelsOK
  <2>1. CASE AppendRunnable(rpc)
    <3>1. PICK u \in FreeThreads : rpc' = [rpc EXCEPT ![u] = "begin"]
      BY <2>1, NewThread
    <3>. QED
      BY <2>0, <3>1 DEF FreeThreads, InHand, LabelsOK
  <2>2. CASE UNCHANGED rpc \/ rpc' = WakeAll(rpc)
    BY <2>0, <2>2, WakeAllWakes DEF InHand
  <2>. QED
    BY <2>1, <2>2 DEF StartRender, SchedulerAdjust, SchedulerAct, SchedulerWakeAll,
       threadVars
<1>3. InStock' = InStock /\ Buffered' = Buffered /\ (BufferEmpty => BufferEmpty')
  BY <1>1, <1>2 DEF InStock, Buffered, BufferEmpty
<1>4. \A S \in SUBSET Threads : IsFiniteSet(S) /\ Cardinality(S) \in 0 .. NumThreads
  BY <1>0, FS_Subset, FS_CardinalityType DEF NumThreads
<1>5. renderThreads \in SUBSET Threads /\ renderThreads' \in SUBSET Threads
  BY DEF OrderedTypes, TypeOK
<1>6. Cardinality(renderThreads) \in 0 .. NumThreads /\ IsFiniteSet(renderThreads)
      /\ Cardinality(renderThreads') \in 0 .. NumThreads
  BY <1>4, <1>5
<1>7. CASE StartRender
  <2>1. spc = "start" /\ spc' \in {"adjust0", "push0"} /\ nThreads' = Cardinality(renderThreads')
    BY <1>7 DEF StartRender
  <2>2. BufferEmpty
    BY <2>1 DEF BoundInv, Pushing
  <2>. QED
    BY <1>0, <1>3, <1>6, <2>1, <2>2, BoundStays DEF Pushes, BoundInv
<1>8. CASE SchedulerAdjust
  <2>1. /\ ReadThreadCounts(Scheduler) /\ UNCHANGED renderThreads
        /\ nThreads' = NewNThreads(decision'[Scheduler], Cardinality(renderThreads))
        /\ \/ spc = "adjust0" /\ spc' = "act0"
           \/ spc = "adjust" /\ spc' = "act"
    BY <1>8 DEF SchedulerAdjust, threadVars
  <2>2. decision'[Scheduler] \in {"start", "stop", "keep"}
        /\ (decision'[Scheduler] # "start" => Cardinality(renderThreads) > 0)
    BY <1>0, <2>1, ChoiceOK DEF Actors
  <2>3. \/ nThreads' <= NumThreads
        \/ decision'[Scheduler] = "start" /\ nThreads' = Cardinality(renderThreads') + 1
    BY <1>0, <1>6, <2>1, <2>2 DEF NewNThreads
  <2>4. spc' = "act0" => BufferEmpty
    BY <2>1 DEF BoundInv, Pushing
  <2>. QED
    BY <1>0, <1>3, <2>1, <2>3, <2>4, BoundStays DEF Pushes, Pushing, BoundInv
<1>9. CASE SchedulerAct
  <2>1. /\ UNCHANGED nThreads
        /\ \/ spc = "act0" /\ spc' = "push0"
           \/ spc = "act" /\ spc' \in {"push", "wakeall"}
    BY <1>9 DEF SchedulerAct, AfterAdjust, StartOK
  <2>2. nThreads' <= NumThreads
    <3>1. CASE decision[Scheduler] = "start"
      <4>1. AppendRunnable(rpc)
        BY <1>9, <3>1 DEF SchedulerAct
      <4>2. PICK u \in FreeThreads : renderThreads' = renderThreads \cup {u}
        BY <4>1, NewThread
      <4>3. Cardinality(renderThreads') = Cardinality(renderThreads) + 1
        BY <1>6, <4>2, FS_AddElement DEF FreeThreads
      <4>. QED
        BY <1>0, <1>6, <2>1, <4>3 DEF BoundInv
    <3>2. CASE decision[Scheduler] # "start"
      BY <2>1, <3>2 DEF BoundInv
    <3>. QED
      BY <3>1, <3>2
  <2>3. spc' = "push0" => BufferEmpty
    BY <2>1 DEF BoundInv, Pushing
  <2>. QED
    BY <1>0, <1>3, <2>1, <2>2, <2>3, BoundStays DEF Pushes, Pushing, BoundInv
<1>10. CASE SchedulerWakeAll
  <2>1. spc = "wakeall" /\ spc' = "push" /\ UNCHANGED nThreads
    BY <1>10 DEF SchedulerWakeAll
  <2>. QED
    BY <1>0, <1>3, <2>1, BoundStays DEF Pushes, Pushing, BoundInv
<1>. QED
  BY <1>7, <1>8, <1>9, <1>10

(* A push leaves two frames per thread in the queue, or replaces the frame *)
(* that was taken.                                                         *)
LEMMA SchedulerPushBound ==
  ASSUME Policy = "Ordered", OrderedTypes, OrderedTypes', StartOK, DrainInv, BoundInv,
         PushFirstFrames \/ PushUnlessBufferFull
  PROVE  BoundInv'
<1>0. /\ TypeOK /\ NumThreads \in Nat /\ InStock \in Nat /\ BufferLimit \in Nat
      /\ Cardinality(Buffered) \in Nat /\ Cardinality(InHand) \in 0 .. NumThreads
      /\ Len(framesToRender) \in Nat /\ Len(framesToRender)' \in Nat
  BY StockIsFinite, LenProperties DEF OrderedTypes, BoundInv, TypeOK
<1>1. UNCHANGED bufVars /\ UNCHANGED nThreads /\ spc' \in {"top", "process"}
  BY DEF PushFirstFrames, PushUnlessBufferFull
<1>2. InHand' = InHand
  <2>0. LabelsOK
    BY <1>0 DEF TypeOK, LabelsOK
  <2>1. UNCHANGED rpc \/ rpc' = WakeAll(rpc)
    BY DEF PushFirstFrames, PushUnlessBufferFull, PushMoreFrames
  <2>. QED
    BY <2>0, <2>1, WakeAllWakes DEF InHand
<1>3. Buffered' = Buffered /\ ~Pushes' /\ ~Pushing'
  BY <1>1 DEF Buffered, bufVars, Pushes, Pushing
<1>4. /\ Mode \in Modes /\ args \in ArgsType /\ InFrames(args.first, args.last)
      /\ framesToRender \in Seq(Frames) /\ nThreads \in Int
  BY DEF OrderedTypes, TypeOK, Mode, PlaybackType, ArgsType, FramesOK
<1>5. NumThreads > 0 /\ AtLeastOne(nThreads) <= NumThreads /\ AtLeastOne(nThreads) \in Nat
  <2>1. spc \in {"push0", "push"} /\ nThreads <= NumThreads
    BY DEF PushFirstFrames, PushUnlessBufferFull, BoundInv
  <2>2. NumThreads # 0
    BY <2>1, FS_EmptySet DEF StartOK, NumThreads
  <2>. QED
    BY <1>0, <1>4, <2>1, <2>2 DEF AtLeastOne
<1>6. Len(framesToRender)' <= 2 * NumThreads \/ Len(framesToRender)' <= Len(framesToRender) + 1
  <2>1. ASSUME NEW frame \in Frames, NEW push \in Directions, PushFrom(frame, push, nThreads)
        PROVE  \/ Len(framesToRender)' <= 2 * NumThreads
               \/ Len(framesToRender)' <= Len(framesToRender) + 1
    <3>1. \/ Len(framesToRender') <= Len(framesToRender) + 1
          \/ Len(framesToRender') <= 2 * AtLeastOne(nThreads)
      BY <1>0, <1>4, <2>1, PushedFrames
    <3>. QED
      BY <1>0, <1>5, <3>1
  <2>2. CASE PushFirstFrames
    <3>1. PICK frame \in StartFrames : PushFrom(frame, args.push, nThreads)
      BY <2>2 DEF PushFirstFrames
    <3>. QED
      BY <1>4, <2>1, <3>1 DEF ArgsType
  <2>3. CASE PushUnlessBufferFull
    <3>. DEFINE next == NextFrameInSequence(Mode, args.push, lastFramePushed, args.first,
                                            args.last, 1)
    <3>1. lastFramePushed \in Frames /\ args.push \in Directions
      BY <2>3 DEF PushUnlessBufferFull, OrderedTypes, FramesOK, Pushing, TypeOK
    <3>2. next.frame \in Frames /\ next.direction \in Directions
      BY <1>4, <3>1, NextInFrames DEF FrameStep
    <3>3. UNCHANGED framesToRender \/ PushFrom(next.frame, next.direction, nThreads)
      BY <2>3 DEF PushUnlessBufferFull, PushMoreFrames
    <3>. HIDE DEF next
    <3>. QED
      BY <1>0, <2>1, <3>2, <3>3
  <2>. QED
    BY <2>2, <2>3
<1>7. InStock' <= BufferLimit /\ InStock' \in Nat
  <2>0. InStock' = Cardinality(Buffered) + Len(framesToRender)' + Cardinality(InHand)
    BY <1>2, <1>3 DEF InStock
  <2>1. CASE PushFirstFrames
    <3>1. framesToRender = <<>> /\ InHand = {} /\ Buffered = {}
      BY <2>1 DEF PushFirstFrames, DrainInv, Drained, Joined, BoundInv, Pushing, BufferEmpty,
         Buffered
    <3>2. Len(framesToRender) = 0 /\ Cardinality(InHand) = 0 /\ Cardinality(Buffered) = 0
      BY <3>1, FS_EmptySet
    <3>. QED
      BY <1>0, <1>5, <1>6, <2>0, <3>2 DEF BufferLimit
  <2>2. CASE PushUnlessBufferFull
    <3>1. InStock < BufferLimit
      BY <2>2 DEF PushUnlessBufferFull, BoundInv, Pushes
    <3>2. CASE IsBufferFull
      <4>1. UNCHANGED framesToRender
        BY <2>2, <3>2 DEF PushUnlessBufferFull
      <4>. QED
        BY <1>0, <2>0, <3>1, <4>1 DEF InStock
    <3>3. CASE ~IsBufferFull
      <4>1. fakeFrames = 0
        BY DEF OrderedTypes, FramesOK
      <4>2. Cardinality(Buffered) < 3 * HardwareThreads
        BY <1>0, <3>3, <4>1 DEF IsBufferFull, BufferSize
      <4>3. CASE Len(framesToRender)' <= 2 * NumThreads
        BY <1>0, <2>0, <4>2, <4>3 DEF BufferLimit
      <4>4. CASE Len(framesToRender)' <= Len(framesToRender) + 1
        BY <1>0, <2>0, <3>1, <4>4 DEF InStock
      <4>. QED
        BY <1>6, <4>3, <4>4
    <3>. QED
      BY <3>2, <3>3
  <2>. QED
    BY <2>1, <2>2
<1>8. BufferLimit' = BufferLimit
  BY DEF BufferLimit, NumThreads
<1>. QED
  BY <1>1, <1>3, <1>7, <1>8 DEF BoundInv

(* A frame that is taken makes room for another.                           *)
LEMMA SchedulerLoopBound ==
  ASSUME Policy = "Ordered", OrderedTypes, OrderedTypes', BoundInv,
         \/ ReadRenderFinished \/ ReadBufferEmpty \/ TakeFrame \/ ProcessFrame
         \/ ResolveState \/ WaitOrStop \/ ClearWork \/ FlagAllThreads \/ WakeAllThreads
         \/ CopyThreads \/ JoinThreads \/ StopRender
  PROVE  BoundInv'
<1>0. /\ TypeOK /\ InStock \in Nat /\ BufferLimit \in Nat /\ Cardinality(Buffered) \in Nat
      /\ Cardinality(InHand) \in Nat /\ Len(framesToRender) \in Nat /\ NumThreads \in Nat
      /\ IsFiniteSet(Buffered)
  BY StockIsFinite DEF OrderedTypes, BoundInv
<1>1. InHand' = InHand
  <2>0. LabelsOK
    BY <1>0 DEF TypeOK, LabelsOK
  <2>1. UNCHANGED rpc \/ rpc' = WakeAll(rpc)
    BY DEF ReadRenderFinished, ReadBufferEmpty, TakeFrame, ProcessFrame, ResolveState,
       WaitOrStop, ClearWork, FlagAllThreads, WakeAllThreads, CopyThreads, JoinThreads,
       StopRender, threadVars
  <2>. QED
    BY <2>0, <2>1, WakeAllWakes DEF InHand
<1>2. ~Pushing' /\ spc' \notin {"push0", "wakeall", "push", "act0", "act"}
      /\ (spc' = "adjust" => TakeFrame)
  BY DEF ReadRenderFinished, ReadBufferEmpty, TakeFrame, GiveUp, WaitForExpected,
     TakeExpected, ProcessFrame, ResolveState, WaitOrStop, ClearWork, FlagAllThreads,
     WakeAllThreads, CopyThreads, JoinThreads, StopRender, Pushing
<1>3. IsFiniteSet(Buffered') /\ InStock' \in Nat /\ InStock' <= InStock
      /\ (spc' = "adjust" => InStock' < InStock)
  <2>0. InStock' = Cardinality(Buffered') + Len(framesToRender') + Cardinality(InHand)
    BY <1>1 DEF InStock
  <2>1. CASE StopRender
    <3>1. buf' = [f \in Frames |-> 0] /\ UNCHANGED framesToRender /\ spc' = "idle"
      BY <2>1 DEF StopRender, ClearBuffer, workVars
    <3>2. Buffered' = {}
      BY <3>1 DEF Buffered
    <3>3. IsFiniteSet(Buffered') /\ Cardinality(Buffered') = 0
      BY <3>2, FS_EmptySet
    <3>. QED
      BY <1>0, <2>0, <3>1, <3>3 DEF InStock
  <2>2. CASE ClearWork
    <3>1. UNCHANGED buf /\ framesToRender' = <<>> /\ spc' = "flag"
      BY <2>2 DEF ClearWork, bufVars
    <3>2. Buffered' = Buffered /\ Len(framesToRender') = 0
      BY <3>1 DEF Buffered
    <3>. QED
      BY <1>0, <2>0, <3>1, <3>2 DEF InStock
  <2>3. CASE TakeFrame /\ (spc' = "adjust" \/ buf' # buf)
    <3>1. /\ buf[expectFrameToRender] > 0 /\ UNCHANGED framesToRender
          /\ buf' = [buf EXCEPT ![expectFrameToRender] = @ - 1]
      BY <2>3 DEF TakeFrame, GiveUp, WaitForExpected, TakeExpected, TakeFromBuffer
    <3>2. expectFrameToRender \in Frames
      BY <2>3 DEF TakeFrame, OrderedTypes, FramesOK, Pushing
    <3>3. IsFiniteSet(Buffered') /\ Cardinality(Buffered') = Cardinality(Buffered) - 1
      BY <1>0, <3>1, <3>2, OneImageLess
    <3>4. Cardinality(Buffered') \in Nat
      BY <3>3, FS_CardinalityType
    <3>. QED
      BY <1>0, <2>0, <3>1, <3>3, <3>4 DEF InStock
  <2>4. CASE UNCHANGED <<buf, framesToRender>> /\ spc' # "adjust"
    <3>1. Buffered' = Buffered
      BY <2>4 DEF Buffered
    <3>. QED
      BY <1>0, <2>0, <2>4, <3>1 DEF InStock
  <2>5. UNCHANGED <<buf, framesToRender>> \/ ClearWork \/ StopRender \/ TakeFrame
    BY DEF ReadRenderFinished, ReadBufferEmpty, ProcessFrame, ResolveState,
       WaitOrStop, FlagAllThreads, WakeAllThreads, CopyThreads, JoinThreads, bufVars, workVars
  <2>6. TakeFrame => UNCHANGED framesToRender
    BY DEF TakeFrame
  <2>7. CASE TakeFrame
    <3>1. CASE spc' = "adjust" \/ buf' # buf
      BY <2>3, <2>7, <3>1
    <3>2. CASE ~(spc' = "adjust" \/ buf' # buf)
      BY <2>4, <2>6, <2>7, <3>2
    <3>. QED
      BY <3>1, <3>2
  <2>8. CASE ~TakeFrame /\ ~ClearWork /\ ~StopRender
    BY <1>2, <2>4, <2>5, <2>8
  <2>. QED
    BY <2>1, <2>2, <2>7, <2>8
<1>4. Pushes' => InStock' < InStock
  BY <1>2, <1>3 DEF Pushes
<1>. QED
  BY <1>0, <1>2, <1>3, <1>4, BoundStays

(* A render thread moves a frame from the queue to its hands, and from     *)
(* there to the buffer.                                                    *)
LEMMA RenderThreadBound ==
  ASSUME Policy = "Ordered", OrderedTypes, OrderedTypes', DrainInv, StopInv, BoundInv,
         NEW t \in Threads, RenderThreadStep(t)
  PROVE  BoundInv'
<1>0. /\ TypeOK /\ LabelsOK /\ rpc[t] \notin FFALabels
      /\ InStock \in Nat /\ BufferLimit \in Nat /\ Cardinality(Buffered) \in Nat
      /\ Cardinality(InHand) \in Nat /\ Len(framesToRender) \in Nat
      /\ IsFiniteSet(InHand) /\ IsFiniteSet(Buffered)
      /\ IsFiniteSet(InHand') /\ Cardinality(InHand') \in Nat
  <2>1. IsFiniteSet(InHand')
    <3>1. InHand' \in SUBSET Threads
      BY DEF InHand
    <3>. QED
      BY <3>1, FS_Subset
  <2>. QED
    BY <2>1, StockIsFinite, FS_CardinalityType DEF OrderedTypes, BoundInv, StopInv, TypeOK,
       LabelsOK
<1>1. /\ UNCHANGED <<nThreads, decision, renderThreads, fakeFrames>>
      /\ UNCHANGED spc \/ (spc = "waiting" /\ spc' = "top")
  BY OrderedThreadKeeps
<1>2. PICK l \in RenderLabels : Move(t, l)
  BY <1>0, OrderedThread
<1>3. /\ rpc'[t] = l /\ rpc'[t] \in RenderLabels
      /\ \A u \in Threads : u # t => rpc'[u] = rpc[u]
  BY <1>0, <1>2 DEF LabelsOK, Move
<1>4. /\ IsFiniteSet(Buffered') /\ InStock' <= InStock /\ InStock' \in Nat
      /\ Pushing => UNCHANGED buf
  <2>0. /\ InStock' = Cardinality(Buffered') + Len(framesToRender') + Cardinality(InHand')
        /\ InStock = Cardinality(Buffered) + Len(framesToRender) + Cardinality(InHand)
    BY DEF InStock
  <2>1. CASE PickFrame(t) /\ framesToRender # <<>>
    <3>1. framesToRender' = Tail(framesToRender) /\ UNCHANGED buf /\ Move(t, "got") /\ At(t, "take")
      BY <2>1 DEF PickFrame, QueueWithoutFront, bufVars
    <3>2. Len(framesToRender') = Len(framesToRender) - 1 /\ Len(framesToRender') \in Nat
      BY <2>1, <3>1, HeadTailProperties, LenProperties DEF OrderedTypes, TypeOK
    <3>3. InHand' = InHand \cup {t} /\ t \notin InHand
      BY <1>0, <1>3, <3>1 DEF InHand, Move, At, LabelsOK
    <3>4. Cardinality(InHand') = Cardinality(InHand) + 1
      BY <1>0, <3>3, FS_AddElement
    <3>5. Buffered' = Buffered
      BY <3>1 DEF Buffered
    <3>. QED
      <4>1. InStock' = InStock
        BY <1>0, <2>0, <3>2, <3>4, <3>5
      <4>. QED
        BY <1>0, <3>1, <3>5, <4>1
  <2>2. CASE RenderFrameOrdered(t)
    <3>1. /\ buf' = [buf EXCEPT ![frameOf[t]] = @ + 1] /\ UNCHANGED framesToRender
          /\ Move(t, "done") /\ At(t, "render")
      BY <2>2 DEF RenderFrameOrdered, workVars
    <3>2. frameOf[t] \in Frames /\ t \in InHand
      BY <3>1 DEF OrderedTypes, FramesOK, InHand, At
    <3>3. IsFiniteSet(Buffered') /\ Cardinality(Buffered') = Cardinality(Buffered) + 1
      BY <1>0, <3>1, <3>2, OneImageMore
    <3>4. InHand' = InHand \ {t}
      BY <1>0, <1>3, <3>1 DEF InHand, Move, LabelsOK
    <3>5. Cardinality(InHand') = Cardinality(InHand) - 1
      BY <1>0, <3>2, <3>4, FS_RemoveElement
    <3>6. ~Pushing
      BY <3>2 DEF DrainInv, Joined, Pushing
    <3>. QED
      BY <1>0, <2>0, <3>1, <3>3, <3>5, <3>6 DEF InStock
  <2>3. CASE ~(PickFrame(t) /\ framesToRender # <<>>) /\ ~RenderFrameOrdered(t)
    <3>1. UNCHANGED <<buf, framesToRender>>
      <4>1. CASE PickFrame(t)
        BY <2>3, <4>1 DEF PickFrame, bufVars
      <4>2. CASE ~PickFrame(t)
        BY <1>0, <2>3, <4>2 DEF RenderThreadStep, BeginRun, CheckMustQuit, RenderFrameFFA,
           RenderNothing, RenderFails, AbortOnFailure, WakeOnFailure, CountFrame,
           AppendFakeFrame, RenderThreadAdjust, RenderThreadAct, RenderThreadWakeAll,
           FrameDone, Quit, Leave, bufVars, workVars
      <4>. QED
        BY <4>1, <4>2
    <3>2. InHand' \subseteq InHand
      <4>1. CASE PickFrame(t)
        <5>1. rpc'[t] \in {"quit", "asleep"}
          BY <1>0, <2>3, <4>1 DEF PickFrame, Move, LabelsOK
        <5>. QED
          BY <1>3, <5>1 DEF InHand
      <4>2. CASE CheckMustQuit(t)
        BY <1>3, <4>2 DEF CheckMustQuit, At, InHand
      <4>3. CASE FrameDone(t)
        <5>1. rpc'[t] \in {"quit", "take"}
          BY <1>0, <4>3 DEF FrameDone, Move, LabelsOK
        <5>. QED
          BY <1>3, <5>1 DEF InHand
      <4>4. CASE ~PickFrame(t) /\ ~CheckMustQuit(t) /\ ~FrameDone(t)
        <5>1. rpc'[t] \notin {"got", "render", "notify"}
          BY <1>0, <2>3, <4>4 DEF RenderThreadStep, BeginRun, RenderFrameFFA,
             RenderNothing, RenderFails, AbortOnFailure, WakeOnFailure, CountFrame,
             AppendFakeFrame, RenderThreadAdjust, RenderThreadAct, RenderThreadWakeAll,
             Quit, Leave, Move, At, LabelsOK, FFALabels
        <5>. QED
          BY <1>3, <5>1 DEF InHand
      <4>. QED
        BY <4>1, <4>2, <4>3, <4>4
    <3>3. Cardinality(InHand') <= Cardinality(InHand)
      BY <1>0, <3>2, FS_Subset
    <3>4. Buffered' = Buffered
      BY <3>1 DEF Buffered
    <3>. QED
      BY <1>0, <2>0, <3>1, <3>3, <3>4 DEF InStock
  <2>. QED
    BY <2>1, <2>2, <2>3
<1>5. /\ Pushes' => Pushes
      /\ Pushing' => BufferEmpty'
      /\ spc' \in {"push0", "wakeall", "push", "act0", "act"} => UNCHANGED spc
  BY <1>1, <1>4 DEF Pushes, Pushing, BufferEmpty, BoundInv
<1>6. spc' \in {"push0", "wakeall", "push"} => nThreads' <= NumThreads
  BY <1>1, <1>5 DEF BoundInv
<1>7. spc' \in {"act0", "act"} =>
          \/ nThreads' <= NumThreads
          \/ decision'[Scheduler] = "start" /\ nThreads' = Cardinality(renderThreads') + 1
  BY <1>1, <1>5 DEF BoundInv
<1>. QED
  BY <1>0, <1>4, <1>5, <1>6, <1>7, BoundStays

(* What waits is kept within the limit.                                    *)
LEMMA BoundKept ==
  ASSUME Policy = "Ordered", DrainInv, StopInv, StartOK, OrderedTypes, OrderedTypes',
         BoundInv, [Next]_vars
  PROVE  BoundInv'
<1>1. ASSUME NEW t \in Threads, RenderThreadStep(t) PROVE BoundInv'
  BY <1>1, RenderThreadBound
<1>2. CASE SchedulerStep
  BY <1>2, SchedulerAdjustBound, SchedulerPushBound, SchedulerLoopBound DEF SchedulerStep
<1>3. CASE RenderFrameRange \/ AbortRendering \/ OnAbortRequested \/ ChangeRange
           \/ UNCHANGED vars
  <2>1. InStock \in Nat /\ BufferLimit \in Nat
    BY StockIsFinite DEF OrderedTypes, BoundInv
  <2>2. UNCHANGED <<buf, fakeFrames, framesToRender, rpc, nThreads, decision, renderThreads>>
    BY <1>3 DEF RenderFrameRange, AbortRendering, OnAbortRequested, ChangeRange, vars,
       bufVars, workVars, threadVars, schedVars
  <2>3. InStock' = InStock /\ Buffered' = Buffered /\ (BufferEmpty => BufferEmpty')
    BY <2>2 DEF InStock, Buffered, InHand, BufferEmpty
  <2>4. UNCHANGED spc \/ (spc = "waiting" /\ spc' = "top") \/ (spc = "idle" /\ spc' = "start")
    BY <1>3 DEF RenderFrameRange, AbortRendering, OnAbortRequested, ChangeRange, vars,
       schedVars, WakeScheduler
  <2>5. (Pushes' => Pushes) /\ (Pushing' => BufferEmpty')
    BY <2>3, <2>4 DEF Pushes, Pushing, StopInv, BoundInv
  <2>. QED
    BY <2>1, <2>2, <2>3, <2>4, <2>5, BoundStays DEF BoundInv
<1>. QED
  BY <1>1, <1>2, <1>3 DEF Next

(* A render that has not started satisfies all of it.                      *)
LEMMA OrderedStart ==
  ASSUME Init
  PROVE  AliveInv /\ DrainInv /\ StopInv /\ StartOK /\ OrderedTypes /\ BoundInv
<1>1. LabelsOK /\ Working = {} /\ InHand = {} /\ \A t \in Threads : rpc[t] \notin FFALabels
  BY DEF Init, LabelsOK, RenderLabels, FFALabels, Working, InHand
<1>2. BufferEmpty /\ ~abortRequested
  BY DEF Init, BufferEmpty
<1>3. AliveInv /\ DrainInv /\ StopInv /\ StartOK
  BY <1>1, <1>2 DEF Init, AliveInv, DrainInv, StopInv, StartOK
<1>4. InFrames(bounds[1], bounds[2]) /\ bounds \in Bounds /\ 0 \in 0 .. StallLimit
  BY FramesAreNumbers DEF Init
<1>5. FramesOK
  BY <1>1, <1>4 DEF Init, FramesOK, Pushing
<1>6. TypeOK
  <2>1. args \in ArgsType
    BY <1>4 DEF Init, ArgsType, InFrames
  <2>2. /\ decision \in [Actors -> AdjustChoices] /\ spc \in SchedLabels
        /\ buf \in [Frames -> Nat] /\ rendered \in [Frames -> 0 .. 2]
        /\ frameOf \in [Threads -> Frames \cup {NoFrame}] /\ framesToRender \in Seq(Frames)
    BY DEF Init, AdjustChoices, SchedLabels
  <2>3. /\ playback \in Playbacks /\ bounds \in Bounds
        /\ lastFramePushed = NoFrame /\ expectFrameToRender = NoFrame /\ fakeFrames = 0
        /\ nFramesRendered = 0 /\ renderFinished = FALSE
        /\ renderThreads = {} /\ running = {} /\ mustQuit = {} /\ hasQuit = {}
        /\ finished = FALSE /\ taken = NoFrame /\ nThreads = 0 /\ previous = NoFrame
        /\ stalled = 0 /\ awaited = {} /\ abortRequested = FALSE /\ aborter = "idle"
        /\ processed = NoFrame
    BY DEF Init
  <2>4. rpc \in [Threads -> RenderLabels]
    BY <1>1 DEF LabelsOK
  <2>5. /\ lastFramePushed \in Frames \cup {NoFrame}
        /\ expectFrameToRender \in Frames \cup {NoFrame} /\ fakeFrames \in Nat
        /\ nFramesRendered \in Nat /\ renderFinished \in BOOLEAN
        /\ renderThreads \subseteq Threads /\ running \subseteq Threads
        /\ mustQuit \subseteq Threads /\ hasQuit \subseteq Threads
        /\ finished \in BOOLEAN /\ taken \in Frames \cup {NoFrame} /\ nThreads \in Int
        /\ previous \in Frames \cup {NoFrame} /\ stalled \in 0 .. StallLimit
        /\ awaited \subseteq Threads /\ abortRequested \in BOOLEAN
        /\ aborter \in {"idle", "wake"} /\ processed \in Frames \cup {NoFrame}
    <3>1. renderFinished \in BOOLEAN /\ finished \in BOOLEAN /\ abortRequested \in BOOLEAN
      BY ONLY <2>3
    <3>2. fakeFrames \in Nat /\ nFramesRendered \in Nat /\ nThreads \in Int
      BY ONLY <2>3
    <3>3. stalled \in 0 .. StallLimit
      BY ONLY <1>4, <2>3
    <3>. QED
      BY ONLY <2>3, <3>1, <3>2, <3>3
  <2>. QED
    BY ONLY <2>1, <2>2, <2>3, <2>4, <2>5 DEF TypeOK, ArgsType
<1>7. Buffered = {} /\ Len(framesToRender) = 0
  BY DEF Init, Buffered
<1>8. IsFiniteSet(Buffered) /\ InStock = 0
  BY <1>1, <1>7, FS_EmptySet DEF InStock
<1>9. BufferLimit \in Nat
  BY <1>6, StockIsFinite
<1>10. BoundInv
  BY <1>2, <1>8, <1>9 DEF Init, BoundInv, Pushes
<1>. QED
  BY <1>3, <1>5, <1>6, <1>10 DEF OrderedTypes

(* BufferInv, for an ordered render, whatever the clients do to the range: *)
(* its state is one the code may be in, and the frames queued, in hand and *)
(* buffered stay within the limit of isBufferFull() and three frames for   *)
(* each thread.                                                            *)
THEOREM BufferStaysBounded ==
  ASSUME Policy = "Ordered"
  PROVE  Spec => []BufferInv
<1>. DEFINE Inv == /\ AliveInv /\ DrainInv /\ StopInv
                   /\ StartOK /\ OrderedTypes /\ BoundInv
<1>1. Init => Inv
  BY OrderedStart
<1>2. Inv /\ [Next]_vars => Inv'
  <2>. SUFFICES ASSUME Inv, [Next]_vars PROVE Inv'
    OBVIOUS
  <2>1. AliveInv' /\ DrainInv' /\ StopInv'
    BY AliveKept, DrainKept, StopKept
  <2>2. StartOK'
    BY StartKept DEF OrderedTypes
  <2>3. OrderedTypes'
    BY TypesKept
  <2>4. BoundInv'
    BY <2>3, BoundKept
  <2>. QED
    BY <2>1, <2>2, <2>3, <2>4
<1>3. Inv => BufferInv
  <2>. SUFFICES ASSUME Inv PROVE BufferInv
    OBVIOUS
  (* stopRender() joins every thread that works, so nobody appends to the buffer after *)
  <2>1. StoppedIsClean
    BY DEF DrainInv, Drained, StopInv, AliveInv, LabelsOK, Working, StoppedIsClean
  <2>2. BufferIsBounded
    <3>1. BufferSize = Cardinality(Buffered) /\ Cardinality(Buffered) \in Nat
      BY StockIsFinite DEF BufferSize, OrderedTypes, FramesOK, BoundInv
    <3>. QED
      BY <3>1 DEF BufferIsBounded, BoundInv, InStock, BufferLimit, NumThreads
  <2>. QED
    BY <2>1, <2>2 DEF BufferInv, OrderedTypes
<1>. QED
  BY <1>1, <1>2, <1>3, PTL DEF Spec

-----------------------------------------------------------------------------
(* The frame the scheduler awaits, when the number of renders is settled   *)

Steady == ~ \E m, n \in playback.parallel : m < n
AtWork == spc \in {"top", "empty", "take", "adjust", "act", "wakeall", "push", "process",
                   "resolve", "decide", "waiting"}
Expecting == AtWork /\ ~finished /\ ~abortRequested /\ Steady

(* A pool of one size never has a thread too many, so none that works is   *)
(* asked to quit before the render stops.                                  *)
PoolInv ==
    Steady =>
        /\ \A s \in playback.parallel :
              /\ Cardinality(renderThreads) <= OptimalNThreads(s)
              /\ spc \in {"act0", "act"} /\ decision[Scheduler] = "start" =>
                    Cardinality(renderThreads) < OptimalNThreads(s)
        /\ spc # "wakeall" /\ (spc \in {"act0", "act"} => decision[Scheduler] # "stop")
        /\ spc \notin {"stopwake", "copy", "join"} => Working \cap mustQuit = {}

(* A render that waits, or begins, is not finished.                        *)
UnfinishedInv == spc \in {"start", "adjust0", "act0", "push0", "top", "waiting"} => ~finished

(* The frames pushed are a walk w of the sequence.  Those before e were    *)
(* taken from the buffer, those from q on are queued, and those between    *)
(* are in hand or buffered, in any order, or nothing came of them.         *)
IsWalk(w) == w \in [Nat -> FrameStep] /\ \A n \in Nat : w[n + 1] = StepAfter(w[n])
ExpectedAt(w, e) == w[e].frame = expectFrameToRender /\ w[e].direction = args.process
PushedTo(w, m) == m > 0 /\ w[m - 1].frame = lastFramePushed /\ w[m - 1].direction = args.push
QueuedFrom(w, q, m) ==
    Len(framesToRender) = m - q /\ \A i \in 1 .. m - q : framesToRender[i] = w[q + (i - 1)].frame

Shown(f) == f \notin Failing \cup Silent
Carriers(f) == {t \in Threads : rpc[t] \in {"got", "render"} /\ frameOf[t] = f}
OnItsWay(f) == Cardinality(Carriers(f)) + buf[f]
Visits(w, e, q, f) == {j \in e .. q - 1 : w[j].frame = f}
CountedIn(w, e, q) ==
    \A f \in Frames : /\ OnItsWay(f) <= Cardinality(Visits(w, e, q, f))
                      /\ Shown(f) => OnItsWay(f) = Cardinality(Visits(w, e, q, f))

(* Only between taking a frame and pushing the next may nothing be left.   *)
Coming(w, e, q, m) ==
    /\ e <= q /\ q <= m /\ (e < m \/ (Pushes /\ w[e].canContinue))
    /\ IsWalk(w) /\ ExpectedAt(w, e) /\ PushedTo(w, m) /\ QueuedFrom(w, q, m)
    /\ CountedIn(w, e, q)
ComingInv ==
    Expecting => /\ Pushes => args.first # args.last
                 /\ \E w \in [Nat -> FrameStep], e, q, m \in Nat : Coming(w, e, q, m)

(* A playback nobody changes that does not bounce, and does not loop over  *)
(* a single frame.                                                         *)
PlaysOn ==
    /\ MaxRangeChanges = 0
    /\ \A p \in Playbacks : /\ p.mode # "Bounce"
                            /\ p.mode = "Once" \/ \A b \in Bounds : b[1] < b[2]

(* What a playback leaves of the functions of the sequence.                *)
LEMMA WalkStays ==
  ASSUME MaxRangeChanges = 0, RangeInv, [Next]_vars, NEW w, IsWalk(w)
  PROVE  IsWalk(w)'
<1>1. Mode' = Mode /\ args'.first = args.first /\ args'.last = args.last
  BY RangeKept
<1>2. \A s : StepAfter(s)' = StepAfter(s)
  BY <1>1 DEF StepAfter
<1>. QED
  BY <1>2 DEF IsWalk

(* Threads are finitely many, and so are the frames of a part of a walk.   *)
LEMMA CarriersCount ==
  \A S \in SUBSET Threads : IsFiniteSet(S) /\ Cardinality(S) \in Nat
BY FS_Subset, FS_CardinalityType

LEMMA VisitsCount ==
  ASSUME NEW w, NEW e \in Nat, NEW q \in Nat, NEW f
  PROVE  /\ IsFiniteSet(Visits(w, e, q, f)) /\ Cardinality(Visits(w, e, q, f)) \in Nat
         /\ e = q => Cardinality(Visits(w, e, q, f)) = 0
         /\ e <= q => Cardinality(Visits(w, e, q + 1, f)) =
                        Cardinality(Visits(w, e, q, f)) + (IF w[q].frame = f THEN 1 ELSE 0)
         /\ e < q => Cardinality(Visits(w, e, q, f)) =
                        Cardinality(Visits(w, e + 1, q, f)) + (IF w[e].frame = f THEN 1 ELSE 0)
<1>1. \A a, b \in Nat : IsFiniteSet(Visits(w, a, b, f)) /\ Cardinality(Visits(w, a, b, f)) \in Nat
  <2>. SUFFICES ASSUME NEW a \in Nat, NEW b \in Nat
                PROVE  IsFiniteSet(Visits(w, a, b, f)) /\ Cardinality(Visits(w, a, b, f)) \in Nat
    OBVIOUS
  <2>1. IsFiniteSet(a .. b - 1)
    <3>1. a \in Int /\ b - 1 \in Int
      OBVIOUS
    <3>. QED
      BY <3>1, FS_Interval
  <2>2. Visits(w, a, b, f) \subseteq a .. b - 1
    BY DEF Visits
  <2>. QED
    BY <2>1, <2>2, FS_Subset, FS_CardinalityType
<1>2. e = q => Cardinality(Visits(w, e, q, f)) = 0
  <2>1. e = q => Visits(w, e, q, f) = {}
    BY DEF Visits
  <2>. QED
    BY <2>1, FS_EmptySet
<1>3. ASSUME e <= q
      PROVE  Cardinality(Visits(w, e, q + 1, f)) =
               Cardinality(Visits(w, e, q, f)) + (IF w[q].frame = f THEN 1 ELSE 0)
  <2>1. q \notin Visits(w, e, q, f)
    BY DEF Visits
  <2>2. Visits(w, e, q + 1, f) = IF w[q].frame = f THEN Visits(w, e, q, f) \cup {q}
                                                   ELSE Visits(w, e, q, f)
    BY <1>3 DEF Visits
  <2>3. IsFiniteSet(Visits(w, e, q, f)) /\ Cardinality(Visits(w, e, q, f)) \in Nat
    BY <1>1
  <2>4. Cardinality(Visits(w, e, q, f) \cup {q}) = Cardinality(Visits(w, e, q, f)) + 1
    BY ONLY <2>1, <2>3, FS_AddElement
  <2>. QED
    BY ONLY <2>2, <2>3, <2>4
<1>4. ASSUME e < q
      PROVE  Cardinality(Visits(w, e, q, f)) =
               Cardinality(Visits(w, e + 1, q, f)) + (IF w[e].frame = f THEN 1 ELSE 0)
  <2>1. e \notin Visits(w, e + 1, q, f)
    BY DEF Visits
  <2>2. Visits(w, e, q, f) = IF w[e].frame = f THEN Visits(w, e + 1, q, f) \cup {e}
                                               ELSE Visits(w, e + 1, q, f)
    BY <1>4 DEF Visits
  <2>3. IsFiniteSet(Visits(w, e + 1, q, f)) /\ Cardinality(Visits(w, e + 1, q, f)) \in Nat
    <3>1. e + 1 \in Nat
      OBVIOUS
    <3>. QED
      BY ONLY <1>1, <3>1, q \in Nat
  <2>4. Cardinality(Visits(w, e + 1, q, f) \cup {e}) = Cardinality(Visits(w, e + 1, q, f)) + 1
    BY ONLY <2>1, <2>3, FS_AddElement
  <2>. QED
    BY ONLY <2>2, <2>3, <2>4
<1>. QED
  BY <1>1, <1>2, <1>3, <1>4

(* The awaited frame of a walk that is coming is queued, in hand, or       *)
(* buffered, unless nothing comes of it.                                   *)
LEMMA ComingFrame ==
  ASSUME OrderedTypes, NEW w, NEW e \in Nat, NEW q \in Nat, NEW m \in Nat,
         Coming(w, e, q, m), e < m, Shown(expectFrameToRender),
         expectFrameToRender \in Frames
  PROVE  expectFrameToRender \in Queued \cup FramesInHand \/ buf[expectFrameToRender] > 0
<1>. DEFINE f == expectFrameToRender
<1>1. w[e].frame = f /\ e <= q /\ q <= m
  BY DEF Coming, ExpectedAt
<1>2. CASE e = q
  <2>1. 1 \in 1 .. m - q /\ q + (1 - 1) = e /\ Len(framesToRender) = m - q
    BY <1>1, <1>2 DEF Coming, QueuedFrom
  <2>2. framesToRender[1] = f
    BY <1>1, <2>1 DEF Coming, QueuedFrom
  <2>3. 1 \in DOMAIN framesToRender
    BY <2>1, LenProperties DEF OrderedTypes, TypeOK
  <2>. QED
    BY <2>2, <2>3 DEF Queued
<1>3. CASE e < q
  <2>1. Cardinality(Visits(w, e, q, f)) > 0
    <3>1. e + 1 \in Nat
      OBVIOUS
    <3>2. Cardinality(Visits(w, e + 1, q, f)) \in Nat
      BY <3>1, VisitsCount
    <3>3. Cardinality(Visits(w, e, q, f)) = Cardinality(Visits(w, e + 1, q, f)) + 1
      BY <1>1, <1>3, VisitsCount
    <3>. QED
      BY <3>2, <3>3
  <2>2. OnItsWay(f) > 0
    BY <2>1 DEF Coming, CountedIn
  <2>3. CASE Carriers(f) = {}
    <3>1. Cardinality(Carriers(f)) = 0
      BY <2>3, FS_EmptySet
    <3>2. buf[f] \in Nat
      BY DEF OrderedTypes, TypeOK
    <3>. QED
      BY <2>2, <3>1, <3>2 DEF OnItsWay
  <2>4. CASE Carriers(f) # {}
    BY <2>4 DEF Carriers, FramesInHand, InHand
  <2>. QED
    BY <2>3, <2>4
<1>. QED
  BY <1>1, <1>2, <1>3

(* The pool is adjusted by the scheduler alone, towards one number.        *)
LEMMA PoolKept ==
  ASSUME MaxRangeChanges = 0, Policy = "Ordered", RangeInv, AliveInv, StopInv, StopInv',
         OrderedTypes, PoolInv, [Next]_vars
  PROVE  PoolInv'
<1>0. playback' = playback /\ LabelsOK /\ TypeOK
  BY RangeKept DEF AliveInv, OrderedTypes
<1>1. SUFFICES ASSUME Steady
               PROVE  /\ \A s \in playback.parallel :
                            /\ Cardinality(renderThreads') <= OptimalNThreads(s)
                            /\ spc' \in {"act0", "act"} /\ decision'[Scheduler] = "start" =>
                                  Cardinality(renderThreads') < OptimalNThreads(s)
                      /\ spc' # "wakeall"
                      /\ spc' \in {"act0", "act"} => decision'[Scheduler] # "stop"
                      /\ spc' \notin {"stopwake", "copy", "join"} => Working' \cap mustQuit' = {}
  <2>1. Steady' <=> Steady
    BY <1>0 DEF Steady
  <2>2. \A s \in playback.parallel : OptimalNThreads(s)' = OptimalNThreads(s)
    BY DEF OptimalNThreads
  <2>. QED
    BY <1>0, <2>1, <2>2 DEF PoolInv
<1>2. \A s \in playback.parallel : OptimalNThreads(s) \in Nat /\ OptimalNThreads(s) > 0
  <2>1. playback.parallel \subseteq Nat
    BY <1>0 DEF TypeOK, PlaybackType
  <2>. QED
    BY <2>1 DEF OptimalNThreads
<1>3. \A s, n \in playback.parallel : s = n
  <2>1. playback.parallel \subseteq Nat
    BY <1>0 DEF TypeOK, PlaybackType
  <2>. QED
    BY <1>1, <2>1 DEF Steady
<1>4. /\ \A s \in playback.parallel :
            /\ Cardinality(renderThreads) <= OptimalNThreads(s)
            /\ spc \in {"act0", "act"} /\ decision[Scheduler] = "start" =>
                  Cardinality(renderThreads) < OptimalNThreads(s)
      /\ spc # "wakeall" /\ (spc \in {"act0", "act"} => decision[Scheduler] # "stop")
      /\ spc \notin {"stopwake", "copy", "join"} => Working \cap mustQuit = {}
  BY <1>1 DEF PoolInv
<1>5. IsFiniteSet(renderThreads) /\ Cardinality(renderThreads) \in Nat
      /\ \A S \in SUBSET renderThreads : Cardinality(S) \in Nat
                                         /\ Cardinality(S) <= Cardinality(renderThreads)
  <2>1. renderThreads \in SUBSET Threads
    BY <1>0 DEF TypeOK
  <2>2. IsFiniteSet(renderThreads)
    BY <2>1, CarriersCount
  <2>. QED
    BY <2>2, FS_Subset, FS_CardinalityType
<1>6. UNCHANGED rpc \/ rpc' = WakeAll(rpc) => Working' = Working
  BY <1>0, WakeAllWakes DEF Working, LabelsOK
<1>7. ASSUME NEW t \in Threads, RenderThreadStep(t)
      PROVE  /\ UNCHANGED <<renderThreads, mustQuit, decision>> /\ Working' \subseteq Working
             /\ UNCHANGED spc \/ (spc = "waiting" /\ spc' = "top")
  <2>1. PICK l \in RenderLabels \ FFALabels : Move(t, l) /\ (t \notin Working => l = "gone")
    BY <1>0, <1>7, OrderedThread DEF StopInv
  <2>2. Working' \subseteq Working
    BY <1>0, <2>1 DEF Working, Move, LabelsOK
  <2>. QED
    BY <1>7, <2>2, OrderedThreadKeeps
<1>8. CASE \E t \in Threads : RenderThreadStep(t)
  BY <1>4, <1>7, <1>8
<1>9. CASE SchedulerAdjust
  <2>1. /\ ReadThreadCounts(Scheduler) /\ UNCHANGED <<renderThreads, rpc, mustQuit>>
        /\ spc \in {"adjust0", "adjust"} /\ spc' \in {"act0", "act"}
    BY <1>9 DEF SchedulerAdjust, threadVars
  <2>2. PICK other \in OtherThreads, setting \in playback.parallel :
          decision' = [decision EXCEPT ![Scheduler] =
              AdjustChoice(Cardinality(running) + other, Cardinality(renderThreads),
                           OptimalNThreads(setting))]
    BY <2>1 DEF ReadThreadCounts
  <2>3. decision'[Scheduler] = AdjustChoice(Cardinality(running) + other,
                                   Cardinality(renderThreads), OptimalNThreads(setting))
    BY <1>0, <2>2 DEF TypeOK, Actors
  <2>4. /\ decision'[Scheduler] # "stop"
        /\ decision'[Scheduler] = "start" =>
             Cardinality(renderThreads) < OptimalNThreads(setting)
    BY <1>2, <1>4, <1>5, <2>3 DEF AdjustChoice
  <2>5. Working' = Working
    BY <1>6, <2>1
  <2>. QED
    BY <1>3, <1>4, <2>1, <2>4, <2>5
<1>10. CASE SchedulerAct
  <2>1. spc \in {"act0", "act"} /\ decision[Scheduler] # "stop"
    BY <1>4, <1>10 DEF SchedulerAct
  <2>2. CASE decision[Scheduler] = "start"
    <3>1. AppendRunnable(rpc) /\ spc' \in {"push0", "push"}
      BY <1>10, <2>2 DEF SchedulerAct, AfterAdjust
    <3>2. PICK u \in FreeThreads :
            /\ renderThreads' = renderThreads \cup {u}
            /\ rpc' = [rpc EXCEPT ![u] = "begin"] /\ mustQuit' = mustQuit \ {u}
      BY <3>1, NewThread
    <3>3. Cardinality(renderThreads') = Cardinality(renderThreads) + 1
      BY <1>5, <3>2, FS_AddElement DEF FreeThreads
    <3>4. \A s \in playback.parallel : Cardinality(renderThreads') <= OptimalNThreads(s)
      BY <1>2, <1>4, <1>5, <2>1, <2>2, <3>3
    <3>5. Working' \subseteq Working \cup {u}
      BY <1>0, <3>2 DEF Working, LabelsOK
    <3>6. Working' \cap mustQuit' = {}
      BY <1>4, <2>1, <3>2, <3>5
    <3>. QED
      BY <3>1, <3>4, <3>6
  <2>3. CASE decision[Scheduler] # "start"
    <3>1. UNCHANGED <<renderThreads, mustQuit, rpc>> /\ spc' \in {"push0", "push"}
      BY <1>10, <2>1, <2>3 DEF SchedulerAct, AfterAdjust
    <3>. QED
      BY <1>4, <1>6, <2>1, <3>1
  <2>. QED
    BY <2>2, <2>3
<1>11. CASE SchedulerStep /\ ~SchedulerAdjust /\ ~SchedulerAct
  <2>1. /\ renderThreads' \subseteq renderThreads
        /\ spc' \notin {"act0", "act", "wakeall"}
        /\ UNCHANGED mustQuit \/ spc' = "stopwake"
        /\ UNCHANGED rpc \/ rpc' = WakeAll(rpc)
        /\ spc \in {"stopwake", "copy", "join"} => spc' \in {"copy", "join", "over"}
    BY <1>4, <1>11 DEF SchedulerStep, StartRender, SchedulerWakeAll, PushFirstFrames,
       ReadRenderFinished, ReadBufferEmpty, TakeFrame, GiveUp, WaitForExpected, TakeExpected,
       PushUnlessBufferFull, PushMoreFrames, ProcessFrame, ResolveState, WaitOrStop,
       ClearWork, FlagAllThreads, WakeAllThreads, CopyThreads, JoinThreads, StopRender,
       threadVars
  <2>2. Cardinality(renderThreads') \in Nat
        /\ Cardinality(renderThreads') <= Cardinality(renderThreads)
    BY <1>5, <2>1
  <2>3. \A s \in playback.parallel : Cardinality(renderThreads') <= OptimalNThreads(s)
    BY <1>2, <1>4, <1>5, <2>2
  <2>4. spc' = "over" => Working' = {}
    BY DEF StopInv
  <2>. QED
    BY <1>4, <1>6, <2>1, <2>3, <2>4
<1>12. CASE \/ RenderFrameRange \/ AbortRendering \/ OnAbortRequested \/ ChangeRange
            \/ UNCHANGED vars
  <2>1. /\ UNCHANGED <<renderThreads, mustQuit, rpc, decision>>
        /\ UNCHANGED spc \/ (spc' \in {"top", "start"} /\ spc \in {"waiting", "idle"})
    BY <1>12 DEF RenderFrameRange, AbortRendering, OnAbortRequested, ChangeRange, vars,
       threadVars, schedVars, WakeScheduler
  <2>. QED
    BY <1>4, <1>6, <2>1
<1>. QED
  BY <1>8, <1>9, <1>10, <1>11, <1>12 DEF Next

(* finished is reset when a render starts, and read before a wait.         *)
LEMMA UnfinishedKept ==
  ASSUME Policy = "Ordered", StopInv, UnfinishedInv, [Next]_vars
  PROVE  UnfinishedInv'
<1>. USE DEF UnfinishedInv
<1>1. ASSUME NEW t \in Threads, RenderThreadStep(t) PROVE UnfinishedInv'
  BY <1>1, OrderedThreadKeeps
<1>2. CASE SchedulerStep
  BY <1>2 DEF SchedulerStep, StartRender, SchedulerAdjust, SchedulerAct, AfterAdjust,
     SchedulerWakeAll, PushFirstFrames,
     ReadRenderFinished, ReadBufferEmpty, TakeFrame, GiveUp, WaitForExpected, TakeExpected,
     PushUnlessBufferFull, ProcessFrame, ResolveState, WaitOrStop,
     ClearWork, FlagAllThreads, WakeAllThreads, CopyThreads, JoinThreads, StopRender
<1>3. CASE \/ RenderFrameRange \/ AbortRendering \/ OnAbortRequested \/ ChangeRange
           \/ UNCHANGED vars
  BY <1>3 DEF RenderFrameRange, AbortRendering, OnAbortRequested, ChangeRange, vars,
     schedVars, WakeScheduler
<1>. QED
  BY <1>1, <1>2, <1>3 DEF Next

(* A step that keeps the frames where they are, and the scheduler between  *)
(* the same frames.                                                        *)
LEMMA ComingStays ==
  ASSUME MaxRangeChanges = 0, RangeInv, [Next]_vars, ComingInv,
         Expecting' => Expecting, Pushes' <=> Pushes,
         UNCHANGED <<args, lastFramePushed, expectFrameToRender, framesToRender>>,
         Expecting' => \A f \in Frames : /\ OnItsWay(f)' <= OnItsWay(f)
                                         /\ Shown(f) => OnItsWay(f)' = OnItsWay(f),
         \A f \in Frames : OnItsWay(f) \in Nat /\ OnItsWay(f)' \in Nat
  PROVE  ComingInv'
<1>. SUFFICES ASSUME Expecting'
              PROVE  /\ Pushes' => args'.first # args'.last
                     /\ \E w \in [Nat -> FrameStep], e, q, m \in Nat : Coming(w, e, q, m)'
  BY DEF ComingInv
<1>1. PICK w \in [Nat -> FrameStep], e \in Nat, q \in Nat, m \in Nat : Coming(w, e, q, m)
  BY DEF ComingInv
<1>2. IsWalk(w)'
  BY <1>1, WalkStays DEF Coming
<1>3. ExpectedAt(w, e)' /\ PushedTo(w, m)' /\ QueuedFrom(w, q, m)'
  BY <1>1 DEF Coming, ExpectedAt, PushedTo, QueuedFrom
<1>4. CountedIn(w, e, q)'
  <2>1. playback' = playback
    BY RangeKept
  <2>2. ASSUME NEW f \in Frames
        PROVE  /\ OnItsWay(f)' <= Cardinality(Visits(w, e, q, f))
               /\ Shown(f)' => OnItsWay(f)' = Cardinality(Visits(w, e, q, f))
    <3>1. Cardinality(Visits(w, e, q, f)) \in Nat /\ (Shown(f)' <=> Shown(f))
      BY <2>1, VisitsCount DEF Shown, Failing, Silent
    <3>2. /\ OnItsWay(f) <= Cardinality(Visits(w, e, q, f))
          /\ Shown(f) => OnItsWay(f) = Cardinality(Visits(w, e, q, f))
      BY <1>1 DEF Coming, CountedIn
    <3>3. /\ OnItsWay(f)' <= OnItsWay(f) /\ OnItsWay(f) \in Nat /\ OnItsWay(f)' \in Nat
          /\ Shown(f) => OnItsWay(f)' = OnItsWay(f)
      OBVIOUS
    <3>. QED
      BY ONLY <3>1, <3>2, <3>3
  <2>. QED
    BY <2>2 DEF CountedIn, Visits
<1>5. Coming(w, e, q, m)'
  BY <1>1, <1>2, <1>3, <1>4 DEF Coming
<1>. QED
  BY <1>1, <1>5 DEF ComingInv

(* How many images of a frame are in hand or buffered.                     *)
LEMMA OnItsWayCount ==
  /\ TypeOK => \A f \in Frames : /\ OnItsWay(f) \in Nat /\ buf[f] \in Nat
                                 /\ IsFiniteSet(Carriers(f))
                                 /\ Cardinality(Carriers(f)) \in Nat
  /\ TypeOK' => \A f \in Frames : OnItsWay(f)' \in Nat
<1>1. \A f : Carriers(f) \in SUBSET Threads /\ Carriers(f)' \in SUBSET Threads
  BY DEF Carriers
<1>2. \A f : /\ IsFiniteSet(Carriers(f)) /\ Cardinality(Carriers(f)) \in Nat
             /\ Cardinality(Carriers(f)') \in Nat
  BY <1>1, CarriersCount
<1>3. TypeOK => \A f \in Frames : buf[f] \in Nat
  BY DEF TypeOK
<1>4. TypeOK' => \A f \in Frames : buf'[f] \in Nat
  BY DEF TypeOK
<1>. QED
  BY <1>2, <1>3, <1>4 DEF OnItsWay

(* A render thread takes the first frame of the queue in hand.             *)
LEMMA PickComing ==
  ASSUME MaxRangeChanges = 0, RangeInv, [Next]_vars, TypeOK, TypeOK', ComingInv,
         NEW t \in Threads, PickFrame(t), framesToRender # <<>>
  PROVE  ComingInv'
<1>. SUFFICES ASSUME Expecting'
              PROVE  /\ Pushes' => args'.first # args'.last
                     /\ \E w \in [Nat -> FrameStep], e, q, m \in Nat : Coming(w, e, q, m)'
  BY DEF ComingInv
<1>0. /\ UNCHANGED <<args, lastFramePushed, expectFrameToRender, buf, spc, finished,
                     abortRequested, playback>>
      /\ framesToRender' = Tail(framesToRender) /\ rpc[t] = "take"
      /\ frameOf' = [frameOf EXCEPT ![t] = Head(framesToRender)]
      /\ rpc' = [rpc EXCEPT ![t] = "got"]
  BY DEF PickFrame, At, Move, QueueWithoutFront, schedulerKeeps, boundVars, bufVars
<1>1. Expecting /\ (Pushes' <=> Pushes)
  BY <1>0 DEF Expecting, AtWork, Steady, Pushes
<1>2. PICK w \in [Nat -> FrameStep], e \in Nat, q \in Nat, m \in Nat : Coming(w, e, q, m)
  BY <1>1 DEF ComingInv
<1>3. IsWalk(w)'
  BY <1>2, WalkStays DEF Coming
<1>4. /\ Len(framesToRender) = m - q /\ Len(framesToRender) > 0 /\ q + 1 <= m /\ q + 1 \in Nat
      /\ \A i \in 1 .. m - q : framesToRender[i] = w[q + (i - 1)].frame
      /\ e <= q /\ e <= q + 1
  <2>1. Len(framesToRender) \in Nat /\ Len(framesToRender) # 0
    BY LenProperties, EmptySeq DEF TypeOK
  <2>. QED
    BY <1>2, <2>1 DEF Coming, QueuedFrom
<1>5. Head(framesToRender) = w[q].frame /\ w[q].frame \in Frames
  <2>1. Head(framesToRender) = framesToRender[1] /\ 1 \in 1 .. m - q /\ q + (1 - 1) = q
    BY <1>4, HeadTailProperties DEF TypeOK
  <2>2. w[q] \in FrameStep
    BY <1>2
  <2>. QED
    BY <1>4, <2>1, <2>2 DEF FrameStep
<1>6. QueuedFrom(w, q + 1, m)'
  <2>1. /\ Len(framesToRender') = m - (q + 1)
        /\ \A i \in 1 .. m - (q + 1) : framesToRender'[i] = framesToRender[i + 1]
    <3>1. framesToRender \in Seq(Frames)
      BY DEF TypeOK
    <3>2. /\ Len(Tail(framesToRender)) = Len(framesToRender) - 1
          /\ \A i \in 1 .. Len(framesToRender) - 1 :
               Tail(framesToRender)[i] = framesToRender[i + 1]
      BY ONLY <3>1, framesToRender # <<>>, HeadTailProperties
    <3>3. Len(framesToRender) - 1 = m - (q + 1)
      BY <1>4
    <3>4. framesToRender' = Tail(framesToRender)
      BY <1>0
    <3>. QED
      BY ONLY <3>2, <3>3, <3>4
  <2>2. ASSUME NEW i \in 1 .. m - (q + 1)
        PROVE  framesToRender'[i] = w[(q + 1) + (i - 1)].frame
    <3>1. i + 1 \in 1 .. m - q /\ q + ((i + 1) - 1) = (q + 1) + (i - 1)
      BY <1>4
    <3>. QED
      BY <1>4, <2>1, <3>1
  <2>. QED
    BY <2>1, <2>2 DEF QueuedFrom
<1>7. CountedIn(w, e, q + 1)'
  <2>1. ASSUME NEW f \in Frames
        PROVE  OnItsWay(f)' = OnItsWay(f) + (IF w[q].frame = f THEN 1 ELSE 0)
    <3>1. t \notin Carriers(f) /\ IsFiniteSet(Carriers(f)) /\ Cardinality(Carriers(f)) \in Nat
      BY <1>0, OnItsWayCount DEF Carriers
    <3>a. /\ \A u \in Threads \ {t} : rpc'[u] = rpc[u] /\ frameOf'[u] = frameOf[u]
          /\ rpc'[t] = "got" /\ frameOf'[t] = w[q].frame
      BY <1>0, <1>5 DEF TypeOK
    <3>b. \A u \in Threads : u \in Carriers(f)' <=> u \in Carriers(f) \/ (u = t /\ w[q].frame = f)
      BY <1>0, <3>a DEF Carriers
    <3>c. Carriers(f) \subseteq Threads /\ Carriers(f)' \subseteq Threads
      BY DEF Carriers
    <3>2. Carriers(f)' = IF w[q].frame = f THEN Carriers(f) \cup {t} ELSE Carriers(f)
      BY ONLY <3>b, <3>c, t \in Threads
    <3>3. Cardinality(Carriers(f) \cup {t}) = Cardinality(Carriers(f)) + 1
      BY ONLY <3>1, FS_AddElement
    <3>4. Cardinality(Carriers(f)') = Cardinality(Carriers(f)) + (IF w[q].frame = f THEN 1 ELSE 0)
      BY <3>1, <3>2, <3>3
    <3>5. buf'[f] = buf[f] /\ buf[f] \in Nat
      BY <1>0, OnItsWayCount
    <3>. QED
      BY <3>1, <3>4, <3>5 DEF OnItsWay
  <2>2. ASSUME NEW f \in Frames
        PROVE  /\ OnItsWay(f)' <= Cardinality(Visits(w, e, q + 1, f))
               /\ Shown(f)' => OnItsWay(f)' = Cardinality(Visits(w, e, q + 1, f))
    <3>1. /\ OnItsWay(f) <= Cardinality(Visits(w, e, q, f))
          /\ Shown(f) => OnItsWay(f) = Cardinality(Visits(w, e, q, f))
      BY <1>2 DEF Coming, CountedIn
    <3>2. Shown(f)' <=> Shown(f)
      BY <1>0 DEF Shown, Failing, Silent
    <3>a. e <= q /\ e \in Nat /\ q \in Nat
      BY <1>4
    <3>3. Cardinality(Visits(w, e, q, f)) \in Nat
      BY ONLY <3>a, VisitsCount
    <3>4. Cardinality(Visits(w, e, q + 1, f)) =
            Cardinality(Visits(w, e, q, f)) + (IF w[q].frame = f THEN 1 ELSE 0)
      BY ONLY <3>a, VisitsCount
    <3>5. OnItsWay(f) \in Nat
      BY OnItsWayCount
    <3>6. OnItsWay(f)' = OnItsWay(f) + (IF w[q].frame = f THEN 1 ELSE 0)
      BY <2>1
    <3>. QED
      BY ONLY <3>1, <3>2, <3>3, <3>4, <3>5, <3>6
  <2>. QED
    BY <2>2 DEF CountedIn, Visits
<1>8. ExpectedAt(w, e)' /\ PushedTo(w, m)' /\ (Pushes' => args'.first # args'.last)
  BY <1>0, <1>1, <1>2 DEF Coming, ExpectedAt, PushedTo, ComingInv
<1>9. Coming(w, e, q + 1, m)'
  BY <1>1, <1>2, <1>3, <1>4, <1>6, <1>7, <1>8 DEF Coming
<1>. QED
  BY <1>4, <1>8, <1>9

(* The other steps of a render thread: a frame goes from its hands to the  *)
(* buffer, or nothing comes of it.                                         *)
LEMMA RenderThreadComing ==
  ASSUME MaxRangeChanges = 0, Policy = "Ordered", RangeInv, AliveInv, StopInv, PoolInv,
         OrderedTypes, OrderedTypes', ComingInv, NEW t \in Threads, RenderThreadStep(t)
  PROVE  ComingInv'
<1>0. [Next]_vars /\ TypeOK /\ TypeOK' /\ t \in Threads
  BY DEF Next, OrderedTypes
<1>1. CASE PickFrame(t) /\ framesToRender # <<>>
  BY <1>0, <1>1, PickComing
<1>2. CASE ~(PickFrame(t) /\ framesToRender # <<>>)
  <2>1. /\ UNCHANGED <<args, lastFramePushed, expectFrameToRender, finished, playback>>
        /\ UNCHANGED spc \/ (spc = "waiting" /\ spc' = "top")
    BY OrderedThreadKeeps DEF boundVars
  <2>2. PICK l \in RenderLabels \ FFALabels :
           Move(t, l) /\ (t \notin Working => l = "gone")
    BY OrderedThread DEF AliveInv, StopInv
  <2>3. \A u \in Threads \ {t} : rpc'[u] = rpc[u]
    BY <2>2 DEF Move, AliveInv, LabelsOK
  <2>4. /\ ~RenderFrameFFA(t) /\ ~CountFrame(t) /\ ~AppendFakeFrame(t)
        /\ ~RenderThreadAdjust(t) /\ ~RenderThreadAct(t) /\ ~RenderThreadWakeAll(t)
    BY DEF RenderFrameFFA, CountFrame, AppendFakeFrame, RenderThreadAdjust, RenderThreadAct,
       RenderThreadWakeAll, At, FFALabels, StopInv
  <2>5. framesToRender' = framesToRender /\ (abortRequested' = abortRequested \/ abortRequested')
    BY <1>2, <2>4 DEF RenderThreadStep, BeginRun, PickFrame, CheckMustQuit,
       RenderFrameOrdered, RenderNothing, RenderFails, AbortOnFailure, WakeOnFailure,
       FrameDone, Quit, Leave, workVars
  <2>6. (Expecting' => Expecting) /\ (Pushes' <=> Pushes)
    BY <2>1, <2>5 DEF Expecting, AtWork, Steady, Pushes
  <2>7. \A f \in Frames : OnItsWay(f) \in Nat /\ OnItsWay(f)' \in Nat
    BY <1>0, OnItsWayCount
  <2>8. ASSUME Expecting', NEW f \in Frames
        PROVE  OnItsWay(f)' <= OnItsWay(f) /\ (Shown(f) => OnItsWay(f)' = OnItsWay(f))
    <3>0. /\ IsFiniteSet(Carriers(f)) /\ Cardinality(Carriers(f)) \in Nat /\ buf[f] \in Nat
          /\ Carriers(f) \subseteq Threads /\ Carriers(f)' \subseteq Threads
      BY <1>0, OnItsWayCount DEF Carriers
    <3>1. CASE RenderFrameOrdered(t)
      <4>1. /\ rpc[t] = "render" /\ rpc'[t] = "done" /\ UNCHANGED frameOf
            /\ buf' = [buf EXCEPT ![frameOf[t]] = @ + 1]
        BY <1>0, <3>1 DEF RenderFrameOrdered, At, Move, TypeOK
      <4>2. frameOf[t] \in Frames
        BY <4>1 DEF OrderedTypes, FramesOK, InHand
      <4>3. \A u \in Threads : u \in Carriers(f)' <=> u \in Carriers(f) /\ u # t
        BY <2>3, <4>1 DEF Carriers
      <4>4. Carriers(f)' = Carriers(f) \ {t}
        BY ONLY <3>0, <4>3
      <4>a. buf'[f] = IF f = frameOf[t] THEN buf[f] + 1 ELSE buf[f]
        BY <1>0, <4>1, <4>2 DEF TypeOK
      <4>5. buf'[f] = buf[f] + (IF frameOf[t] = f THEN 1 ELSE 0)
        BY ONLY <3>0, <4>a
      <4>6. t \in Carriers(f) <=> frameOf[t] = f
        BY <4>1 DEF Carriers
      <4>7. Cardinality(Carriers(f) \ {t}) =
              IF t \in Carriers(f) THEN Cardinality(Carriers(f)) - 1
                                   ELSE Cardinality(Carriers(f))
        BY ONLY <3>0, FS_RemoveElement
      <4>8. Cardinality(Carriers(f)') + buf'[f] = Cardinality(Carriers(f)) + buf[f]
        BY ONLY <3>0, <4>4, <4>5, <4>6, <4>7
      <4>9. OnItsWay(f)' = OnItsWay(f)
        BY <4>8 DEF OnItsWay
      <4>. QED
        BY <2>7, <4>9
    <3>2. CASE RenderNothing(t) \/ RenderFails(t)
      <4>1. ~abortRequested /\ ~abortRequested'
        BY <2>6, <2>8 DEF Expecting
      <4>2. /\ rpc[t] = "render" /\ rpc'[t] \in {"done", "fail"} /\ UNCHANGED <<frameOf, buf>>
            /\ frameOf[t] \in Failing \cup Silent
        BY <1>0, <3>2, <4>1 DEF RenderNothing, RenderFails, At, Move, TypeOK, bufVars
      <4>3. \A u \in Threads : u \in Carriers(f)' <=> u \in Carriers(f) /\ u # t
        BY <2>3, <4>2 DEF Carriers
      <4>4. Carriers(f)' = Carriers(f) \ {t}
        BY ONLY <3>0, <4>3
      <4>5. t \in Carriers(f) => ~Shown(f)
        BY <4>2 DEF Carriers, Shown
      <4>6. Cardinality(Carriers(f) \ {t}) =
              IF t \in Carriers(f) THEN Cardinality(Carriers(f)) - 1
                                   ELSE Cardinality(Carriers(f))
        BY ONLY <3>0, FS_RemoveElement
      <4>. QED
        BY <3>0, <4>2, <4>4, <4>5, <4>6 DEF OnItsWay
    <3>3. CASE CheckMustQuit(t)
      <4>1. rpc[t] = "got" /\ t \in Working /\ Expecting
        BY <2>6, <2>8, <3>3 DEF CheckMustQuit, At, Working
      <4>2. t \notin mustQuit
        BY <4>1 DEF PoolInv, Expecting, AtWork
      <4>3. rpc'[t] = "render" /\ UNCHANGED <<frameOf, buf>>
        BY <1>0, <3>3, <4>1, <4>2 DEF CheckMustQuit, At, Move, TypeOK, bufVars
      <4>4. \A u \in Threads : u \in Carriers(f)' <=> u \in Carriers(f)
        BY <2>3, <4>1, <4>3 DEF Carriers
      <4>5. Carriers(f)' = Carriers(f)
        BY ONLY <3>0, <4>4
      <4>. QED
        BY <2>7, <4>3, <4>5 DEF OnItsWay
    <3>4. CASE ~RenderFrameOrdered(t) /\ ~RenderNothing(t) /\ ~RenderFails(t) /\ ~CheckMustQuit(t)
      <4>a. \/ BeginRun(t) \/ (PickFrame(t) /\ framesToRender = <<>>) \/ AbortOnFailure(t)
            \/ WakeOnFailure(t) \/ FrameDone(t) \/ Quit(t) \/ Leave(t)
        BY <1>2, <2>4, <3>4 DEF RenderThreadStep
      <4>b. /\ rpc[t] \in {"begin", "take", "fail", "failwake", "done", "quit", "leaving"}
            /\ Move(t, "take") \/ Move(t, "quit") \/ Move(t, "asleep") \/ Move(t, "failwake")
                 \/ Move(t, "done") \/ Move(t, "leaving") \/ Move(t, "gone")
            /\ UNCHANGED buf
            /\ UNCHANGED frameOf \/ frameOf' = [frameOf EXCEPT ![t] = NoFrame]
        BY <4>a DEF BeginRun, PickFrame, AbortOnFailure, WakeOnFailure, FrameDone, Quit, Leave,
           At, bufVars
      <4>c. rpc \in [Threads -> RenderLabels] /\ frameOf \in [Threads -> Frames \cup {NoFrame}]
        BY <1>0 DEF TypeOK
      <4>1. /\ rpc[t] \notin {"got", "render"} /\ rpc'[t] \notin {"got", "render"}
            /\ UNCHANGED buf /\ \A u \in Threads \ {t} : frameOf'[u] = frameOf[u]
        BY ONLY <4>b, <4>c, t \in Threads DEF Move
      <4>2. \A u \in Threads : u \in Carriers(f)' <=> u \in Carriers(f)
        BY <2>3, <4>1 DEF Carriers
      <4>3. Carriers(f)' = Carriers(f)
        BY ONLY <3>0, <4>2
      <4>. QED
        BY <2>7, <4>1, <4>3 DEF OnItsWay
    <3>. QED
      BY <3>1, <3>2, <3>3, <3>4
  <2>. QED
    BY <1>0, <2>1, <2>5, <2>6, <2>7, <2>8, ComingStays
<1>. QED
  BY <1>1, <1>2

(* The scheduler and the clients take no frame from anyone.                *)
LEMMA CarriersStay ==
  ASSUME LabelsOK, UNCHANGED <<frameOf, buf>>,
         \/ UNCHANGED rpc
         \/ rpc' = WakeAll(rpc)
         \/ \E u \in FreeThreads : rpc' = [rpc EXCEPT ![u] = "begin"]
  PROVE  \A f : OnItsWay(f)' = OnItsWay(f)
<1>1. \A u \in Threads : /\ rpc'[u] \in {"got", "render"} <=> rpc[u] \in {"got", "render"}
  <2>1. CASE UNCHANGED rpc
    BY <2>1
  <2>2. CASE rpc' = WakeAll(rpc)
    BY <2>2, WakeAllWakes
  <2>3. CASE \E u \in FreeThreads : rpc' = [rpc EXCEPT ![u] = "begin"]
    <3>1. PICK u \in FreeThreads : rpc' = [rpc EXCEPT ![u] = "begin"]
      BY <2>3
    <3>. QED
      BY <3>1 DEF FreeThreads, LabelsOK
  <2>. QED
    BY <2>1, <2>2, <2>3
<1>2. \A f : Carriers(f)' = Carriers(f)
  BY <1>1 DEF Carriers
<1>. QED
  BY <1>2 DEF OnItsWay

(* The steps of the scheduler and of the clients that touch no frame.      *)
LEMMA SchedulerKeepsComing ==
  ASSUME MaxRangeChanges = 0, Policy = "Ordered", RangeInv, AliveInv, StartOK, UnfinishedInv,
         OrderedTypes, OrderedTypes', ComingInv, [Next]_vars,
         \/ RenderFrameRange \/ AbortRendering \/ OnAbortRequested \/ ChangeRange
         \/ UNCHANGED vars
         \/ SchedulerStep /\ ~PushFirstFrames /\ ~TakeFrame /\ ~PushUnlessBufferFull
  PROVE  ComingInv'
<1>0. playback' = playback /\ TypeOK /\ TypeOK' /\ LabelsOK
  BY RangeKept DEF OrderedTypes, AliveInv
<1>1. SUFFICES ASSUME Expecting' PROVE ComingInv'
  BY DEF ComingInv
<1>2. AtWork' /\ ~finished' /\ ~abortRequested' /\ Steady
  BY <1>0, <1>1 DEF Expecting, Steady
<1>3. /\ UNCHANGED <<args, lastFramePushed, expectFrameToRender, framesToRender, buf, frameOf>>
      /\ AtWork /\ ~finished /\ ~abortRequested /\ (Pushes' <=> Pushes)
  <2>1. CASE SchedulerAdjust \/ SchedulerAct \/ SchedulerWakeAll
    BY <1>2, <2>1 DEF SchedulerAdjust, SchedulerAct, AfterAdjust, SchedulerWakeAll, StartOK,
       workVars, bufVars, threadVars, AtWork, Pushes
  <2>2. CASE ReadRenderFinished \/ ReadBufferEmpty \/ ProcessFrame \/ ResolveState \/ WaitOrStop
    <3>1. UNCHANGED <<args, lastFramePushed, expectFrameToRender, framesToRender, buf, frameOf,
                      abortRequested>>
      BY <2>2 DEF ReadRenderFinished, ReadBufferEmpty, ProcessFrame, ResolveState,
         WaitOrStop, workVars, bufVars, threadVars
    <3>2. spc \in {"top", "empty", "process", "resolve", "decide"}
          /\ spc' \in {"empty", "take", "resolve", "decide", "clear", "waiting"}
      BY <2>2 DEF ReadRenderFinished, ReadBufferEmpty, ProcessFrame, ResolveState, WaitOrStop
    <3>3. ~finished
      <4>1. CASE ReadRenderFinished
        BY <4>1 DEF ReadRenderFinished, UnfinishedInv
      <4>2. CASE ReadBufferEmpty \/ ProcessFrame \/ WaitOrStop
        BY <1>2, <4>2 DEF ReadBufferEmpty, ProcessFrame, WaitOrStop
      <4>3. CASE ResolveState
        BY <1>2, <4>3, <1>0 DEF ResolveState, TypeOK
      <4>. QED
        BY <2>2, <4>1, <4>2, <4>3
    <3>. QED
      BY <1>2, <3>1, <3>2, <3>3 DEF AtWork, Pushes
  <2>3. CASE \/ StartRender \/ ClearWork \/ FlagAllThreads \/ WakeAllThreads \/ CopyThreads
             \/ JoinThreads \/ StopRender
    BY <1>2, <2>3 DEF StartRender, ClearWork, FlagAllThreads, WakeAllThreads, CopyThreads,
       JoinThreads, StopRender, AtWork
  <2>4. CASE \/ RenderFrameRange \/ AbortRendering \/ OnAbortRequested \/ ChangeRange
             \/ UNCHANGED vars
    BY <1>2, <2>4 DEF RenderFrameRange, AbortRendering, OnAbortRequested, ChangeRange, vars,
       workVars, bufVars, threadVars, schedVars, WakeScheduler, AtWork, Pushes
  <2>. QED
    BY <2>1, <2>2, <2>3, <2>4 DEF SchedulerStep
<1>4. \/ UNCHANGED rpc
      \/ rpc' = WakeAll(rpc)
      \/ \E u \in FreeThreads : rpc' = [rpc EXCEPT ![u] = "begin"]
  BY SchedulerMovesThreads DEF RenderFrameRange, AbortRendering, OnAbortRequested,
     ChangeRange, vars, threadVars
<1>5. \A f : OnItsWay(f)' = OnItsWay(f)
  BY <1>0, <1>3, <1>4, CarriersStay
<1>6. \A f \in Frames : OnItsWay(f) \in Nat /\ OnItsWay(f)' \in Nat
  BY <1>0, OnItsWayCount
<1>7. Expecting
  BY <1>2, <1>3 DEF Expecting
<1>8. Expecting' => \A f \in Frames : /\ OnItsWay(f)' <= OnItsWay(f)
                                      /\ Shown(f) => OnItsWay(f)' = OnItsWay(f)
  BY <1>5, <1>6
<1>. QED
  BY <1>3, <1>6, <1>7, <1>8, ComingStays

(* The scheduler takes the frame it awaits, and awaits the next.           *)
LEMMA TakeComing ==
  ASSUME PlaysOn, Policy = "Ordered", RangeInv, OrderedTypes, OrderedTypes', ComingInv,
         [Next]_vars, TakeFrame
  PROVE  ComingInv'
<1>. SUFFICES ASSUME Expecting' PROVE ComingInv'
  BY DEF ComingInv
<1>. DEFINE f == expectFrameToRender
<1>0. /\ MaxRangeChanges = 0 /\ playback' = playback /\ TypeOK /\ TypeOK'
      /\ UNCHANGED <<framesToRender, lastFramePushed, rpc, frameOf, abortRequested>>
      /\ spc = "take" /\ f \in Frames
  BY DEF TakeFrame, boundVars, threadVars, OrderedTypes, FramesOK, Pushing, PlaysOn
<1>1. ~finished' /\ ~abortRequested /\ Steady /\ ~Pushes
  BY <1>0 DEF Expecting, Steady, Pushes
<1>2. PICK stalls : \/ GiveUp(stalls)
                    \/ buf[f] > 0 /\ TakeExpected(stalls)
                    \/ WaitForExpected(stalls)
  <2>1. \/ \E s : GiveUp(s)
        \/ \E s : buf[f] > 0 /\ TakeExpected(s)
        \/ \E s : WaitForExpected(s)
    BY DEF TakeFrame, TakeFromBuffer
  <2>. QED
    BY <2>1
<1>3. ~GiveUp(stalls)
  BY <1>1 DEF GiveUp
<1>4. CASE WaitForExpected(stalls)
  <2>1. UNCHANGED <<args, expectFrameToRender, buf, finished>> /\ spc' = "resolve"
    BY <1>4 DEF WaitForExpected
  <2>2. \A g : OnItsWay(g)' = OnItsWay(g)
    BY <1>0, <2>1 DEF OnItsWay, Carriers
  <2>3. \A g \in Frames : OnItsWay(g) \in Nat /\ OnItsWay(g)' \in Nat
    BY <1>0, OnItsWayCount
  <2>4. Expecting /\ (Pushes' <=> Pushes)
    BY <1>0, <1>1, <2>1 DEF Expecting, AtWork, Pushes
  <2>5. Expecting' => \A g \in Frames : /\ OnItsWay(g)' <= OnItsWay(g)
                                        /\ Shown(g) => OnItsWay(g)' = OnItsWay(g)
    BY <2>2, <2>3
  <2>. QED
    BY <1>0, <2>1, <2>3, <2>4, <2>5, ComingStays
<1>5. CASE buf[f] > 0 /\ TakeExpected(stalls)
  <2>1. /\ ~finished /\ NextExpected.canContinue /\ spc' = "adjust"
        /\ args' = [args EXCEPT !.first = bounds[1], !.last = bounds[2],
                                !.process = NextExpected.direction]
        /\ expectFrameToRender' = NextExpected.frame
        /\ buf' = [buf EXCEPT ![f] = @ - 1]
    BY <1>1, <1>5 DEF TakeExpected
  <2>2. Expecting
    BY <1>0, <1>1, <2>1 DEF Expecting, AtWork
  <2>3. PICK w \in [Nat -> FrameStep], e \in Nat, q \in Nat, m \in Nat : Coming(w, e, q, m)
    BY <2>2 DEF ComingInv
  <2>4. e < m /\ e <= q /\ q <= m /\ e + 1 \in Nat
    BY <1>1, <2>3 DEF Coming
  <2>5. NextExpected = w[e + 1] /\ args.first # args.last
    <3>1. ~(bounds[1] = bounds[2] /\ Mode = "Once")
      BY <2>1 DEF NextExpected, Finished
    <3>2. NextExpected = NextFrameInSequence(Mode, args.process, f, args.first, args.last, 1)
      BY <3>1 DEF NextExpected, RangeInv
    <3>3. w[e].frame = f /\ w[e].direction = args.process /\ w[e + 1] = StepAfter(w[e])
      BY <2>3 DEF Coming, ExpectedAt, IsWalk
    <3>4. args.first # args.last
      <4>1. Mode = "Once" \/ bounds[1] < bounds[2]
        BY DEF PlaysOn, RangeInv, Mode
      <4>2. bounds[1] \in Int /\ bounds[2] \in Int
        BY DEF RangeInv
      <4>. QED
        BY <3>1, <4>1, <4>2 DEF RangeInv
    <3>. QED
      BY <3>2, <3>3, <3>4 DEF StepAfter
  <2>6. /\ args'.first # args'.last /\ args'.process = w[e + 1].direction
        /\ args'.push = args.push /\ expectFrameToRender' = w[e + 1].frame
        /\ w[e + 1].canContinue
    BY <2>1, <2>5 DEF RangeInv
  <2>7. OnItsWay(f) <= Cardinality(Visits(w, e, q, f)) /\ w[e].frame = f
    BY <1>0, <2>3 DEF Coming, CountedIn, ExpectedAt
  <2>8. e < q
    <3>1. OnItsWay(f) > 0
      <4>1. Cardinality(Carriers(f)) \in Nat /\ buf[f] \in Nat
        BY <1>0, OnItsWayCount
      <4>. QED
        BY <1>5, <4>1 DEF OnItsWay
    <3>2. e = q => Cardinality(Visits(w, e, q, f)) = 0
      BY VisitsCount
    <3>3. OnItsWay(f) \in Nat /\ Cardinality(Visits(w, e, q, f)) \in Nat
      BY <1>0, OnItsWayCount, VisitsCount
    <3>. QED
      BY ONLY <2>4, <2>7, <3>1, <3>2, <3>3, e \in Nat, q \in Nat
  <2>9. CountedIn(w, e + 1, q)'
    <3>1. ASSUME NEW g \in Frames
          PROVE  /\ OnItsWay(g)' <= Cardinality(Visits(w, e + 1, q, g))
                 /\ Shown(g)' => OnItsWay(g)' = Cardinality(Visits(w, e + 1, q, g))
      <4>1. /\ OnItsWay(g) <= Cardinality(Visits(w, e, q, g))
            /\ Shown(g) => OnItsWay(g) = Cardinality(Visits(w, e, q, g))
        BY <2>3 DEF Coming, CountedIn
      <4>2. Shown(g)' <=> Shown(g)
        BY <1>0 DEF Shown, Failing, Silent
      <4>3. Cardinality(Visits(w, e + 1, q, g)) \in Nat
        BY <2>4, VisitsCount
      <4>4. Cardinality(Visits(w, e, q, g)) =
              Cardinality(Visits(w, e + 1, q, g)) + (IF f = g THEN 1 ELSE 0)
        BY <2>7, <2>8, VisitsCount
      <4>5. OnItsWay(g) \in Nat
        BY <1>0, OnItsWayCount
      <4>6. OnItsWay(g)' = OnItsWay(g) - (IF f = g THEN 1 ELSE 0)
        <5>1. Carriers(g)' = Carriers(g)
          BY <1>0 DEF Carriers
        <5>2. buf'[g] = IF f = g THEN buf[g] - 1 ELSE buf[g]
          BY <1>0, <2>1 DEF TypeOK
        <5>3. Cardinality(Carriers(g)) \in Nat /\ buf[g] \in Nat
          BY <1>0, OnItsWayCount
        <5>4. Cardinality(Carriers(g)) + buf'[g] =
                (Cardinality(Carriers(g)) + buf[g]) - (IF f = g THEN 1 ELSE 0)
          BY ONLY <5>2, <5>3
        <5>5. /\ OnItsWay(g)' = Cardinality(Carriers(g)') + buf'[g]
              /\ OnItsWay(g) = Cardinality(Carriers(g)) + buf[g]
          BY DEF OnItsWay
        <5>. QED
          BY ONLY <5>1, <5>4, <5>5
      <4>. QED
        BY ONLY <4>1, <4>2, <4>3, <4>4, <4>5, <4>6
    <3>. QED
      BY <3>1 DEF CountedIn, Visits
  <2>10. IsWalk(w)'
    BY <1>0, <2>3, WalkStays DEF Coming
  <2>11. PushedTo(w, m)' /\ QueuedFrom(w, q, m)'
    BY <1>0, <2>3, <2>6 DEF Coming, PushedTo, QueuedFrom
  <2>12. ExpectedAt(w, e + 1)' /\ Pushes'
    BY <2>1, <2>6 DEF ExpectedAt, Pushes
  <2>13. Coming(w, e + 1, q, m)'
    <3>1. e + 1 <= q /\ q <= m
      BY <2>4, <2>8
    <3>. QED
      BY <2>6, <2>9, <2>10, <2>11, <2>12, <3>1 DEF Coming
  <2>. QED
    BY <2>4, <2>6, <2>13 DEF ComingInv
<1>. QED
  BY <1>2, <1>3, <1>4, <1>5

(* What pushFramesToRenderInternal() appends is the walk from a frame, and *)
(* at least that frame when the queue is empty.                            *)
LEMMA PushedWalk ==
  ASSUME Mode \in Modes, args \in ArgsType, InFrames(args.first, args.last),
         framesToRender \in Seq(Frames), NEW frame \in Frames, NEW push \in Directions,
         NEW n \in Int, PushFrom(frame, push, n)
  PROVE  \E L \in Nat :
           /\ Len(framesToRender') = Len(framesToRender) + L
           /\ \A i \in 1 .. Len(framesToRender) : framesToRender'[i] = framesToRender[i]
           /\ \A i \in 1 .. L : framesToRender'[Len(framesToRender) + i]
                                  = Walk(GoTo(frame, push))[i - 1].frame
           /\ L > 0 => /\ lastFramePushed' = Walk(GoTo(frame, push))[L - 1].frame
                       /\ args'.push = Walk(GoTo(frame, push))[L - 1].direction
           /\ L = 0 => /\ lastFramePushed' = lastFramePushed /\ args'.push = push
                       /\ framesToRender # <<>>
           /\ args'.first = args.first /\ args'.last = args.last
           /\ args'.process = args.process
<1>. DEFINE from == GoTo(frame, push)
            walk == Walk(from)
            room == 2 * AtLeastOne(n) - Len(framesToRender)
            steps == IF args.first = args.last THEN <<from>> ELSE Steps(room, from)
            new == [i \in DOMAIN steps |-> steps[i].frame]
            x == IF steps = <<>> THEN push ELSE steps[Len(steps)].direction
<1>1. /\ framesToRender' = framesToRender \o new
      /\ lastFramePushed' = IF steps = <<>> THEN lastFramePushed ELSE steps[Len(steps)].frame
      /\ args' = [args EXCEPT !.push = x]
  BY DEF PushFrom, AtLeastOne
<1>2. from \in FrameStep /\ from.canContinue
  BY DEF GoTo, FrameStep
<1>3. Len(framesToRender) \in Nat /\ room \in Int /\ AtLeastOne(n) \in Nat \ {0}
  BY DEF AtLeastOne
<1>4. /\ steps \in Seq(FrameStep)
      /\ framesToRender = <<>> => Len(steps) > 0
      /\ \A i \in 1 .. Len(steps) : steps[i] = walk[i - 1]
  <2>1. CASE args.first = args.last
    <3>1. walk[0] = from
      BY <1>2, WalkIsInFrames
    <3>2. steps = <<from>> /\ Len(steps) = 1 /\ steps[1] = from /\ steps \in Seq(FrameStep)
      BY <1>2, <2>1
    <3>. HIDE DEF steps, walk, from
    <3>3. \A i \in 1 .. Len(steps) : i = 1 /\ i - 1 = 0
      BY ONLY <3>2
    <3>. QED
      BY <3>1, <3>2, <3>3
  <2>2. CASE args.first # args.last
    <3>1. framesToRender = <<>> => room > 0
      BY <1>3
    <3>2. steps = Steps(room, from)
      BY <2>2
    <3>. HIDE DEF room, from, steps
    <3>. QED
      BY <1>2, <1>3, <3>1, <3>2, StepsAreFrames
  <2>. QED
    BY <2>1, <2>2
<1>5. args'.push = x /\ args'.first = args.first /\ args'.last = args.last
      /\ args'.process = args.process
  BY <1>1 DEF ArgsType
<1>. HIDE DEF steps, walk, room
<1>6. /\ Len(steps) \in Nat /\ DOMAIN steps = 1 .. Len(steps)
      /\ \A i \in 1 .. Len(steps) : steps[i] \in FrameStep
      /\ Len(steps) = 0 <=> steps = <<>>
  <2>1. steps \in Seq(FrameStep)
    BY <1>4
  <2>. QED
    BY ONLY <2>1, LenProperties, ElementOfSeq, EmptySeq
<1>7. /\ new \in Seq(Frames) /\ Len(new) = Len(steps)
      /\ \A i \in 1 .. Len(steps) : new[i] = walk[i - 1].frame
  <2>1. new = [i \in 1 .. Len(steps) |-> steps[i].frame]
    BY <1>6
  <2>2. \A i \in 1 .. Len(steps) : steps[i].frame \in Frames
    BY ONLY <1>6 DEF FrameStep
  <2>. QED
    BY <1>4, <1>6, <2>1, <2>2
<1>. HIDE DEF new
<1>8. /\ Len(framesToRender') = Len(framesToRender) + Len(steps)
      /\ \A i \in 1 .. Len(framesToRender) + Len(steps) :
           framesToRender'[i] = IF i <= Len(framesToRender) THEN framesToRender[i]
                                ELSE new[i - Len(framesToRender)]
  <2>1. /\ Len(framesToRender \o new) = Len(framesToRender) + Len(new)
        /\ \A i \in 1 .. Len(framesToRender) + Len(new) :
             (framesToRender \o new)[i] = IF i <= Len(framesToRender) THEN framesToRender[i]
                                          ELSE new[i - Len(framesToRender)]
    BY ONLY <1>7, framesToRender \in Seq(Frames), ConcatProperties
  <2>. QED
    BY <1>1, <1>7, <2>1
<1>9. \A i \in 1 .. Len(framesToRender) : framesToRender'[i] = framesToRender[i]
  BY <1>3, <1>6, <1>8
<1>10. ASSUME NEW i \in 1 .. Len(steps)
       PROVE  framesToRender'[Len(framesToRender) + i] = walk[i - 1].frame
  <2>1. /\ Len(framesToRender) + i \in 1 .. Len(framesToRender) + Len(steps)
        /\ ~(Len(framesToRender) + i <= Len(framesToRender))
        /\ (Len(framesToRender) + i) - Len(framesToRender) = i
    BY <1>3, <1>6
  <2>. QED
    BY <1>7, <1>8, <2>1
<1>11. Len(steps) > 0 => /\ lastFramePushed' = walk[Len(steps) - 1].frame
                         /\ args'.push = walk[Len(steps) - 1].direction
  <2>1. Len(steps) > 0 => steps[Len(steps)] = walk[Len(steps) - 1] /\ steps # <<>>
    BY <1>4, <1>6
  <2>. QED
    BY <1>1, <1>5, <2>1
<1>12. Len(steps) = 0 => /\ lastFramePushed' = lastFramePushed /\ args'.push = push
                         /\ framesToRender # <<>>
  BY <1>1, <1>4, <1>5, <1>6
<1>. QED
  BY <1>5, <1>6, <1>8, <1>9, <1>10, <1>11, <1>12 DEF walk

(* A walk from a frame another walk comes to goes where that one goes.     *)
LEMMA WalkGoesOn ==
  ASSUME Mode \in Modes, InFrames(args.first, args.last), NEW w, IsWalk(w), NEW k \in Nat
  PROVE  \A i \in Nat : Walk(w[k])[i] = w[k + i]
<1>. DEFINE v == Walk(w[k])
<1>1. w[k] \in FrameStep
  BY DEF IsWalk
<1>2. v[0] = w[k] /\ \A n \in Nat : v[n + 1] = StepAfter(v[n])
  BY <1>1, WalkIsInFrames
<1>. HIDE DEF v
<1>. DEFINE Bad == {i \in Nat : v[i] # w[k + i]}
<1>3. Bad = {}
  <2>. SUFFICES ASSUME Bad # {} PROVE FALSE
    OBVIOUS
  <2>1. PICK i \in Bad : \A j \in Bad : i <= j
    <3>. HIDE DEF Bad
    <3>1. Bad \subseteq Nat
      BY DEF Bad
    <3>. QED
      BY <3>1, LeastExists
  <2>2. i # 0 /\ i \in Nat
    BY <1>2, <2>1
  <2>3. i - 1 \in Nat /\ (i - 1) + 1 = i /\ i - 1 \notin Bad
    BY <2>1, <2>2
  <2>4. v[i] = StepAfter(v[i - 1])
    BY <1>2, <2>3
  <2>5. k + (i - 1) \in Nat /\ (k + (i - 1)) + 1 = k + i
    BY <2>2, <2>3
  <2>6. w[k + i] = StepAfter(w[k + (i - 1)])
    BY <2>5 DEF IsWalk
  <2>7. v[i - 1] = w[k + (i - 1)]
    BY <2>3
  <2>. QED
    BY <2>1, <2>4, <2>6, <2>7
<1>. QED
  BY <1>3 DEF v

(* Neither a loop nor a single playback turns.                             *)
LEMMA DirectionKept ==
  ASSUME NEW mode \in Modes, mode # "Bounce", NEW d \in Directions, NEW f, NEW first, NEW last
  PROVE  NextFrameInSequence(mode, d, f, first, last, 1).direction = d
<1>1. \A g, e : GoTo(g, e).direction = e /\ Finished(g, e).direction = e
  BY DEF GoTo, Finished
<1>2. AtFirstFrame(mode, d, f, first, last, 1).direction = d
  BY <1>1 DEF AtFirstFrame, Modes, Directions
<1>3. AtLastFrame(mode, d, f, first, last, 1).direction = d
  BY <1>1 DEF AtLastFrame, Modes, Directions
<1>. QED
  BY <1>1, <1>2, <1>3 DEF NextFrameInSequence

(* A render starts with one direction for the frames pushed and expected.  *)
OneWayInv == Pushing => args.push = args.process

(* Only a render that starts sets both directions.                         *)
LEMMA OneWayKept ==
  ASSUME Policy = "Ordered", StopInv, OneWayInv, [Next]_vars
  PROVE  OneWayInv'
<1>. USE DEF OneWayInv, Pushing
<1>1. ASSUME NEW t \in Threads, RenderThreadStep(t) PROVE OneWayInv'
  BY <1>1, OrderedThreadKeeps
<1>2. CASE SchedulerStep
  BY <1>2 DEF SchedulerStep, StartRender, SchedulerAdjust, SchedulerAct, AfterAdjust,
     SchedulerWakeAll, PushFirstFrames,
     ReadRenderFinished, ReadBufferEmpty, TakeFrame, GiveUp, WaitForExpected, TakeExpected,
     PushUnlessBufferFull, ProcessFrame, ResolveState, WaitOrStop,
     ClearWork, FlagAllThreads, WakeAllThreads, CopyThreads, JoinThreads, StopRender, workVars
<1>3. CASE \/ RenderFrameRange \/ AbortRendering \/ OnAbortRequested \/ ChangeRange
           \/ UNCHANGED vars
  BY <1>3 DEF RenderFrameRange, AbortRendering, OnAbortRequested, ChangeRange, vars,
     schedVars, workVars, WakeScheduler
<1>. QED
  BY <1>1, <1>2, <1>3 DEF Next

(* The queue after a push goes on along the walk.                          *)
LEMMA QueueGrows ==
  ASSUME framesToRender \in Seq(Frames), NEW w, NEW q \in Nat, NEW m \in Nat, NEW L \in Nat,
         q <= m, QueuedFrom(w, q, m), Len(framesToRender') = Len(framesToRender) + L,
         \A i \in 1 .. Len(framesToRender) : framesToRender'[i] = framesToRender[i],
         \A i \in 1 .. L : framesToRender'[Len(framesToRender) + i] = w[m + (i - 1)].frame
  PROVE  QueuedFrom(w, q, m + L)'
<1>1. Len(framesToRender) = m - q
      /\ \A i \in 1 .. m - q : framesToRender[i] = w[q + (i - 1)].frame
  BY DEF QueuedFrom
<1>2. Len(framesToRender') = (m + L) - q
  BY <1>1
<1>3. ASSUME NEW i \in 1 .. (m + L) - q PROVE framesToRender'[i] = w[q + (i - 1)].frame
  <2>1. CASE i <= m - q
    <3>1. i \in 1 .. m - q
      BY <2>1
    <3>. QED
      BY <1>1, <3>1
  <2>2. CASE i > m - q
    <3>. DEFINE j == i - (m - q)
    <3>1. j \in 1 .. L /\ (m - q) + j = i /\ m + (j - 1) = q + (i - 1)
      BY <2>2
    <3>. HIDE DEF j
    <3>. QED
      BY <1>1, <3>1
  <2>. QED
    BY <2>1, <2>2
<1>. QED
  BY <1>2, <1>3 DEF QueuedFrom

(* A render starts with the frame it expects.                              *)
LEMMA FirstComing ==
  ASSUME MaxRangeChanges = 0, Policy = "Ordered", RangeInv, DrainInv, BoundInv, OneWayInv,
         OrderedTypes, OrderedTypes', [Next]_vars, PushFirstFrames
  PROVE  ComingInv'
<1>0. /\ Mode \in Modes /\ args \in ArgsType /\ InFrames(args.first, args.last)
      /\ framesToRender \in Seq(Frames) /\ nThreads \in Int /\ TypeOK /\ LabelsOK
  BY DEF OrderedTypes, TypeOK, Mode, PlaybackType, ArgsType, FramesOK, LabelsOK
<1>1. PICK frame \in StartFrames :
        expectFrameToRender' = frame /\ PushFrom(frame, args.push, nThreads)
  BY DEF PushFirstFrames
<1>2. /\ spc = "push0" /\ spc' = "top" /\ rpc' = WakeAll(rpc) /\ UNCHANGED <<buf, frameOf>>
  BY DEF PushFirstFrames, bufVars
<1>3. /\ framesToRender = <<>> /\ InHand = {} /\ BufferEmpty /\ args.push = args.process
      /\ args.push \in Directions
  BY <1>0, <1>2 DEF DrainInv, Drained, Joined, Pushing, BoundInv, OneWayInv, ArgsType
<1>. DEFINE w == Walk(GoTo(frame, args.push))
<1>4. PICK L \in Nat :
        /\ Len(framesToRender') = Len(framesToRender) + L
        /\ \A i \in 1 .. Len(framesToRender) : framesToRender'[i] = framesToRender[i]
        /\ \A i \in 1 .. L : framesToRender'[Len(framesToRender) + i] = w[i - 1].frame
        /\ L > 0 => lastFramePushed' = w[L - 1].frame /\ args'.push = w[L - 1].direction
        /\ L = 0 => framesToRender # <<>>
        /\ args'.process = args.process
  BY <1>0, <1>1, <1>3, PushedWalk
<1>5. L > 0
  BY <1>3, <1>4
<1>6. /\ w \in [Nat -> FrameStep] /\ IsWalk(w)
      /\ w[0].frame = frame /\ w[0].direction = args.push
  <2>1. GoTo(frame, args.push) \in FrameStep
    BY <1>3 DEF GoTo, FrameStep
  <2>2. GoTo(frame, args.push).frame = frame /\ GoTo(frame, args.push).direction = args.push
    BY DEF GoTo
  <2>. QED
    BY <1>0, <2>1, <2>2, WalkIsInFrames DEF IsWalk
<1>7. PICK v \in [Nat -> FrameStep] : v = w
  BY <1>6
<1>. HIDE DEF w
<1>8. IsWalk(v)'
  BY <1>6, <1>7, WalkStays
<1>9. ExpectedAt(v, 0)'
  BY <1>1, <1>3, <1>4, <1>6, <1>7 DEF ExpectedAt
<1>10. PushedTo(v, L)'
  BY <1>4, <1>5, <1>7 DEF PushedTo
<1>11. QueuedFrom(v, 0, L)'
  <2>1. Len(framesToRender) = 0
    BY <1>3
  <2>2. \A i \in 1 .. L : 0 + (i - 1) = i - 1 /\ 0 + i = i
    OBVIOUS
  <2>. QED
    BY <1>4, <1>7, <2>1, <2>2 DEF QueuedFrom
<1>12. CountedIn(v, 0, 0)'
  <2>1. ASSUME NEW f \in Frames PROVE OnItsWay(f)' = 0 /\ Cardinality(Visits(v, 0, 0, f)) = 0
    <3>1. OnItsWay(f)' = OnItsWay(f)
      BY <1>0, <1>2, CarriersStay
    <3>2. Carriers(f) = {} /\ buf[f] = 0
      BY <1>3 DEF Carriers, InHand, BufferEmpty
    <3>3. Cardinality(Visits(v, 0, 0, f)) = 0
      BY VisitsCount
    <3>. QED
      BY <3>1, <3>2, <3>3, FS_EmptySet DEF OnItsWay
  <2>. QED
    BY <2>1 DEF CountedIn, Visits
<1>13. Coming(v, 0, 0, L)'
  BY <1>5, <1>8, <1>9, <1>10, <1>11, <1>12 DEF Coming
<1>. QED
  BY <1>2, <1>13 DEF ComingInv, Pushes

(* An image in the buffer is one of a frame the walk visits before those   *)
(* queued.                                                                 *)
LEMMA BufferedIsBehind ==
  ASSUME TypeOK, NEW w, NEW e \in Nat, NEW q \in Nat, e <= q, CountedIn(w, e, q),
         NEW f \in Frames, buf[f] > 0
  PROVE  e < q
<1>1. OnItsWay(f) > 0 /\ OnItsWay(f) \in Nat
  <2>1. Cardinality(Carriers(f)) \in Nat /\ buf[f] \in Nat
    BY OnItsWayCount
  <2>. QED
    BY <2>1 DEF OnItsWay
<1>2. OnItsWay(f) <= Cardinality(Visits(w, e, q, f))
  BY DEF CountedIn
<1>3. e = q => Cardinality(Visits(w, e, q, f)) = 0
  <2>1. e = q => Visits(w, e, q, f) = {}
    BY DEF Visits
  <2>. QED
    BY <2>1, FS_EmptySet
<1>. QED
  BY <1>1, <1>2, <1>3

(* The frames pushed go on after the last one pushed; nothing is pushed    *)
(* only when something is left to come.                                    *)
LEMMA PushMoreComing ==
  ASSUME PlaysOn, Policy = "Ordered", RangeInv, OrderedTypes, OrderedTypes', ComingInv,
         [Next]_vars, PushUnlessBufferFull
  PROVE  ComingInv'
<1>. SUFFICES ASSUME Expecting' PROVE ComingInv'
  BY DEF ComingInv
<1>0. /\ Mode \in Modes /\ Mode # "Bounce" /\ args \in ArgsType
      /\ InFrames(args.first, args.last) /\ framesToRender \in Seq(Frames)
      /\ nThreads \in Int /\ TypeOK /\ LabelsOK /\ MaxRangeChanges = 0 /\ fakeFrames = 0
  BY DEF OrderedTypes, TypeOK, Mode, PlaybackType, ArgsType, FramesOK, LabelsOK, PlaysOn
<1>1. /\ spc = "push" /\ spc' = "process" /\ (UNCHANGED rpc \/ rpc' = WakeAll(rpc))
      /\ UNCHANGED <<expectFrameToRender, buf, frameOf, finished, abortRequested, playback>>
  BY DEF PushUnlessBufferFull, PushMoreFrames, bufVars, boundVars
<1>2. Expecting /\ Pushes /\ ~Pushes'
  BY <1>1 DEF Expecting, AtWork, Pushes, Steady
<1>3. PICK w \in [Nat -> FrameStep], e \in Nat, q \in Nat, m \in Nat : Coming(w, e, q, m)
  BY <1>2 DEF ComingInv
<1>4. /\ args.first # args.last /\ e <= q /\ q <= m /\ (e < m \/ w[e].canContinue)
      /\ IsWalk(w) /\ ExpectedAt(w, e) /\ PushedTo(w, m) /\ QueuedFrom(w, q, m)
      /\ CountedIn(w, e, q)
  BY <1>2, <1>3 DEF Coming, ComingInv
<1>. DEFINE next == NextFrameInSequence(Mode, args.push, lastFramePushed, args.first,
                                        args.last, 1)
<1>5. m > 0 /\ m - 1 \in Nat /\ next = w[m] /\ w[m].direction = args.push /\ w[m] \in FrameStep
  <2>1. /\ m > 0 /\ m - 1 \in Nat /\ (m - 1) + 1 = m
        /\ w[m - 1].frame = lastFramePushed /\ w[m - 1].direction = args.push
    BY <1>4 DEF PushedTo
  <2>2. w[m] = StepAfter(w[m - 1])
    BY <1>4, <2>1 DEF IsWalk
  <2>3. next = w[m]
    BY <2>1, <2>2 DEF StepAfter
  <2>4. next.direction = args.push
    BY <1>0, DirectionKept DEF ArgsType
  <2>. QED
    BY <2>1, <2>3, <2>4
<1>6. ASSUME NEW L \in Nat, e < m + L, PushedTo(w, m + L)', QueuedFrom(w, q, m + L)',
             args'.process = args.process
      PROVE  ComingInv'
  <2>1. IsWalk(w)'
    BY <1>0, <1>4, WalkStays
  <2>2. ExpectedAt(w, e)'
    BY <1>1, <1>4, <1>6 DEF ExpectedAt
  <2>3. CountedIn(w, e, q)'
    <3>1. ASSUME NEW f \in Frames
          PROVE  /\ OnItsWay(f)' <= Cardinality(Visits(w, e, q, f))
                 /\ Shown(f)' => OnItsWay(f)' = Cardinality(Visits(w, e, q, f))
      <4>1. OnItsWay(f)' = OnItsWay(f)
        BY <1>0, <1>1, CarriersStay
      <4>2. Shown(f)' <=> Shown(f)
        BY <1>1 DEF Shown, Failing, Silent
      <4>. QED
        BY <1>4, <4>1, <4>2 DEF CountedIn
    <3>. QED
      BY <3>1 DEF CountedIn, Visits
  <2>4. m + L \in Nat /\ q <= m + L
    BY <1>4
  <2>5. Coming(w, e, q, m + L)'
    BY <1>4, <1>6, <2>1, <2>2, <2>3, <2>4 DEF Coming
  <2>. QED
    BY <1>2, <2>4, <2>5 DEF ComingInv
<1>7. ASSUME UNCHANGED <<framesToRender, lastFramePushed, args>>, e < m
      PROVE  ComingInv'
  <2>1. PushedTo(w, m)' /\ QueuedFrom(w, q, m)' /\ args'.process = args.process
    BY <1>4, <1>7 DEF PushedTo, QueuedFrom
  <2>2. m + 0 = m
    OBVIOUS
  <2>. QED
    BY <1>6, <1>7, <2>1, <2>2
<1>8. CASE IsBufferFull
  <2>1. UNCHANGED <<framesToRender, lastFramePushed, args>>
    BY <1>8 DEF PushUnlessBufferFull
  <2>2. PICK f \in Frames : buf[f] > 0
    <3>. SUFFICES ASSUME \A f \in Frames : ~(buf[f] > 0) PROVE FALSE
      OBVIOUS
    <3>1. Buffered = {}
      <4>1. \A f \in Frames : 1 .. buf[f] = {}
        BY <1>0 DEF TypeOK
      <4>. QED
        BY <4>1 DEF Buffered
    <3>2. BufferSize = 0
      BY <1>0, <3>1, FS_EmptySet DEF BufferSize
    <3>. QED
      BY <1>8, <3>2 DEF IsBufferFull
  <2>3. e < q
    BY <1>0, <1>4, <2>2, BufferedIsBehind
  <2>. QED
    BY <1>4, <1>7, <2>1, <2>3
<1>9. CASE ~IsBufferFull /\ ~next.canContinue
  <2>1. UNCHANGED <<framesToRender, lastFramePushed, args>>
    BY <1>4, <1>9 DEF PushUnlessBufferFull, PushMoreFrames
  <2>2. e # m
    BY <1>4, <1>5, <1>9
  <2>. QED
    BY <1>4, <1>7, <2>1, <2>2
<1>10. CASE ~IsBufferFull /\ next.canContinue
  <2>1. PushFrom(next.frame, next.direction, nThreads)
    BY <1>4, <1>10 DEF PushUnlessBufferFull, PushMoreFrames
  <2>2. /\ w[m].canContinue = TRUE /\ w[m].frame \in Frames /\ w[m].direction \in Directions
        /\ GoTo(w[m].frame, w[m].direction) = w[m]
    BY <1>5, <1>10 DEF FrameStep, GoTo
  <2>3. PushFrom(w[m].frame, w[m].direction, nThreads)
    BY <1>5, <2>1
  <2>. HIDE DEF next
  <2>a. PICK frame \in Frames, d \in Directions : frame = w[m].frame /\ d = w[m].direction
    BY <2>2
  <2>. DEFINE v == Walk(GoTo(frame, d))
  <2>4. PICK L \in Nat :
        /\ Len(framesToRender') = Len(framesToRender) + L
        /\ \A i \in 1 .. Len(framesToRender) : framesToRender'[i] = framesToRender[i]
        /\ \A i \in 1 .. L : framesToRender'[Len(framesToRender) + i] = v[i - 1].frame
        /\ L > 0 => lastFramePushed' = v[L - 1].frame /\ args'.push = v[L - 1].direction
        /\ L = 0 => /\ lastFramePushed' = lastFramePushed /\ args'.push = d
                    /\ framesToRender # <<>>
        /\ args'.process = args.process
    <3>1. PushFrom(frame, d, nThreads)
      BY <2>3, <2>a
    <3>2. \E L \in Nat :
           /\ Len(framesToRender') = Len(framesToRender) + L
           /\ \A i \in 1 .. Len(framesToRender) : framesToRender'[i] = framesToRender[i]
           /\ \A i \in 1 .. L : framesToRender'[Len(framesToRender) + i] = v[i - 1].frame
           /\ L > 0 => /\ lastFramePushed' = v[L - 1].frame
                       /\ args'.push = v[L - 1].direction
           /\ L = 0 => /\ lastFramePushed' = lastFramePushed /\ args'.push = d
                       /\ framesToRender # <<>>
           /\ args'.first = args.first /\ args'.last = args.last
           /\ args'.process = args.process
      <4>1. /\ Mode \in Modes /\ args \in ArgsType /\ InFrames(args.first, args.last)
            /\ framesToRender \in Seq(Frames) /\ nThreads \in Int
        BY <1>0
      <4>. QED
        BY ONLY <3>1, <4>1, PushedWalk, frame \in Frames, d \in Directions
    <3>. QED
      BY <3>2
  <2>5. \A i \in Nat : v[i] = w[m + i]
    <3>1. \A i \in Nat : Walk(w[m])[i] = w[m + i]
      <4>1. Mode \in Modes /\ InFrames(args.first, args.last) /\ IsWalk(w)
        BY <1>0, <1>4
      <4>. QED
        BY ONLY <4>1, WalkGoesOn, m \in Nat
    <3>2. GoTo(frame, d) = w[m]
      BY <2>2, <2>a
    <3>. QED
      BY <3>1, <3>2
  <2>. HIDE DEF v
  <2>6. \A i \in 1 .. L : framesToRender'[Len(framesToRender) + i] = w[m + (i - 1)].frame
    <3>1. \A i \in 1 .. L : i - 1 \in Nat
      OBVIOUS
    <3>. QED
      BY <2>4, <2>5, <3>1
  <2>7. QueuedFrom(w, q, m + L)'
    BY <1>0, <1>4, <2>4, <2>6, QueueGrows
  <2>8. CASE L = 0
    <3>1. Len(framesToRender) \in Nat /\ Len(framesToRender) # 0
      BY <1>0, <2>4, <2>8, LenProperties, EmptySeq
    <3>2. e < m + L
      BY <1>4, <2>8, <3>1 DEF QueuedFrom
    <3>3. PushedTo(w, m + L)'
      BY <1>4, <1>5, <2>4, <2>8, <2>a DEF PushedTo
    <3>. QED
      BY <1>6, <2>4, <2>7, <3>2, <3>3
  <2>9. CASE L > 0
    <3>1. e < m + L /\ m + L > 0 /\ L - 1 \in Nat /\ m + (L - 1) = (m + L) - 1
      BY <1>4, <2>9
    <3>2. PushedTo(w, m + L)'
      BY <2>4, <2>5, <2>9, <3>1 DEF PushedTo
    <3>. QED
      BY <1>6, <2>4, <2>7, <3>1, <3>2
  <2>. QED
    BY <2>8, <2>9
<1>. QED
  BY <1>8, <1>9, <1>10

(* ExpectedFrameIsComing, for a render whose range nobody changes, that    *)
(* does not bounce nor loop over a single frame: however the render        *)
(* threads interleave, fail or find nothing to show, and whatever the      *)
(* sizes of the pool and of the buffer, the scheduler never waits for a    *)
(* frame nobody has been asked for.                                        *)
THEOREM FrameAwaitedIsComing ==
  ASSUME PlaysOn
  PROVE  Spec => []ExpectedFrameIsComing
<1>1. CASE Policy # "Ordered"
  <2>1. ExpectedFrameIsComing
    BY <1>1 DEF ExpectedFrameIsComing
  <2>. QED
    BY <2>1, PTL
<1>2. CASE Policy = "Ordered"
  <2>. DEFINE Inv == /\ AliveInv /\ DrainInv /\ StopInv /\ StartOK /\ OrderedTypes
                     /\ BoundInv /\ RangeInv /\ PoolInv /\ UnfinishedInv /\ OneWayInv
                     /\ ComingInv
  <2>1. Init => Inv
    <3>. SUFFICES ASSUME Init PROVE Inv
      OBVIOUS
    <3>1. AliveInv /\ DrainInv /\ StopInv /\ StartOK /\ OrderedTypes /\ BoundInv
      BY <1>2, OrderedStart
    <3>2. RangeInv
      BY DEF Init, RangeInv
    <3>3. PoolInv
      <4>1. Cardinality(renderThreads) = 0 /\ Working = {}
        BY FS_EmptySet DEF Init, Working
      <4>2. \A s \in playback.parallel : OptimalNThreads(s) \in Nat
        BY DEF Init, PlaybackType, OptimalNThreads
      <4>. QED
        BY <4>1, <4>2 DEF Init, PoolInv
    <3>4. UnfinishedInv /\ OneWayInv /\ ComingInv
      BY DEF Init, UnfinishedInv, OneWayInv, Pushing, ComingInv, Expecting, AtWork
    <3>. QED
      BY <3>1, <3>2, <3>3, <3>4
  <2>2. Inv /\ [Next]_vars => Inv'
    <3>. SUFFICES ASSUME Inv, [Next]_vars PROVE Inv'
      OBVIOUS
    <3>0. MaxRangeChanges = 0
      BY DEF PlaysOn
    <3>1. AliveInv' /\ DrainInv' /\ StopInv'
      BY <1>2, AliveKept, DrainKept, StopKept
    <3>2. StartOK'
      BY <1>2, StartKept DEF OrderedTypes
    <3>3. OrderedTypes'
      BY <1>2, TypesKept
    <3>4. BoundInv'
      BY <1>2, <3>3, BoundKept
    <3>5. RangeInv'
      BY <3>0, RangeKept
    <3>6. PoolInv'
      BY <1>2, <3>0, <3>1, PoolKept
    <3>7. UnfinishedInv' /\ OneWayInv'
      BY <1>2, UnfinishedKept, OneWayKept
    <3>8. ComingInv'
      <4>1. ASSUME NEW t \in Threads, RenderThreadStep(t) PROVE ComingInv'
        BY <1>2, <3>0, <3>3, <4>1, RenderThreadComing
      <4>2. CASE PushFirstFrames
        BY <1>2, <3>0, <3>3, <4>2, FirstComing
      <4>3. CASE TakeFrame
        BY <1>2, <3>3, <4>3, TakeComing
      <4>4. CASE PushUnlessBufferFull
        BY <1>2, <3>3, <4>4, PushMoreComing
      <4>5. CASE \/ RenderFrameRange \/ AbortRendering \/ OnAbortRequested \/ ChangeRange
                 \/ UNCHANGED vars
                 \/ SchedulerStep /\ ~PushFirstFrames /\ ~TakeFrame /\ ~PushUnlessBufferFull
        BY <1>2, <3>0, <3>3, <4>5, SchedulerKeepsComing
      <4>. QED
        BY <4>1, <4>2, <4>3, <4>4, <4>5 DEF Next
    <3>. QED
      BY <3>1, <3>2, <3>3, <3>4, <3>5, <3>6, <3>7, <3>8
  <2>3. Inv => ExpectedFrameIsComing
    <3>. SUFFICES ASSUME Inv, Steady, ~finished, ~abortRequested,
                         spc \in {"top", "empty", "take", "resolve", "decide", "waiting"},
                         Shown(expectFrameToRender)
                  PROVE  \/ expectFrameToRender \in Queued \cup FramesInHand
                         \/ buf[expectFrameToRender] > 0
      BY DEF ExpectedFrameIsComing, Steady, Shown
    <3>1. Expecting /\ ~Pushes
      BY DEF Expecting, AtWork, Pushes
    <3>2. PICK w \in [Nat -> FrameStep], e \in Nat, q \in Nat, m \in Nat : Coming(w, e, q, m)
      BY <3>1 DEF ComingInv
    <3>3. e < m
      BY <3>1, <3>2 DEF Coming
    <3>4. expectFrameToRender \in Frames
      BY DEF OrderedTypes, FramesOK, Pushing
    <3>. QED
      BY <3>2, <3>3, <3>4, ComingFrame
  <2>. QED
    BY <2>1, <2>2, <2>3, PTL DEF Spec
<1>. QED
  BY <1>1, <1>2

-----------------------------------------------------------------------------
(* A playback with an ideal renderer (Playback): one that starts in its     *)
(* range stays in it, whatever the timeline, the mode and the direction.   *)

PlayRuns == [mode : Modes, first : Int, last : Int, start : Int]

InRangeInv ==
    /\ playArgs \in PlayRuns /\ playDirection \in Directions
    /\ playArgs.first <= playArgs.last
    /\ expectFrame \in FrameRange
    /\ played \subseteq FrameRange

(* getNextFrameInSequence() with a step of 1 returns a frame of the range  *)
(* when it is given one: each of the cases turns back or wraps around      *)
(* before the end it is at.                                                *)
LEMMA NextFrameStaysInRange ==
  ASSUME NEW mode \in Modes, NEW dir \in Directions,
         NEW first \in Int, NEW last \in Int, first <= last,
         NEW f \in first .. last
  PROVE  LET next == NextFrameInSequence(mode, dir, f, first, last, 1)
         IN next.frame \in first .. last /\ next.direction \in Directions
<1> DEFINE next == NextFrameInSequence(mode, dir, f, first, last, 1)
<1>1. CASE first = last
  BY <1>1 DEF NextFrameInSequence, GoTo
<1>2. CASE first < last /\ f = first
  <2>1. next = AtFirstFrame(mode, dir, f, first, last, 1)
    BY <1>2 DEF NextFrameInSequence
  <2>2. CASE mode = "Loop" /\ dir = "Forward"
    BY <1>2, <2>1, <2>2 DEF AtFirstFrame, GoTo, Finished, Directions
  <2>3. CASE mode = "Loop" /\ dir = "Backward"
    BY <1>2, <2>1, <2>3 DEF AtFirstFrame, GoTo, Finished, Directions
  <2>4. CASE mode = "Bounce" /\ dir = "Forward"
    BY <1>2, <2>1, <2>4 DEF AtFirstFrame, GoTo, Finished, Directions
  <2>5. CASE mode = "Bounce" /\ dir = "Backward"
    BY <1>2, <2>1, <2>5 DEF AtFirstFrame, GoTo, Finished, Directions
  <2>6. CASE mode = "Once" /\ dir = "Forward"
    BY <1>2, <2>1, <2>6 DEF AtFirstFrame, GoTo, Finished, Directions
  <2>7. CASE mode = "Once" /\ dir = "Backward"
    BY <1>2, <2>1, <2>7 DEF AtFirstFrame, GoTo, Finished, Directions
  <2>. QED
    BY <2>2, <2>3, <2>4, <2>5, <2>6, <2>7 DEF Modes, Directions
<1>3. CASE first < last /\ f = last
  <2>1. next = AtLastFrame(mode, dir, f, first, last, 1)
    BY <1>3 DEF NextFrameInSequence
  <2>2. CASE mode = "Loop" /\ dir = "Forward"
    BY <1>3, <2>1, <2>2 DEF AtLastFrame, GoTo, Finished, Directions
  <2>3. CASE mode = "Loop" /\ dir = "Backward"
    BY <1>3, <2>1, <2>3 DEF AtLastFrame, GoTo, Finished, Directions
  <2>4. CASE mode = "Bounce" /\ dir = "Forward"
    BY <1>3, <2>1, <2>4 DEF AtLastFrame, GoTo, Finished, Directions
  <2>5. CASE mode = "Bounce" /\ dir = "Backward"
    BY <1>3, <2>1, <2>5 DEF AtLastFrame, GoTo, Finished, Directions
  <2>6. CASE mode = "Once" /\ dir = "Forward"
    BY <1>3, <2>1, <2>6 DEF AtLastFrame, GoTo, Finished, Directions
  <2>7. CASE mode = "Once" /\ dir = "Backward"
    BY <1>3, <2>1, <2>7 DEF AtLastFrame, GoTo, Finished, Directions
  <2>. QED
    BY <2>2, <2>3, <2>4, <2>5, <2>6, <2>7 DEF Modes, Directions
<1>4. CASE first < f /\ f < last
  BY <1>4 DEF NextFrameInSequence, GoTo
<1>. QED
  BY <1>1, <1>2, <1>3, <1>4

(* A playback whose playhead is in the range has its next frame, and what  *)
(* it has processed, in the range.                                         *)
LEMMA RangeInvariant ==
  ASSUME InsideOnly
  PROVE  PlaySpec => []InRangeInv
<1>1. PlayInit => InRangeInv
  BY PlaybackAssumption DEF PlayInit, InRangeInv, PlayRuns, FrameRange, StartingFrame
<1>2. InRangeInv /\ [PlayNext]_playVars => InRangeInv'
  <2> SUFFICES ASSUME InRangeInv, [PlayNext]_playVars PROVE InRangeInv'
    OBVIOUS
  <2>1. CASE UNCHANGED playVars
    BY <2>1 DEF playVars, InRangeInv, FrameRange
  <2>2. CASE PlayFrame
    <3>1. /\ playArgs' = playArgs /\ FrameRange' = FrameRange
          /\ played' = played \cup {expectFrame}
      BY <2>2 DEF PlayFrame, FrameRange
    <3>2. playArgs.mode \in Modes /\ playArgs.first \in Int /\ playArgs.last \in Int
      BY DEF InRangeInv, PlayRuns
    <3>3. expectFrame' \in FrameRange /\ playDirection' \in Directions
      <4>1. CASE SingleFrame
        BY <2>2, <4>1 DEF PlayFrame, Finished, InRangeInv, Directions
      <4>2. CASE ~SingleFrame
        BY <2>2, <3>2, <4>2, NextFrameStaysInRange
           DEF PlayFrame, InRangeInv, FrameRange, Step
      <4>. QED
        BY <4>1, <4>2
    <3>. QED
      BY <3>1, <3>3 DEF InRangeInv
  <2>. QED
    BY <2>1, <2>2 DEF PlayNext
<1>. QED
  BY <1>1, <1>2, PTL DEF PlaySpec

(* startRender(): the frames "will be in the range determined by           *)
(* firstFrame-lastFrame", when the playhead is.                            *)
THEOREM PlaybackStaysInRange ==
  ASSUME InsideOnly
  PROVE  PlaySpec => []FramesInRange
<1>1. InRangeInv => FramesInRange
  BY DEF InRangeInv, FramesInRange
<1>. QED
  BY <1>1, RangeInvariant, PTL
-----------------------------------------------------------------------------
(* What a playback plays to its end                                         *)

(* A playback of mode Once has processed the frames from its start to the  *)
(* one before the next; no other mode finishes.                            *)
PlayedSoFar == IF playDirection = "Forward" THEN playArgs.start .. expectFrame - 1
                                        ELSE expectFrame + 1 .. playArgs.start
OnceInv ==
    /\ playArgs.start \in FrameRange
    /\ playFinished \in BOOLEAN
    /\ playFinished => playArgs.mode = "Once" /\ OncePlaysTheRest
    /\ (playArgs.mode = "Once" /\ ~playFinished) =>
          /\ played = PlayedSoFar
          /\ playDirection = "Forward" => playArgs.start <= expectFrame
          /\ playDirection = "Backward" => expectFrame <= playArgs.start

(* A step of a playback of mode Once: finished at the end of the range its *)
(* direction goes to, and otherwise to the neighbour.                      *)
OnceMove(dir, first, last, f, next) ==
    LET end == IF dir = "Forward" THEN last ELSE first
    IN /\ next.direction = dir
       /\ f = end => next.canContinue = FALSE
       /\ f # end => /\ next.canContinue = TRUE
                     /\ next.frame = IF dir = "Forward" THEN f + 1 ELSE f - 1

(* getNextFrameInSequence() makes such a step.                             *)
LEMMA OnceNextFrame ==
  ASSUME NEW dir \in Directions, NEW first \in Int, NEW last \in Int,
         first < last, NEW f \in first .. last
  PROVE  OnceMove(dir, first, last, f, NextFrameInSequence("Once", dir, f, first, last, 1))
<1> DEFINE next == NextFrameInSequence("Once", dir, f, first, last, 1)
<1>1. CASE f = first
  <2>1. next = AtFirstFrame("Once", dir, f, first, last, 1)
    BY <1>1 DEF NextFrameInSequence
  <2>2. CASE dir = "Forward"
    BY <1>1, <2>1, <2>2 DEF OnceMove, AtFirstFrame, GoTo, Finished
  <2>3. CASE dir = "Backward"
    BY <1>1, <2>1, <2>3 DEF OnceMove, AtFirstFrame, GoTo, Finished
  <2>. QED
    BY <2>2, <2>3 DEF Directions
<1>2. CASE f = last
  <2>1. next = AtLastFrame("Once", dir, f, first, last, 1)
    BY <1>2 DEF NextFrameInSequence
  <2>2. CASE dir = "Forward"
    BY <1>2, <2>1, <2>2 DEF OnceMove, AtLastFrame, GoTo, Finished
  <2>3. CASE dir = "Backward"
    BY <1>2, <2>1, <2>3 DEF OnceMove, AtLastFrame, GoTo, Finished
  <2>. QED
    BY <2>2, <2>3 DEF Directions
<1>3. CASE first < f /\ f < last
  BY <1>3 DEF OnceMove, NextFrameInSequence, GoTo
<1>4. f = first \/ f = last \/ (first < f /\ f < last)
  OBVIOUS
<1>. QED
  BY <1>1, <1>2, <1>3, <1>4, Zenon

(* The other modes never finish.                                           *)
LEMMA OthersGoOn ==
  ASSUME NEW mode \in Modes, mode # "Once", NEW dir \in Directions,
         NEW first \in Int, NEW last \in Int, NEW f \in first .. last
  PROVE  NextFrameInSequence(mode, dir, f, first, last, 1).canContinue
<1> DEFINE next == NextFrameInSequence(mode, dir, f, first, last, 1)
<1>1. CASE first = last \/ (first < f /\ f < last)
  BY <1>1 DEF NextFrameInSequence, GoTo
<1>2. ASSUME next = AtFirstFrame(mode, dir, f, first, last, 1) PROVE next.canContinue
  <2>1. CASE mode = "Loop" /\ dir = "Forward"
    BY <1>2, <2>1 DEF AtFirstFrame, GoTo
  <2>2. CASE mode = "Loop" /\ dir = "Backward"
    BY <1>2, <2>2 DEF AtFirstFrame, GoTo
  <2>3. CASE mode = "Bounce" /\ dir = "Forward"
    BY <1>2, <2>3 DEF AtFirstFrame, GoTo
  <2>4. CASE mode = "Bounce" /\ dir = "Backward"
    BY <1>2, <2>4 DEF AtFirstFrame, GoTo
  <2>. QED
    BY <2>1, <2>2, <2>3, <2>4 DEF Modes, Directions
<1>3. ASSUME next = AtLastFrame(mode, dir, f, first, last, 1) PROVE next.canContinue
  <2>1. CASE mode = "Loop" /\ dir = "Forward"
    BY <1>3, <2>1 DEF AtLastFrame, GoTo
  <2>2. CASE mode = "Loop" /\ dir = "Backward"
    BY <1>3, <2>2 DEF AtLastFrame, GoTo
  <2>3. CASE mode = "Bounce" /\ dir = "Forward"
    BY <1>3, <2>3 DEF AtLastFrame, GoTo
  <2>4. CASE mode = "Bounce" /\ dir = "Backward"
    BY <1>3, <2>4 DEF AtLastFrame, GoTo
  <2>. QED
    BY <2>1, <2>2, <2>3, <2>4 DEF Modes, Directions
<1>4. CASE first < last /\ f = first
  BY <1>2, <1>4 DEF NextFrameInSequence
<1>5. CASE first < last /\ f = last
  BY <1>3, <1>5 DEF NextFrameInSequence
<1>. QED
  BY <1>1, <1>4, <1>5

(* A playback of one frame in mode Once plays it and is over.              *)
LEMMA SingleFramePlayed ==
  ASSUME InRangeInv, OnceInv, PlayFrame, SingleFrame
  PROVE  OnceInv'
<1>1. /\ playFinished' = TRUE /\ ~playFinished /\ playDirection' = "Forward"
      /\ expectFrame' = expectFrame
      /\ played' = played \cup {expectFrame} /\ playArgs' = playArgs
  BY DEF PlayFrame, SingleFrame, Finished
<1>2. /\ playArgs.start = playArgs.last /\ expectFrame = playArgs.last
      /\ playArgs.first = playArgs.last /\ playArgs.last \in Int
  BY DEF InRangeInv, OnceInv, PlayRuns, FrameRange, SingleFrame
<1>3. played = {}
  BY <1>1, <1>2 DEF OnceInv, PlayedSoFar, SingleFrame, InRangeInv, Directions
<1>4. played' = playArgs.start .. playArgs.last
  BY <1>1, <1>2, <1>3
<1>. QED
  BY <1>1, <1>2, <1>4 DEF OnceInv, FrameRange, OncePlaysTheRest, SingleFrame

(* A playback of mode Once goes on to the end of its range.                *)
LEMMA OncePlayed ==
  ASSUME InRangeInv, OnceInv, PlayFrame, playArgs.mode = "Once", playArgs.first < playArgs.last
  PROVE  OnceInv'
<1> DEFINE next == NextFrameInSequence("Once", playDirection, expectFrame,
                                       playArgs.first, playArgs.last, 1)
           end == IF playDirection = "Forward" THEN playArgs.last ELSE playArgs.first
<1>1. /\ ~playFinished /\ playFinished' = ~next.canContinue
      /\ playDirection' = next.direction /\ expectFrame' = next.frame
      /\ played' = played \cup {expectFrame} /\ playArgs' = playArgs
  <2>1. ~SingleFrame
    BY DEF SingleFrame, InRangeInv, PlayRuns
  <2>. QED
    BY <2>1, Zenon DEF PlayFrame, Step
<1>2. /\ playArgs.start \in Int /\ playArgs.first \in Int /\ playArgs.last \in Int
      /\ expectFrame \in Int
      /\ expectFrame \in playArgs.first .. playArgs.last /\ playDirection \in Directions
      /\ playArgs.start \in playArgs.first .. playArgs.last
  BY DEF InRangeInv, OnceInv, PlayRuns, FrameRange
<1>3. /\ next.direction = playDirection
      /\ expectFrame = end => next.canContinue = FALSE
      /\ expectFrame # end => /\ next.canContinue = TRUE
                        /\ next.frame = IF playDirection = "Forward" THEN expectFrame + 1
                                                                  ELSE expectFrame - 1
  <2>1. OnceMove(playDirection, playArgs.first, playArgs.last, expectFrame, next)
    BY <1>2, OnceNextFrame
  <2> HIDE DEF next
  <2>. QED
    BY <2>1 DEF OnceMove
<1>4. /\ played = PlayedSoFar
      /\ playDirection = "Forward" => playArgs.start <= expectFrame
      /\ playDirection = "Backward" => expectFrame <= playArgs.start
  BY <1>1 DEF OnceInv
<1> HIDE DEF next
<1>5. played' = IF playDirection = "Forward" THEN playArgs.start .. expectFrame
                                             ELSE expectFrame .. playArgs.start
  BY <1>1, <1>2, <1>4 DEF PlayedSoFar, Directions
<1>6. playArgs'.start \in FrameRange' /\ playFinished' \in BOOLEAN
  BY <1>1, <1>2, <1>3 DEF FrameRange
<1>7. CASE expectFrame = end
  <2>1. playFinished' /\ playDirection' = playDirection
    BY <1>1, <1>3, <1>7
  <2>2. OncePlaysTheRest'
    BY <1>1, <1>2, <1>5, <1>7, <2>1 DEF OncePlaysTheRest, Directions
  <2>. QED
    BY <1>1, <1>6, <2>1, <2>2 DEF OnceInv
<1>8. CASE expectFrame # end
  <2>1. ~playFinished' /\ playDirection' = playDirection
        /\ expectFrame' = IF playDirection = "Forward" THEN expectFrame + 1
                                                      ELSE expectFrame - 1
    BY <1>1, <1>3, <1>8
  <2>2. played' = PlayedSoFar'
    BY <1>1, <1>2, <1>5, <2>1 DEF PlayedSoFar, Directions
  <2>3. /\ playDirection' = "Forward" => playArgs'.start <= expectFrame'
        /\ playDirection' = "Backward" => expectFrame' <= playArgs'.start
    BY <1>1, <1>2, <1>4, <2>1
  <2>. QED
    BY <1>1, <1>6, <2>1, <2>2, <2>3 DEF OnceInv
<1>. QED
  BY <1>7, <1>8

(* Division: of the multiples of s, the last one up to n.                  *)
LEMMA Quotient ==
  ASSUME NEW n \in Nat, NEW s \in Nat, s > 0
  PROVE  /\ n \div s \in Nat
         /\ (n \div s) * s <= n
         /\ n < ((n \div s) + 1) * s
<1>1. n = s * (n \div s) + (n % s) /\ n % s \in 0 .. s - 1
  BY Z3
<1>. QED
  BY <1>1, Z3

(* There is one of them only.                                              *)
LEMMA QuotientIsUnique ==
  ASSUME NEW n \in Int, NEW s \in Nat, s > 0, NEW q \in Int, NEW p \in Int,
         q * s <= n, n < (q + 1) * s, p * s <= n, n < (p + 1) * s
  PROVE  q = p
<1>1. ASSUME q < p PROVE FALSE
  <2>1. q + 1 <= p
    BY <1>1
  <2>2. (q + 1) * s <= p * s
    BY <2>1, Z3
  <2>. QED
    BY <2>2, Z3
<1>2. ASSUME p < q PROVE FALSE
  <2>1. p + 1 <= q
    BY <1>2
  <2>2. (p + 1) * s <= q * s
    BY <2>1, Z3
  <2>. QED
    BY <2>2, Z3
<1>. QED
  BY <1>1, <1>2

(* pushAllFrameRange() pushes as many frames as notifyFrameRendered()      *)
(* waits for, all of them in the range, for every step.                    *)
LEMMA PushedFramesAreCounted ==
  ASSUME NEW dir \in Directions, NEW first \in Int, NEW last \in Int, first <= last,
         NEW s \in Nat, s > 0
  PROVE  LET pushed == AllFrameRange(dir, first, last, s)
         IN /\ Len(pushed) = TotalFrames(first, last, s)
            /\ \A k \in DOMAIN pushed : pushed[k] \in first .. last
<1> DEFINE n == last - first
           q == n \div s
           pushed == AllFrameRange(dir, first, last, s)
<1>1. n \in Nat /\ q \in Nat /\ q * s <= n /\ n < (q + 1) * s
  BY Quotient
<1>2. TotalFrames(first, last, s) = q + 1
  <2> DEFINE p == (n + s) \div s
  <2>1. p \in Nat /\ p * s <= n + s /\ n + s < (p + 1) * s
    <3>1. n + s \in Nat
      BY <1>1
    <3>. QED
      BY <3>1, Quotient
  <2>2. (q + 1) * s = q * s + s /\ (q + 1 + 1) * s = (q + 1) * s + s
    BY <1>1, Z3
  <2>3. (q + 1) * s \in Int /\ q * s \in Int
    BY <1>1, Z3
  <2>4. (q + 1) * s <= n + s /\ n + s < (q + 1 + 1) * s
    <3> DEFINE a == q * s
               b == (q + 1) * s
               c == (q + 1 + 1) * s
    <3>1. a \in Int /\ b \in Int /\ b = a + s /\ c = b + s /\ a <= n /\ n < b /\ n \in Int
      BY <1>1, <2>2, <2>3
    <3> HIDE DEF a, b, c, n
    <3>2. b <= n + s /\ n + s < c
      BY <3>1
    <3>. QED
      BY <3>2 DEF b, c
  <2>5. n + s \in Int /\ q + 1 \in Int /\ p \in Int
    BY <1>1, <2>1
  <2> HIDE DEF p, q
  <2>6. p = q + 1
    BY <2>1, <2>4, <2>5, QuotientIsUnique
  <2>. QED
    BY <2>6 DEF TotalFrames, p
<1>3. pushed = [k \in 1 .. q + 1 |-> IF dir = "Forward" THEN first + (k - 1) * s
                                                       ELSE last - (k - 1) * s]
  BY DEF AllFrameRange
<1>4. Len(pushed) = q + 1
  <2> HIDE DEF q, pushed
  <2>. QED
    BY <1>1, <1>3
<1>5. ASSUME NEW k \in 1 .. q + 1 PROVE pushed[k] \in first .. last
  <2> HIDE DEF q
  <2>1. (k - 1) * s \in Int /\ 0 <= (k - 1) * s /\ (k - 1) * s <= q * s
    <3>1. k - 1 \in Int /\ 0 <= k - 1 /\ k - 1 <= q
      BY <1>1
    <3> DEFINE j == k - 1
    <3> HIDE DEF j
    <3>2. j \in Int /\ 0 <= j /\ j <= q
      BY <3>1 DEF j
    <3>3. j * s \in Int /\ 0 <= j * s /\ j * s <= q * s
      BY <1>1, <3>2, Z3
    <3>. QED
      BY <3>3 DEF j
  <2> DEFINE a == (k - 1) * s
             b == q * s
  <2>2. a \in Int /\ 0 <= a /\ a <= n
    <3>1. b \in Int /\ b <= n /\ n \in Int
      BY <1>1, Z3
    <3>2. a \in Int /\ 0 <= a /\ a <= b
      BY <2>1
    <3> HIDE DEF a, b, n
    <3>. QED
      BY <3>1, <3>2
  <2>3. pushed[k] = IF dir = "Forward" THEN first + a ELSE last - a
    BY <1>3
  <2> HIDE DEF a, pushed
  <2>. QED
    BY <2>2, <2>3
<1>6. DOMAIN pushed = 1 .. q + 1
  BY <1>3
<1> HIDE DEF pushed, q
<1>7. \A k \in DOMAIN pushed : pushed[k] \in first .. last
  BY <1>5, <1>6
<1>8. Len(pushed) = TotalFrames(first, last, s)
  BY <1>2, <1>4
<1>. QED
  BY <1>7, <1>8 DEF pushed

(* A playback of mode Once that starts in its range ends after exactly the *)
(* frames from its start to the end it goes to; and a free-for-all render  *)
(* of the range waits for exactly as many frames as it pushes, for every   *)
(* step.                                                                   *)
THEOREM AllFramesArePlayed ==
  ASSUME InsideOnly
  PROVE  PlaySpec => []AllFramesPlayed
<1>1. PlayInit => OnceInv
  <2> SUFFICES ASSUME PlayInit PROVE OnceInv
    OBVIOUS
  <2>1. /\ playArgs.start \in FrameRange /\ playFinished = FALSE /\ played = {}
        /\ expectFrame = playArgs.start /\ playArgs.start \in Int /\ playDirection \in Directions
    BY PlaybackAssumption DEF PlayInit, FrameRange, StartingFrame
  <2>2. played = PlayedSoFar
    BY <2>1 DEF PlayedSoFar
  <2>3. /\ playDirection = "Forward" => playArgs.start <= expectFrame
        /\ playDirection = "Backward" => expectFrame <= playArgs.start
    BY <2>1
  <2>. QED
    BY <2>1, <2>2, <2>3, Zenon DEF OnceInv
<1>2. InRangeInv /\ OnceInv /\ [PlayNext]_playVars => OnceInv'
  <2> SUFFICES ASSUME InRangeInv, OnceInv, [PlayNext]_playVars PROVE OnceInv'
    OBVIOUS
  <2>1. CASE UNCHANGED playVars
    BY <2>1 DEF playVars, OnceInv, OncePlaysTheRest, PlayedSoFar, FrameRange
  <2>2. CASE PlayFrame
    <3>1. CASE SingleFrame
      BY <2>2, <3>1, SingleFramePlayed
    <3>2. CASE playArgs.mode = "Once" /\ ~SingleFrame
      <4>1. playArgs.first < playArgs.last
        BY <3>2 DEF SingleFrame, InRangeInv, PlayRuns
      <4>. QED
        BY <2>2, <3>2, <4>1, OncePlayed
    <3>3. CASE playArgs.mode # "Once"
      <4>1. /\ playArgs.mode \in Modes /\ playDirection \in Directions
            /\ playArgs.first \in Int /\ playArgs.last \in Int
            /\ expectFrame \in playArgs.first .. playArgs.last
        BY DEF InRangeInv, PlayRuns, FrameRange
      <4>2. NextFrameInSequence(playArgs.mode, playDirection, expectFrame,
                                playArgs.first, playArgs.last, 1).canContinue
        BY <3>3, <4>1, OthersGoOn
      <4>3. playFinished' = FALSE /\ playArgs' = playArgs
        BY <2>2, <3>3, <4>2 DEF PlayFrame, SingleFrame, Step
      <4>. QED
        BY <3>3, <4>3 DEF OnceInv, FrameRange
    <3>. QED
      BY <3>1, <3>2, <3>3
  <2>. QED
    BY <2>1, <2>2 DEF PlayNext
<1>3. OnceInv => OncePlaysTheRest
  BY DEF OnceInv, OncePlaysTheRest
<1>4. InRangeInv => AllFramesCounted
  <2> SUFFICES ASSUME InRangeInv, NEW dir \in Directions,
                      NEW s \in 1 .. Cardinality(Timeline)
               PROVE  LET pushed == AllFrameRange(dir, playArgs.first, playArgs.last, s)
                      IN /\ Len(pushed) = TotalFrames(playArgs.first, playArgs.last, s)
                         /\ \A k \in DOMAIN pushed : pushed[k] \in FrameRange
    BY DEF AllFramesCounted
  <2>1. Cardinality(Timeline) \in Nat
    BY PlaybackAssumption, FS_CardinalityType
  <2>2. s \in Nat /\ s > 0
    BY <2>1
  <2>3. playArgs.first \in Int /\ playArgs.last \in Int /\ playArgs.first <= playArgs.last
    BY DEF InRangeInv, PlayRuns
  <2>. QED
    BY <2>2, <2>3, PushedFramesAreCounted DEF FrameRange
<1>5. PlaySpec => []InRangeInv
  BY RangeInvariant
<1>6. OnceInv /\ InRangeInv => AllFramesPlayed
  BY <1>3, <1>4 DEF AllFramesPlayed
<1>. QED
  BY <1>1, <1>2, <1>5, <1>6, PTL DEF PlaySpec
=============================================================================
