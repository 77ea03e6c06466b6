--------------------------- MODULE FrameSequence ---------------------------
(***************************************************************************)
(* The order in which the OutputSchedulerThread visits the frames of a     *)
(* range (Engine/OutputSchedulerThread.cpp).  The same function drives the *)
(* frames pushed to the render threads and the frames expected from them.  *)
(***************************************************************************)
EXTENDS Integers, Sequences

Modes      == {"Loop", "Bounce", "Once"}
Directions == {"Forward", "Backward"}

(* What getNextFrameInSequence() returns: whether to go on, and where *)
GoTo(frame, direction) == [canContinue |-> TRUE, frame |-> frame, direction |-> direction]
Finished(frame, direction) ==
    [canContinue |-> FALSE, frame |-> frame, direction |-> direction]

AtFirstFrame_Ends(mode, direction, frame, first, last, step) ==
    IF mode = "Once" THEN Finished(frame, direction) ELSE GoTo(first + step, "Forward")
AtFirstFrame(mode, direction, frame, first, last, step) ==
    CASE mode = "Loop" /\ direction = "Forward"    -> GoTo(first + step, direction)
      [] mode = "Loop" /\ direction = "Backward"   -> GoTo(last - step, direction)
      [] mode = "Bounce" /\ direction = "Forward"  -> GoTo(last - step, "Backward")
      [] mode = "Bounce" /\ direction = "Backward" -> GoTo(first + step, "Forward")
      [] mode = "Once" /\ direction = "Forward"    -> GoTo(first + step, direction)
      [] mode = "Once" /\ direction = "Backward"   -> Finished(frame, direction)

AtLastFrame_Stays(mode, direction, frame, first, last, step) ==
    IF mode = "Bounce" THEN GoTo(last, "Backward") ELSE Finished(frame, direction)
AtLastFrame(mode, direction, frame, first, last, step) ==
    CASE mode = "Loop" /\ direction = "Forward"    -> GoTo(first, direction)
      [] mode = "Loop" /\ direction = "Backward"   -> GoTo(last - step, direction)
      [] mode = "Bounce" /\ direction = "Forward"  -> GoTo(last - step, "Backward")
      [] mode = "Bounce" /\ direction = "Backward" -> GoTo(first + step, "Forward")
      [] mode = "Once" /\ direction = "Forward"    -> Finished(frame, direction)
      [] mode = "Once" /\ direction = "Backward"   -> GoTo(last - step, direction)

NextFrameInSequence_OffByOne(mode, direction, frame, first, last, step) ==
    IF frame < first THEN AtFirstFrame(mode, direction, frame, first, last, step)
    ELSE IF frame > last THEN AtLastFrame(mode, direction, frame, first, last, step)
    ELSE GoTo(IF direction = "Forward" THEN frame + step ELSE frame - step, direction)
NextFrameInSequence(mode, direction, frame, first, last, step) ==
    IF first = last THEN GoTo(first, direction)
    ELSE IF frame <= first THEN AtFirstFrame(mode, direction, frame, first, last, step)
    ELSE IF frame >= last THEN AtLastFrame(mode, direction, frame, first, last, step)
    ELSE GoTo(IF direction = "Forward" THEN frame + step ELSE frame - step, direction)

(* pushAllFrameRange(): the frames of a free-for-all render *)
AllFrameRange(direction, first, last, step) ==
    [k \in 1 .. ((last - first) \div step) + 1 |->
        IF direction = "Forward" THEN first + (k - 1) * step
                                 ELSE last - (k - 1) * step]

(* notifyFrameRendered(): ceil((last - first + 1) / step) *)
TotalFrames(first, last, step) == (last - first + step) \div step
=============================================================================
