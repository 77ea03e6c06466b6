------------------------------ MODULE Playback ------------------------------
(***************************************************************************)
(* A playback with an ideal renderer: the frames threadLoopOnce() processes *)
(* when every frame is available at once.  The playhead may be anywhere on *)
(* the timeline when the playback starts.                                  *)
(***************************************************************************)
EXTENDS FrameSequence, FiniteSets

CONSTANTS
    Timeline,       \* the frames the playhead may be on
    PlayModes,      \* the modes to start with
    PlayDirections,
    InsideOnly      \* the playhead is inside the range when playback starts

ASSUME PlaybackAssumption ==
    /\ Timeline \subseteq Int /\ IsFiniteSet(Timeline)
    /\ PlayModes \subseteq Modes
    /\ PlayDirections \subseteq Directions /\ InsideOnly \in BOOLEAN

VARIABLES
    playArgs,       \* the run playArgs that do not change
    expectFrame,    \* expectFrameToRender
    playDirection,  \* processTimelineDirection
    playFinished,   \* renderFinished
    played          \* history: frames handed to processFrame()

playVars == <<playArgs, expectFrame, playDirection, playFinished, played>>

FrameRange == playArgs.first .. playArgs.last

(* renderFromCurrentFrame() computes the nearest frame of the range but    *)
(* does not use it: startRender() starts at timelineGetTime().             *)
StartingFrame(playhead, first, last) == playhead

(* renderFromCurrentFrame() plays every frame *)
Step == 1

PlayInit ==
    \E first, last, playhead \in Timeline, m \in PlayModes, d \in PlayDirections :
        /\ first <= last
        /\ InsideOnly => playhead \in first .. last
        /\ playArgs = [mode |-> m, first |-> first, last |-> last, start |-> playhead]
        /\ expectFrame = StartingFrame(playhead, first, last)
        /\ playDirection = d
        /\ playFinished = FALSE /\ played = {}

SingleFrame == playArgs.first = playArgs.last /\ playArgs.mode = "Once"

PlayFrame ==
    LET next == IF SingleFrame
                  THEN Finished(expectFrame, "Forward")
                  ELSE NextFrameInSequence(playArgs.mode, playDirection, expectFrame,
                                           playArgs.first, playArgs.last, Step)
    IN /\ ~playFinished
       /\ playFinished' = ~next.canContinue
       /\ playDirection' = next.direction
       /\ expectFrame' = next.frame
       /\ played' = played \cup {expectFrame}
       /\ UNCHANGED playArgs

PlayNext == PlayFrame
PlaySpec == PlayInit /\ [][PlayNext]_playVars /\ WF_playVars(PlayNext)

-----------------------------------------------------------------------------
PlayTypeOK ==
    /\ playArgs.mode \in Modes /\ playDirection \in Directions /\ expectFrame \in Int
    /\ playFinished \in BOOLEAN /\ played \subseteq Int

(* startRender(): the frames "will be in the range determined by           *)
(* firstFrame-lastFrame".                                                  *)
FramesInRange == played \subseteq FrameRange

(* A loop or a bounce plays every frame of the range again and again.  A   *)
(* backward loop never comes back to the last frame: from the first one,   *)
(* getNextFrameInSequence() goes to the last but one.                      *)
LeftOutByLoop(f) == playArgs.mode = "Loop" /\ playDirection = "Backward" /\ f = playArgs.last
EveryFramePlayed ==
    \A f \in Timeline :
        []<>(expectFrame = f \/ playFinished \/ f \notin FrameRange \/ LeftOutByLoop(f))

(* A playback in mode Once ends after the frames from its start to the end *)
(* of the range it goes to.                                                *)
OncePlaysTheRest ==
    playFinished =>
        played = IF playDirection = "Forward" THEN playArgs.start .. playArgs.last
                                             ELSE playArgs.first .. playArgs.start
OnceFinishes == playArgs.mode = "Once" => <>playFinished

(* notifyFrameRendered() counts the frames of a free-for-all render that   *)
(* pushAllFrameRange() pushed, all of them in the range.                   *)
AllFramesCounted ==
    \A dir \in Directions, s \in 1 .. Cardinality(Timeline) :
        LET pushed == AllFrameRange(dir, playArgs.first, playArgs.last, s)
        IN /\ Len(pushed) = TotalFrames(playArgs.first, playArgs.last, s)
           /\ \A k \in DOMAIN pushed : pushed[k] \in FrameRange

(* All the frames there are to play, and no other: in a playback of mode   *)
(* Once, and in the frames a free-for-all render pushes.                   *)
AllFramesPlayed == OncePlaysTheRest /\ AllFramesCounted

(* A playback goes on: mode Once to its end, the others over every frame.  *)
PlaybackProgresses == OnceFinishes /\ EveryFramePlayed
=============================================================================
