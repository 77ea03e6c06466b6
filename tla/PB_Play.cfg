SPECIFICATION PlaySpec
CONSTANTS
    Timeline = {1, 2, 3, 4, 5, 6, 7}
    PlayModes = {"Once", "Loop", "Bounce"}
    PlayDirections = {"Forward", "Backward"}
    InsideOnly = TRUE
INVARIANTS
    FramesInRange
    AllFramesPlayed
PROPERTIES
    PlaybackProgresses
CHECK_DEADLOCK FALSE
