------------------------- MODULE MCOutputScheduler -------------------------
EXTENDS OutputScheduler, TLC

ThreeFrames    == {<<1, 3>>}
ShrinkingRange == {<<1, 3>>, <<1, 2>>}

Writes      == {[mode |-> "Once", failing |-> {}, silent |-> {}, parallel |-> {1, 2},
                 aborts |-> 1]}
LoopOrFail  == {[mode |-> "Loop", failing |-> {}, silent |-> {}, parallel |-> {2},
                 aborts |-> 0],
                [mode |-> "Once", failing |-> {3}, silent |-> {3}, parallel |-> {1, 2},
                 aborts |-> 1]}
ThreadSymmetry == Permutations(Threads)
=============================================================================
