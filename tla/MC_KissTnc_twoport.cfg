CONSTANTS
    Frames <- MCFramesTwoPorts
    Mru = 64
    BufSz = 20
SPECIFICATION FairSpec
INVARIANT FramesInOrder
