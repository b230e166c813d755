CONSTANTS
    Frames <- MCFramesEscaped
    Mru = 64
    BufSz = 6
SPECIFICATION FairSpec
INVARIANT TypeOK
INVARIANT FramesInOrder
PROPERTY AllDelivered
