CONSTANTS
    Lines <- MCLines
    Mru = 64
    BufSz = 8
    BodySz = 2
SPECIFICATION FairSpec
PROPERTY AllDelivered
