SPECIFICATION Spec
CONSTANTS
    ProgA <- MCProgA
    ProgB <- MCProgB
    NRetry = 1
    Routed = TRUE
    ChanCap = 1
    MaxLoss = 1
INVARIANT TypeOK
INVARIANT ConnectAnnounced
CHECK_DEADLOCK FALSE
CONSTRAINT MCBound
CONSTRAINT MCNoStrayI
