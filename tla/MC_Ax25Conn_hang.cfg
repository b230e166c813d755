\* A connects to a listening B; one frame may be lost
SPECIFICATION FairSpec
CONSTANTS
    ProgA <- MCProgA
    ProgB <- MCProgB
    NRetry = 1
    Routed = TRUE
    ChanCap = 1
    MaxLoss = 1
PROPERTY ConnectAnswered
CHECK_DEADLOCK FALSE
CONSTRAINT MCBound
CONSTRAINT MCNoStrayI
