\* B binds but never listens: A's connect is refused
SPECIFICATION Spec
CONSTANTS
    ProgA <- MCProgA
    ProgB <- MCProgBNoListen
    NRetry = 1
    Routed = TRUE
    ChanCap = 1
    MaxLoss = 0
INVARIANT RepliesMatch
CHECK_DEADLOCK FALSE
CONSTRAINT MCBound
