\* A connects to a listening B over a radio that loses nothing: T1 may
\* expire before the XID response arrives
SPECIFICATION Spec
CONSTANTS
    ProgA <- MCProgA
    ProgB <- MCProgB
    NRetry = 1
    Routed = TRUE
    ChanCap = 2
    MaxLoss = 0
INVARIANT ModesAgree
CHECK_DEADLOCK FALSE
CONSTRAINT MCBound
