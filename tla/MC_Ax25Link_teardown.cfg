CONSTANTS
    StationA = StationA
    StationB = StationB
    Socks <- MCSocks
    Writes <- MCWrites8
    Exchanged <- MCExchanged7
    Hangup <- MCAllHangup
    Mode = "SABM"
    WindowTx = 2
    WindowRx = 4
    NRetry = 1
    ChanCap = 1
    MaxLoss = 1
    QuietTimers = FALSE
SPECIFICATION Spec
INVARIANT AckedDelivered
CHECK_DEADLOCK FALSE
