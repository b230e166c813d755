CONSTANTS
    StationA = StationA
    StationB = StationB
    Socks <- MCSocks
    Writes <- MCWrites3
    Exchanged <- MCExchanged0
    Hangup <- MCNoHangup
    Mode = "SABM"
    WindowTx = 2
    WindowRx = 4
    NRetry = 1
    ChanCap = 2
    MaxLoss = 1
    QuietTimers = FALSE
SPECIFICATION Spec
INVARIANT NoDuplicate
