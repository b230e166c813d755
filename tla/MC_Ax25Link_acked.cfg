CONSTANTS
    StationA = StationA
    StationB = StationB
    Socks <- MCSocks
    Writes <- MCWrites8
    Exchanged <- MCExchanged5
    Hangup <- MCNoHangup
    Mode = "SABM"
    WindowTx = 2
    WindowRx = 4
    NRetry = 2
    ChanCap = 6
    MaxLoss = 4
    QuietTimers = TRUE
SPECIFICATION FairSpec
INVARIANT TypeOK
INVARIANT AckedDelivered
PROPERTY WritesDelivered
