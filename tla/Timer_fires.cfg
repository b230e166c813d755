CONSTANTS
    NsPerSec = 4
    MsPerSec = 2
    Period = 2
    NRetry = 1
    MaxWait = 4
    MaxGap = 2
    MaxSec = 2
SPECIFICATION FairSpec
PROPERTY T1Fires
