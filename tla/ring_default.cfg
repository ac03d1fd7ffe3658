\* Both sides keep to their own direction, nobody locks.
CONSTANTS
    Size = 12
    HdrLen = 4
    MagicLen = 2
    MaxSent = 3
    Payloads <- MCPayloads
    AmigaCmds <- AmigaOwn
    UsbCmds <- UsbOwn
    AmigaLocks <- NoLocks
    UsbLocks <- NoLocks
    QuietLock = TRUE
SPECIFICATION FairSpec
INVARIANTS
    TypeOK
    Framing
    ReplyWhole
PROPERTIES
    QueueSpec
    OnlyFlushDiscards
    Drained
