\* The Amiga's loopback test: it locks both rings between two USB commands and
\* then uses both directions; the USB side keeps sending, receiving and locking.
CONSTANTS
    Size = 12
    HdrLen = 4
    MagicLen = 2
    MaxSent = 3
    Payloads <- MCPayloads
    AmigaCmds <- Cmds
    UsbCmds <- UsbOwn
    AmigaLocks <- LoopbackLocks
    UsbLocks <- UsbTakesAtou
    QuietLock = TRUE
SPECIFICATION Spec
INVARIANTS
    IInv
    NoDoubleOwner
PROPERTIES
    QueueSpec
    LockExcludesUsb
