\* The same, but the lock may be granted while a USB command runs.
CONSTANTS
    Size = 12
    HdrLen = 4
    MagicLen = 2
    MaxSent = 2
    Payloads <- MCPayloads
    AmigaCmds <- Cmds
    UsbCmds <- UsbOwn
    AmigaLocks <- LoopbackLocks
    UsbLocks <- NoLocks
    QuietLock = FALSE
SPECIFICATION Spec
PROPERTIES
    LockExcludesUsb
