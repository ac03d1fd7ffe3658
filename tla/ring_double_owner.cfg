\* Both sides lock: the Amiga the USB side out of atou, and the reverse.
CONSTANTS
    Size = 12
    HdrLen = 4
    MagicLen = 2
    MaxSent = 1
    Payloads <- MCPayloads
    AmigaCmds <- AmigaOwn
    UsbCmds <- UsbOwn
    AmigaLocks <- AmigaTakesAtou
    UsbLocks <- UsbTakesAtou
    QuietLock = FALSE
SPECIFICATION Spec
INVARIANTS
    NoDoubleOwner
