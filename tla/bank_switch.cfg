\* The console, the Amiga and the reset keys, three commands in all.
SPECIFICATION FairSpec
CONSTANTS
    SomeBanks = {0, 3}
    Ranges <- SomeRanges
    LongSequences <- SomeSequences
    ResetTime = 1
    LongTime = 2
    LongPulse = 3
    MaxCommands = 3
INVARIANTS TypeOK LongResetOnce WritesItsBank
PROPERTIES BootsCurrent ResetEnds
