\* Three commands, three troubles; tx_rb holds one command and a half.
SPECIFICATION Spec
CONSTANTS
    CmdData <- MCCmdData
    RepData <- MCRepData
    TxSize = 7
    FwTicks = 1
    HostTicks = 2
    MaxTrouble = 3
\* The host may have nothing more to ask.
CHECK_DEADLOCK FALSE
INVARIANTS
    OwnReply
    Recovers
