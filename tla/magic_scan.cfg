\* Two commands among noise in a ring that holds one command exactly: it wraps
\* everywhere in a command, and the DMA overruns the scanner. One trouble before
\* the second command.
SPECIFICATION FairSpec
CONSTANTS
    Size = 6
    MagicWords = 2
    Wide = 3
    DataWords <- MCDataWords
    Lengths = {0, 2}
    MaxAhead = 1
    MaxTrouble = 1
INVARIANTS TypeOK ExecutesSent
PROPERTIES CleanAnswered GateReopens
