\* Start, failures, signals, keys and commands at every point, two workers.
SPECIFICATION FairSpec
CONSTANTS
    NUM_WORKERS = 2
    LCores = 4
    MaxSignals = 2
    Chars = {"q", " "}
    Blank = " "
    Spelling <- Spellings
    InputSize = 4
    MaxKeys = 5
INVARIANTS
    TypeOK
    NoUseAfterFree
    TerminalRestored
PROPERTIES
    QuitEnds
\* The process ends.
CHECK_DEADLOCK FALSE
