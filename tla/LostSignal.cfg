\* A signal between the installation of the handlers and force_quit = 0.
SPECIFICATION FairSpec
CONSTANTS
    NUM_WORKERS = 1
    LCores = 2
    MaxSignals = 1
    Chars = {"q", " "}
    Blank = " "
    Spelling <- Spellings
    InputSize = 4
    MaxKeys = 0
PROPERTIES
    PromiseKept
CHECK_DEADLOCK FALSE
