\* Every order of edits, requests, loads, a read error and matches over five files.
SPECIFICATION FairSpec
CONSTANTS
    ip1 = ip1
    ip2 = ip2
    Addresses = {ip1, ip2}
    Star = Star
    Garbage = Garbage
    Failed = Failed
    Tuples <- TwoTuples
    Files <- SomeFiles
    NULL = NULL
    NoFile = NoFile
    SPI_MAX_RULES = 2
    Matchers = {m1}
    MaxReadErrors = 1
    MaxEdits = 2
    MaxRequests = 2
INVARIANTS
    TypeOK
    SnapshotVerdict
PROPERTIES
    PublishesWholeFiles
    ReloadServed
\* A failed init ends the process.
CHECK_DEADLOCK FALSE
