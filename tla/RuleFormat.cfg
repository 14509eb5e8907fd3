\* A rule line with one field too many.
SPECIFICATION Spec
CONSTANTS
    ip1 = ip1
    ip2 = ip2
    Addresses = {ip1, ip2}
    Star = Star
    Garbage = Garbage
    Failed = Failed
    Tuples <- TwoTuples
    Files <- LongLine
    NULL = NULL
    NoFile = NoFile
    SPI_MAX_RULES = 2
    Matchers = {m1}
    MaxReadErrors = 0
    MaxEdits = 1
    MaxRequests = 1
INVARIANTS
    SevenFields
CHECK_DEADLOCK FALSE
