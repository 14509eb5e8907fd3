\* Bursts of up to three packets, two retries, partial and refused TX bursts, a stop
\* at any moment.
SPECIFICATION FairSpec
CONSTANTS
    BURST_SIZE = 3
    TX_RETRY_BUDGET = 2
    RingSize = 4
    MaxPackets = 6
INVARIANTS
    TypeOK
    StagingKeepsAll
    CountersAddUp
PROPERTIES
    KeepsCustody
    StopsOnQuit
    RingServed
\* The worker is done and the ring full.
CHECK_DEADLOCK FALSE
