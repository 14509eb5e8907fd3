\* Reports of two ticks over the counters of the dispatcher and two workers.
SPECIFICATION FairSpec
CONSTANTS
    w1 = w1
    w2 = w2
    Headers <- Arriving
    Workers = {w1, w2}
    BURST_SIZE = 2
    RingSize = 1
    AGING_NUM_CHUNKS = 2
    LcoreOrder <- Order
    MaxPackets = 2
INVARIANTS
    TypeOK
    ParsesWhatIsThere
    EveryPacketCounted
    OnlyTcpUdpReachWorkers
    TotalsBetween
    WorkerRatesCoverOnePeriod
PROPERTIES
    ReportSettles
