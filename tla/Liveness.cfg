\* Progress under the fairness of FairSpec: two positions, chunks of one entry, a
\* flow that stays in use and one that does not. The table never gets under
\* pressure and every worker ring is full.
SPECIFICATION FairSpec
CONSTANTS
    k1 = k1
    k2 = k2
    w1 = w1
    w2 = w2
    Slots = {s1, s2}
    Keys = {k1, k2}
    NoKey = NoKey
    Words = {cold}
    Workers = {w1}
    HashWorker <- OneWorker
    GenMod = 100
    VictimCap = 0
    FLOW_REPLACEMENT_RETRIES = 8
    Timeout = 0
    MaxNow = 2
    MaxCreated = 3
    RingSize = 0
    BURST_SIZE = 2
    Miss = Miss
    Unresolved = Unresolved
    WORKER_BURST = 1
    Bucket <- OneEntryEach
    AGING_NUM_CHUNKS = 3
    FLOW_VICTIM_FILL_BATCH = 1
    AGING_BATCH_SIZE = 1
    FLOW_PRESSURE_THRESHOLD_PCT = 100
    FLOW_AGGRESSIVE_THRESHOLD_PCT = 100
    FLOW_CRITICAL_THRESHOLD_PCT = 100
    FLOW_PRESSURE_TARGET_PCT = 100
    NoCandidate = NoCandidate
PROPERTIES
    RetiredEventuallyReclaimed
    BurstEnds
    IdleFlowDeleted
