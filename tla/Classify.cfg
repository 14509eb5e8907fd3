\* One position that two flows of two workers fight for: reuse, replacement in the
\* middle of a burst, torn copies, and a generation that wraps every 2 publications.
\* No victim is cached: an eviction samples the table.
SPECIFICATION Spec
CONSTANTS
    k1 = k1
    k2 = k2
    w1 = w1
    w2 = w2
    Slots = {s1}
    Keys = {k1, k2}
    NoKey = NoKey
    Words = {addr, port}
    Workers = {w1, w2}
    HashWorker <- TwoWorkers
    GenMod = 3
    VictimCap = 0
    FLOW_REPLACEMENT_RETRIES = 8
    Timeout = 1
    MaxNow = 1
    MaxCreated = 3
    RingSize = 1
    BURST_SIZE = 2
    Miss = Miss
    Unresolved = Unresolved
    WORKER_BURST = 1
    Bucket <- OneEntry
    AGING_NUM_CHUNKS = 1
    FLOW_VICTIM_FILL_BATCH = 1
    AGING_BATCH_SIZE = 1
    FLOW_PRESSURE_THRESHOLD_PCT = 49
    FLOW_AGGRESSIVE_THRESHOLD_PCT = 49
    FLOW_CRITICAL_THRESHOLD_PCT = 49
    FLOW_PRESSURE_TARGET_PCT = 49
    NoCandidate = NoCandidate
INVARIANTS
    TypeOK
    ClassifiedByOwnTuple
    FlowAffinity
    ClassificationInv
SYMMETRY PairSymmetry
