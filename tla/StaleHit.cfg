\* A burst that replaces a flow it has already looked up.
SPECIFICATION Spec
CONSTANTS
    k1 = k1
    k2 = k2
    w1 = w1
    w2 = w2
    Slots = {s1}
    Keys = {k1, k2}
    NoKey = NoKey
    Words = {addr, port}
    Workers = {w1}
    HashWorker <- OneWorker
    GenMod = 100
    VictimCap = 1
    FLOW_REPLACEMENT_RETRIES = 8
    Timeout = 1
    MaxNow = 1
    MaxCreated = 3
    RingSize = 2
    BURST_SIZE = 2
    Miss = Miss
    Unresolved = Unresolved
    WORKER_BURST = 2
    Bucket <- OneEntry
    AGING_NUM_CHUNKS = 1
    FLOW_VICTIM_FILL_BATCH = 1
    AGING_BATCH_SIZE = 1
    FLOW_PRESSURE_THRESHOLD_PCT = 49
    FLOW_AGGRESSIVE_THRESHOLD_PCT = 49
    FLOW_CRITICAL_THRESHOLD_PCT = 49
    FLOW_PRESSURE_TARGET_PCT = 49
    NoCandidate = NoCandidate
INVARIANTS
    StrictClassification
SYMMETRY KeySymmetry
