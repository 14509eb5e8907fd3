\* One replacement evicts two cached victims.
SPECIFICATION Spec
CONSTANTS
    k1 = k1
    k2 = k2
    w1 = w1
    w2 = w2
    Slots = {s1, s2}
    Keys = {k1, k2, k3}
    NoKey = NoKey
    Words = {cold}
    Workers = {w1}
    HashWorker <- OneWorker
    GenMod = 100
    VictimCap = 2
    FLOW_REPLACEMENT_RETRIES = 8
    Timeout = 2
    MaxNow = 1
    MaxCreated = 3
    RingSize = 0
    BURST_SIZE = 2
    Miss = Miss
    Unresolved = Unresolved
    WORKER_BURST = 1
    Bucket <- OneEntryEach
    AGING_NUM_CHUNKS = 1
    FLOW_VICTIM_FILL_BATCH = 1
    AGING_BATCH_SIZE = 1
    FLOW_PRESSURE_THRESHOLD_PCT = 34
    FLOW_AGGRESSIVE_THRESHOLD_PCT = 67
    FLOW_CRITICAL_THRESHOLD_PCT = 67
    FLOW_PRESSURE_TARGET_PCT = 34
    NoCandidate = NoCandidate
INVARIANTS
    DeletesExact
SYMMETRY SlotSymmetry
