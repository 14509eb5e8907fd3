------------------------------ MODULE FlowTable ------------------------------
(***************************************************************************)
(* The shared flow table (src/src/flow_table.c, src/include/flow_table.h): *)
(* the lock-free rte_hash with its RCU defer queue, the side arrays hot[]  *)
(* and cold[] indexed by hash position, and the victim ring.  This module  *)
(* holds the shared state and the operations on it; the threads that call  *)
(* them are in the modules Dispatcher, Worker and Maintenance.             *)
(*                                                                         *)
(* rte_hash and the RCU library are not part of the repository: their      *)
(* operations (AddKey, Retire, Quiescent, Reclaim) are atomic here.  A     *)
(* position is "free" (in the hash's free list), "live" (holds a key) or   *)
(* "retired" (deleted, waiting on the defer queue).                        *)
(***************************************************************************)
EXTENDS Integers, Sequences, FiniteSets

CONSTANTS
    Slots,          \* positions rte_hash can return
    Keys,           \* 5-tuples
    NoKey,          \* the zeroed cold entry of a position never published
    Words,          \* the words in which a struct flow_cold_data is copied
    Workers,        \* worker lcores
    HashWorker,     \* [Keys -> Workers]: rte_hash_hash(key) % NUM_WORKERS
    GenMod,         \* 2^32: flow_gen is a uint32_t
    VictimCap,      \* usable entries of the victim ring
    FLOW_REPLACEMENT_RETRIES,
    Timeout,        \* FLOW_TIMEOUT_SEC in cycles
    MaxNow,         \* bound: the last time stamp the clock reaches
    MaxCreated      \* bound: flows created in a behaviour

ASSUME FlowTableAssumption ==
    /\ IsFiniteSet(Slots)
    /\ NoKey \notin Keys
    /\ Words # {}
    /\ Workers # {}
    /\ HashWorker \in [Keys -> Workers]
    /\ GenMod \in Nat /\ GenMod > 2
    /\ VictimCap \in Nat
    /\ FLOW_REPLACEMENT_RETRIES \in Nat
    /\ Timeout \in Nat
    /\ MaxNow \in Nat /\ MaxNow > 0
    /\ MaxCreated \in Nat

VARIABLES
    status,         \* the hash: [Slots -> {"free", "live", "retired"}]
    keyAt,          \* the hash's key store, not cleared by a delete
    waiting,        \* RCU: online threads a retired position still waits for
    statsOnline,    \* RCU: is the stats thread online (the dispatcher always is)
    flow_gen,       \* hot[].flow_gen
    worker_id,      \* hot[].worker_id
    last_seen,      \* hot[].last_seen
    cold,           \* cold[], one entry per word; word x of key k reads as k
    victims,        \* g_victim_ring: <<position, generation>> pairs
    now,            \* the TSC
    flows_created, flows_deleted,   \* the two lcore_stats counters, summed
    pubs,           \* history: how often each position was published
    removed         \* history: how many keys were really deleted

hashVars == <<status, keyAt, waiting, statsOnline>>
hotVars == <<flow_gen, worker_id, last_seen, pubs>>
countVars == <<flows_created, flows_deleted, removed>>
tableVars == <<hashVars, hotVars, cold, victims, now, countVars>>

\* Mutant of OnlineThreads: the dispatcher's lookups hold nothing back.
OnlineThreads_StatsOnly == IF statsOnline THEN {"stats"} ELSE {}

Threads == {"dispatcher", "stats"}
OnlineThreads == {"dispatcher"} \cup (IF statsOnline THEN {"stats"} ELSE {})

Whole(k) == [x \in Words |-> k]

FlowTableTypeOK ==
    /\ status \in [Slots -> {"free", "live", "retired"}]
    /\ keyAt \in [Slots -> Keys \cup {NoKey}]
    /\ waiting \in [Slots -> SUBSET Threads]
    /\ statsOnline \in BOOLEAN
    /\ flow_gen \in [Slots -> 0 .. GenMod - 1]
    /\ worker_id \in [Slots -> Workers]
    /\ last_seen \in [Slots -> 0 .. MaxNow]
    /\ cold \in [Slots -> [Words -> Keys \cup {NoKey}]]
    /\ victims \in Seq([slot : Slots, gen : 0 .. GenMod - 1])
    /\ Len(victims) <= VictimCap
    /\ now \in 1 .. MaxNow
    /\ flows_created \in Nat
    /\ flows_deleted \in Nat
    /\ pubs \in [Slots -> Nat]
    /\ removed \in Nat

\* flow_table_init: an empty hash and zeroed side arrays; some worker stands for
\* worker 0, nobody reads the worker_id of a position never published.
FlowTableInit ==
    /\ status = [s \in Slots |-> "free"]
    /\ keyAt = [s \in Slots |-> NoKey]
    /\ waiting = [s \in Slots |-> {}]
    /\ statsOnline = FALSE
    /\ flow_gen = [s \in Slots |-> 0]
    /\ worker_id = [s \in Slots |-> CHOOSE w \in Workers : TRUE]
    /\ last_seen = [s \in Slots |-> 0]
    /\ cold = [s \in Slots |-> Whole(NoKey)]
    /\ victims = <<>>
    /\ now = 1
    /\ flows_created = 0
    /\ flows_deleted = 0
    /\ pubs = [s \in Slots |-> 0]
    /\ removed = 0

-----------------------------------------------------------------------------
(* The hash (external): lookup, add and delete.                            *)

Holds(s, k) == status[s] = "live" /\ keyAt[s] = k
Present(k) == \E s \in Slots : Holds(s, k)

Free == {s \in Slots : status[s] = "free"}
Ready == {s \in Slots : status[s] = "retired" /\ waiting[s] = {}}

\* An add that finds the free list empty reclaims the defer queue first.
Available == IF Free # {} THEN Free ELSE Ready

AddKey(k, s) ==
    /\ s \in Available
    /\ status' = [r \in Slots |->
                    IF r = s THEN "live"
                    ELSE IF Free = {} /\ r \in Ready THEN "free"
                    ELSE status[r]]
    /\ keyAt' = [keyAt EXCEPT ![s] = k]
    /\ UNCHANGED <<waiting, statsOnline>>

\* rte_hash_del_key on the keys at the live positions of S: the key is gone at
\* once, its position waits for every thread that is online now.
Retire(S) ==
    /\ status' = [s \in Slots |-> IF s \in S THEN "retired" ELSE status[s]]
    /\ waiting' = [s \in Slots |-> IF s \in S THEN OnlineThreads ELSE waiting[s]]
    /\ UNCHANGED <<keyAt, statsOnline>>

\* rte_hash_count: a retired position is still counted.
HashCount == Cardinality({s \in Slots : status[s] # "free"})

-----------------------------------------------------------------------------
(* RCU (external): quiescent state report and reclaim.                     *)

Quiescent(t) == waiting' = [s \in Slots |-> waiting[s] \ {t}]

\* A quiescent report of t, then flow_table_reclaim until nothing is freed.
QuiescentAndReclaim(t) ==
    /\ Quiescent(t)
    /\ status' = [s \in Slots |->
                    IF status[s] = "retired" /\ waiting[s] \subseteq {t}
                    THEN "free" ELSE status[s]]

-----------------------------------------------------------------------------
(* The side arrays.                                                        *)

\* Mutant of GenerationNext: the wrap does not skip 0.
GenerationNext_ThroughZero(g) == (g + 1) % GenMod

\* flow_hot_generation_next: increment modulo 2^32, skipping 0.
GenerationNext(g) == IF g + 1 = GenMod THEN 1 ELSE g + 1

\* The generation after n publications of a position (it starts at 0).
Period == GenMod - 1
GenOf(n) == IF n = 0 THEN 0 ELSE 1 + ((n - 1) % Period)

\* candidate_delete_if_valid's test of a candidate <<s, g>> whose key was
\* rebuilt from cold[s]: the key is found at s, in generation g, published.
VictimValid(s, g) ==
    /\ status[s] = "live"
    /\ cold[s] = Whole(keyAt[s])
    /\ flow_gen[s] = g
    /\ last_seen[s] # 0

\* The idle test of aging and pressure, with unsigned arithmetic guarded by >.
IdleFor(s, t, cycles) == t > last_seen[s] /\ t - last_seen[s] > cycles
=============================================================================
