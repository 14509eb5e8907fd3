----------------------------- MODULE Maintenance -----------------------------
(***************************************************************************)
(* The table maintenance of the stats thread (stats_thread in              *)
(* src/src/stats.c): each tick runs one chunk of aging and, when the table *)
(* fills up, pressure maintenance, between an RCU online and an offline.   *)
(* It deletes keys and fills the victim ring; it never writes hot or cold. *)
(***************************************************************************)
EXTENDS FlowTable

CONSTANTS
    Bucket,         \* the hash entry that holds a key (the zeroed one has one
                    \* too), in the order of rte_hash_iterate; keys that are in
                    \* the table together have entries of their own
    AGING_NUM_CHUNKS,
    AGING_BATCH_SIZE,
    FLOW_VICTIM_FILL_BATCH,
    FLOW_PRESSURE_THRESHOLD_PCT,
    FLOW_AGGRESSIVE_THRESHOLD_PCT,
    FLOW_CRITICAL_THRESHOLD_PCT,
    FLOW_PRESSURE_TARGET_PCT,
    NoCandidate     \* no pressure candidate in hand

Candidate == [key : Keys \cup {NoKey}, slot : Slots, gen : 0 .. GenMod - 1]

ASSUME MaintenanceAssumption ==
    /\ Bucket \in [Keys \cup {NoKey} -> Nat]
    /\ \A k, l \in Keys :
          Bucket[k] = Bucket[l] => k = l \/ Cardinality(Slots) <= 1
    /\ AGING_NUM_CHUNKS \in Nat \ {0}
    /\ AGING_BATCH_SIZE \in Nat \ {0}
    /\ FLOW_VICTIM_FILL_BATCH \in Nat
    /\ FLOW_PRESSURE_THRESHOLD_PCT \in Nat
    /\ FLOW_AGGRESSIVE_THRESHOLD_PCT \in Nat
    /\ FLOW_CRITICAL_THRESHOLD_PCT \in Nat
    /\ FLOW_PRESSURE_TARGET_PCT \in Nat
    /\ NoCandidate \notin Candidate

VARIABLES
    spc,            \* the stats thread's program counter
    t_now,          \* the time stamp of the aging tick or of the pressure pass
    aging_iter,     \* the two cursors of rte_hash_iterate: the entry each pass
    pressure_iter,  \* continues with, kept from one tick to the next
    scan_left,      \* what is left of the scan budget of the pass
    batch,          \* expired_keys / expired_positions; key is history: what
                    \* the key pointer named when it was collected
    min_idle,       \* min_idle_cycles of the pressure pass
    evict_budget,   \* what is left of the pressure pass's evict budget
    fill_left,      \* what is left of its candidate budget
    candidate       \* the pressure pass's struct flow_victim_candidate

cursorVars == <<aging_iter, pressure_iter>>
passVars == <<min_idle, evict_budget, fill_left>>
statsVars == <<spc, t_now, cursorVars, scan_left, batch, passVars, candidate>>

MaintenanceTypeOK ==
    /\ spc \in {"sleep", "scan", "flush", "flush_last", "delete", "delete_last",
                "sample", "pressure", "validate", "evict", "rest"}
    /\ t_now \in 0 .. MaxNow
    /\ aging_iter \in Nat /\ pressure_iter \in Nat
    /\ scan_left \in Nat
    /\ batch \in Seq([slot : Slots, key : Keys \cup {NoKey}])
    /\ min_idle \in Nat
    /\ evict_budget \in Nat
    /\ fill_left \in Nat
    /\ candidate \in Candidate \cup {NoCandidate}
    /\ spc \in {"delete", "delete_last"} => batch # <<>>
    /\ spc \in {"validate", "evict"} => candidate # NoCandidate /\ evict_budget > 0
    /\ statsOnline <=> spc # "sleep"

MaintenanceInit ==
    /\ spc = "sleep"
    /\ t_now = 0
    /\ aging_iter = 0 /\ pressure_iter = 0
    /\ scan_left = 0
    /\ batch = <<>>
    /\ min_idle = 0
    /\ evict_budget = 0
    /\ fill_left = 0
    /\ candidate = NoCandidate

sideVars == <<hotVars, cold>>

\* storage_entries: rte_hash_max_key_id + 1.
Capacity == Cardinality(Slots) + 1

\* One pass over the table takes AGING_NUM_CHUNKS ticks.
AgingScanBudget == (Capacity + AGING_NUM_CHUNKS - 1) \div AGING_NUM_CHUNKS

\* rte_hash_iterate (external): s holds the first key at or after the cursor.
Ahead(iter) == {s \in Slots : status[s] = "live" /\ Bucket[keyAt[s]] >= iter}
NextEntry(iter, s) ==
    /\ s \in Ahead(iter)
    /\ \A r \in Ahead(iter) : Bucket[keyAt[s]] <= Bucket[keyAt[r]]

-----------------------------------------------------------------------------
(* flow_table_aging_tick.                                                  *)

\* Mutant of S_Wake: the thread scans the hash while RCU takes it for offline.
S_Wake_Offline ==
    /\ spc = "sleep"
    /\ t_now' = now
    /\ scan_left' = AgingScanBudget
    /\ spc' = "scan"
    /\ UNCHANGED <<tableVars, cursorVars, batch, passVars, candidate>>

\* Mutant of S_Wake: every tick scans from the start of the table.
S_Wake_FromStart ==
    /\ spc = "sleep"
    /\ statsOnline' = TRUE
    /\ t_now' = now
    /\ scan_left' = AgingScanBudget
    /\ aging_iter' = 0
    /\ spc' = "scan"
    /\ UNCHANGED <<status, keyAt, waiting, sideVars, victims, now, countVars,
                   pressure_iter, batch, passVars, candidate>>

S_Wake ==
    /\ spc = "sleep"
    /\ statsOnline' = TRUE
    /\ t_now' = now
    /\ scan_left' = AgingScanBudget
    /\ spc' = "scan"
    /\ UNCHANGED <<status, keyAt, waiting, sideVars, victims, now, countVars,
                   cursorVars, batch, passVars, candidate>>

\* The next entry is scanned, and collected when its flow has expired; a full
\* batch is flushed at once.
S_Collect ==
    /\ spc = "scan" /\ scan_left > 0
    /\ scan_left' = scan_left - 1
    /\ \E s \in Slots :
          /\ NextEntry(aging_iter, s)
          /\ aging_iter' = Bucket[keyAt[s]] + 1
          /\ batch' = IF IdleFor(s, t_now, Timeout)
                      THEN Append(batch, [slot |-> s, key |-> keyAt[s]])
                      ELSE batch
    /\ spc' = IF Len(batch') >= AGING_BATCH_SIZE THEN "flush" ELSE "scan"
    /\ UNCHANGED <<tableVars, t_now, pressure_iter, passVars, candidate>>

\* The scan budget is used up, or -ENOENT ends the pass over the table.
S_EndScan ==
    /\ spc = "scan"
    /\ scan_left = 0 \/ Ahead(aging_iter) = {}
    /\ aging_iter' = IF scan_left = 0 THEN aging_iter ELSE 0
    /\ spc' = "flush_last"
    /\ UNCHANGED <<tableVars, t_now, pressure_iter, scan_left, batch, passVars,
                   candidate>>

\* flush_expired_batch looks at last_seen again before it deletes.
S_Recheck ==
    /\ spc \in {"flush", "flush_last"}
    /\ batch # <<>>
    /\ IF last_seen[Head(batch).slot] # 0 /\ IdleFor(Head(batch).slot, t_now, Timeout)
       THEN /\ spc' = IF spc = "flush" THEN "delete" ELSE "delete_last"
            /\ UNCHANGED batch
       ELSE /\ batch' = Tail(batch)
            /\ UNCHANGED spc
    /\ UNCHANGED <<tableVars, t_now, cursorVars, scan_left, passVars, candidate>>

\* Mutant of DeleteKey: a delete that finds no key is counted too.
DeleteKey_CountsMisses(k) ==
    LET hit == {s \in Slots : Holds(s, k)} IN
    /\ Retire(hit)
    /\ removed' = removed + Cardinality(hit)
    /\ flows_deleted' = flows_deleted + 1

\* rte_hash_del_key and the count of what it deleted.
DeleteKey(k) ==
    LET hit == {s \in Slots : Holds(s, k)} IN
    /\ Retire(hit)
    /\ removed' = removed + Cardinality(hit)
    /\ flows_deleted' = flows_deleted + Cardinality(hit)

\* The key pointer is read now: it names what the key store holds now.
S_Delete ==
    /\ spc \in {"delete", "delete_last"}
    /\ DeleteKey(keyAt[Head(batch).slot])
    /\ batch' = Tail(batch)
    /\ spc' = IF spc = "delete" THEN "flush" ELSE "flush_last"
    /\ UNCHANGED <<sideVars, victims, now, flows_created, t_now, cursorVars,
                   scan_left, passVars, candidate>>

S_EndFlush ==
    /\ spc \in {"flush", "flush_last"}
    /\ batch = <<>>
    /\ spc' = IF spc = "flush" THEN "scan" ELSE "sample"
    /\ UNCHANGED <<tableVars, t_now, cursorVars, scan_left, batch, passVars,
                   candidate>>

-----------------------------------------------------------------------------
(* flow_table_pressure_mode and flow_table_pressure_maintenance.           *)

flow_pct(value, pct) == (value * pct) \div 100

PressureMode(active) ==
    IF active >= flow_pct(Capacity, FLOW_CRITICAL_THRESHOLD_PCT) THEN "CRITICAL"
    ELSE IF active >= flow_pct(Capacity, FLOW_AGGRESSIVE_THRESHOLD_PCT) THEN "AGGRESSIVE"
    ELSE IF active >= flow_pct(Capacity, FLOW_PRESSURE_THRESHOLD_PCT) THEN "PRESSURE"
    ELSE "NORMAL"

MinIdleCycles(mode) ==
    CASE mode = "PRESSURE" -> Timeout \div 2
      [] mode = "AGGRESSIVE" -> Timeout \div 4
      [] mode = "CRITICAL" -> 0
      [] OTHER -> Timeout

EvictBudget(active) ==
    LET target == flow_pct(Capacity, FLOW_PRESSURE_TARGET_PCT) IN
    IF active <= target THEN 0 ELSE active - target

PressureScanBudget(mode) ==
    LET budget == CASE mode = "PRESSURE" -> AgingScanBudget
                    [] mode = "AGGRESSIVE" -> AgingScanBudget * 2
                    [] mode = "CRITICAL" -> AgingScanBudget * 4
                    [] OTHER -> 0
    IN IF budget > Capacity THEN Capacity ELSE budget

\* rte_hash_count, the mode it stands for, and the budgets of the pass.
S_Sample ==
    /\ spc = "sample"
    /\ LET mode == PressureMode(HashCount) IN
          IF HashCount > 0 /\ mode # "NORMAL"
          THEN /\ spc' = "pressure"
               /\ t_now' = now
               /\ scan_left' = PressureScanBudget(mode)
               /\ min_idle' = MinIdleCycles(mode)
               /\ evict_budget' = EvictBudget(HashCount)
               /\ fill_left' = FLOW_VICTIM_FILL_BATCH
          ELSE /\ spc' = "rest"
               /\ UNCHANGED <<t_now, scan_left, passVars>>
    /\ UNCHANGED <<tableVars, cursorVars, batch, candidate>>

\* candidate_collect_if_eligible on a live position of the iterator.
Eligible(s) ==
    /\ last_seen[s] # 0
    /\ min_idle > 0 => IdleFor(s, t_now, min_idle)

\* The pressure pass scans entry s.
ScanEntry(s) ==
    /\ spc = "pressure" /\ scan_left > 0
    /\ NextEntry(pressure_iter, s)
    /\ pressure_iter' = Bucket[keyAt[s]] + 1
    /\ scan_left' = scan_left - 1

\* An eligible entry is evicted as long as the evict budget lasts ...
S_Candidate ==
    /\ evict_budget > 0
    /\ \E s \in Slots :
          /\ ScanEntry(s) /\ Eligible(s)
          /\ candidate' = [key |-> keyAt[s], slot |-> s, gen |-> flow_gen[s]]
    /\ spc' = "validate"
    /\ UNCHANGED <<tableVars, t_now, aging_iter, batch, passVars>>

\* ... then it goes to the victim ring, if the ring and the candidate budget
\* have room.
Stashable == evict_budget = 0 /\ fill_left > 0 /\ Len(victims) < VictimCap

S_Stash ==
    /\ Stashable
    /\ \E s \in Slots :
          /\ ScanEntry(s) /\ Eligible(s)
          /\ victims' = Append(victims, [slot |-> s, gen |-> flow_gen[s]])
    /\ fill_left' = fill_left - 1
    /\ UNCHANGED <<hashVars, sideVars, now, countVars, spc, t_now, aging_iter,
                   batch, min_idle, evict_budget, candidate>>

S_Skip ==
    /\ \E s \in Slots :
          /\ ScanEntry(s)
          /\ Eligible(s) => evict_budget = 0 /\ ~Stashable
    /\ UNCHANGED <<tableVars, spc, t_now, aging_iter, batch, passVars, candidate>>

\* candidate_delete_if_valid, up to the delete.
S_Validate ==
    /\ spc = "validate"
    /\ IF /\ Holds(candidate.slot, candidate.key)
          /\ flow_gen[candidate.slot] = candidate.gen
          /\ Eligible(candidate.slot)
       THEN spc' = "evict" /\ UNCHANGED candidate
       ELSE spc' = "pressure" /\ candidate' = NoCandidate
    /\ UNCHANGED <<tableVars, t_now, cursorVars, scan_left, batch, passVars>>

S_Evict ==
    /\ spc = "evict"
    /\ DeleteKey(candidate.key)
    /\ evict_budget' = IF Present(candidate.key) THEN evict_budget - 1
                                                 ELSE evict_budget
    /\ candidate' = NoCandidate
    /\ spc' = "pressure"
    /\ UNCHANGED <<sideVars, victims, now, flows_created, t_now, cursorVars,
                   scan_left, batch, min_idle, fill_left>>

S_EndPressure ==
    /\ spc = "pressure"
    /\ scan_left = 0 \/ Ahead(pressure_iter) = {}
    /\ pressure_iter' = IF scan_left = 0 THEN pressure_iter ELSE 0
    /\ spc' = "rest"
    /\ UNCHANGED <<tableVars, t_now, aging_iter, scan_left, batch, passVars,
                   candidate>>

-----------------------------------------------------------------------------

\* The quiescent report and the reclaim that end the tick, then offline.
S_Rest ==
    /\ spc = "rest"
    /\ QuiescentAndReclaim("stats")
    /\ statsOnline' = FALSE
    /\ spc' = "sleep"
    /\ t_now' = 0
    /\ scan_left' = 0
    /\ min_idle' = 0
    /\ evict_budget' = 0
    /\ fill_left' = 0
    /\ UNCHANGED <<keyAt, sideVars, victims, now, countVars, cursorVars, batch,
                   candidate>>
=============================================================================
