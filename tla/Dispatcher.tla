------------------------------ MODULE Dispatcher ------------------------------
(***************************************************************************)
(* The dispatcher thread (src/src/dispatcher.c) with the part of           *)
(* flow_table.c it runs: receive a burst, look all its keys up, resolve    *)
(* each packet to a position and a generation (creating flows and evicting *)
(* others when the table is full), hand the packets to the worker rings.   *)
(* It is the only thread that adds keys and writes hot[] and cold[].       *)
(***************************************************************************)
EXTENDS FlowTable, PacketRings

CONSTANTS
    BURST_SIZE,
    Miss,           \* a negative position: the key is not in the hash
    Unresolved      \* no packet of this key was resolved in the burst yet

ASSUME DispatcherAssumption ==
    /\ BURST_SIZE \in Nat \ {0}
    /\ Miss \notin Slots
    /\ Unresolved \notin Stamps(Slots, 0 .. GenMod - 1, Workers)

VARIABLES
    dpc,            \* the dispatcher's program counter
    burst,          \* keys received and not looked up yet
    todo,           \* looked-up packets not resolved yet: keys[] and positions[]
    resolved,       \* resolved_positions/generations/workers[], by key
    worker_buffers, \* [Workers -> Seq(Packet)]
    dtsc,           \* current_tsc of this burst, 0 outside one
    pslot,          \* flow_idx of the flow being published, Miss otherwise
    unwritten,      \* words of cold[pslot] still to be written
    replaced        \* history: a flow was evicted since the bulk lookup

dispatcherVars == <<dpc, burst, todo, resolved, worker_buffers, dtsc, pslot,
                    unwritten, replaced>>

Stamp == Stamps(Slots, 0 .. GenMod - 1, Workers)
Packet == Packets(Keys, Slots, 0 .. GenMod - 1, Workers)

\* Between rte_hash_add_key and the store of last_seen that publishes the slot.
Publishing == dpc \in {"generation", "cold", "last_seen"}

DispatcherTypeOK ==
    /\ dpc \in {"poll", "lookup", "resolve", "generation", "cold", "last_seen",
                "evict", "reclaim", "retry"}
    /\ burst \in Seq(Keys)
    /\ todo \in Seq([key : Keys, pos : Slots \cup {Miss}])
    /\ resolved \in [Keys -> Stamp \cup {Unresolved}]
    /\ worker_buffers \in [Workers -> Seq(Packet)]
    /\ dtsc \in 0 .. MaxNow
    /\ pslot \in Slots \cup {Miss}
    /\ Publishing => pslot \in Slots
    /\ unwritten \in SUBSET Words
    /\ replaced \in BOOLEAN
    /\ dpc = "poll" => todo = <<>>
    /\ dpc = "lookup" => burst # <<>>
    /\ dpc \notin {"poll", "lookup", "resolve"} => todo # <<>>

DispatcherInit ==
    /\ dpc = "poll"
    /\ burst = <<>>
    /\ todo = <<>>
    /\ resolved = [k \in Keys |-> Unresolved]
    /\ worker_buffers = [w \in Workers |-> <<>>]
    /\ dtsc = 0
    /\ pslot = Miss
    /\ unwritten = {}
    /\ replaced = FALSE

-----------------------------------------------------------------------------

\* Mutant of D_Poll: an empty poll reports no quiescent state.
D_Poll_Silent ==
    /\ dpc = "poll"
    /\ UNCHANGED <<tableVars, dispatcherVars, worker_rings>>

\* nb_rx = 0, or no packet of the burst parsed: only the quiescent report.
D_Poll ==
    /\ dpc = "poll"
    /\ Quiescent("dispatcher")
    /\ UNCHANGED <<status, keyAt, statsOnline, hotVars, cold, victims, now,
                   countVars, dispatcherVars, worker_rings>>

\* A burst with n packets that parse.  MaxCreated bounds what it may create.
D_Rx ==
    /\ dpc = "poll"
    /\ \E n \in 1 .. BURST_SIZE :
          /\ flows_created + n <= MaxCreated
          /\ burst' \in [1 .. n -> Keys]
    /\ dtsc' = now
    /\ replaced' = FALSE
    /\ dpc' = "lookup"
    /\ UNCHANGED <<tableVars, todo, resolved, worker_buffers, pslot, unwritten,
                   worker_rings>>

\* rte_hash_lookup_bulk, one key at a time: the stats thread deletes meanwhile.
D_Lookup ==
    /\ dpc = "lookup"
    /\ \E p \in Slots \cup {Miss} :
          /\ IF p = Miss THEN ~Present(Head(burst)) ELSE Holds(p, Head(burst))
          /\ todo' = Append(todo, [key |-> Head(burst), pos |-> p])
    /\ burst' = Tail(burst)
    /\ dpc' = IF burst' = <<>> THEN "resolve" ELSE "lookup"
    /\ UNCHANGED <<tableVars, resolved, worker_buffers, dtsc, pslot, unwritten,
                   replaced, worker_rings>>

-----------------------------------------------------------------------------
(* Resolving the packet at the head of todo.                               *)

\* stamp_mbuf_flow, the resolved_* arrays and the worker's buffer.
Steer(k, st) ==
    /\ resolved' = [resolved EXCEPT ![k] = st]
    /\ worker_buffers' = [worker_buffers EXCEPT
                            ![st.worker] = Append(@, [key |-> k, stamp |-> st])]
    /\ todo' = Tail(todo)
    /\ dpc' = "resolve"

DropPacket ==
    /\ todo' = Tail(todo)
    /\ dpc' = "resolve"
    /\ UNCHANGED <<resolved, worker_buffers>>

\* A key already resolved in this burst reuses that stamp.
D_Duplicate ==
    /\ dpc = "resolve" /\ todo # <<>>
    /\ LET k == Head(todo).key IN
          /\ resolved[k] # Unresolved
          /\ last_seen' = [last_seen EXCEPT ![resolved[k].slot] = dtsc]
          /\ Steer(k, resolved[k])
    /\ UNCHANGED <<hashVars, flow_gen, worker_id, pubs, cold, victims, now,
                   countVars, burst, dtsc, pslot, unwritten, replaced,
                   worker_rings>>

\* A hit of the bulk lookup: positions[i] is used without looking again.
D_Hit ==
    /\ dpc = "resolve" /\ todo # <<>>
    /\ LET k == Head(todo).key
           s == Head(todo).pos
       IN /\ resolved[k] = Unresolved
          /\ s # Miss
          /\ last_seen' = [last_seen EXCEPT ![s] = dtsc]
          /\ Steer(k, [slot |-> s, gen |-> flow_gen[s], worker |-> worker_id[s],
                       pub |-> pubs[s], dirty |-> replaced])
    /\ UNCHANGED <<hashVars, flow_gen, worker_id, pubs, cold, victims, now,
                   countVars, burst, dtsc, pslot, unwritten, replaced,
                   worker_rings>>

\* Mutant of Missed: the packets of the burst are not searched for the key.
Missed_NoDuplicateCheck ==
    /\ dpc = "resolve" /\ todo # <<>>
    /\ Head(todo).pos = Miss

Missed ==
    /\ dpc = "resolve" /\ todo # <<>>
    /\ resolved[Head(todo).key] = Unresolved
    /\ Head(todo).pos = Miss

\* rte_hash_add_key gives the new key a position; publication is still to come.
AddHead ==
    /\ \E s \in Slots : AddKey(Head(todo).key, s) /\ pslot' = s
    /\ dpc' = "generation"
    /\ UNCHANGED <<hotVars, cold, victims, now, countVars, burst, todo, resolved,
                   worker_buffers, dtsc, unwritten, replaced, worker_rings>>

D_Add == Missed /\ AddHead

\* No position left: hash_add_failures, then replacement.
D_AddFails ==
    /\ Missed
    /\ Available = {}
    /\ dpc' = "evict"
    /\ UNCHANGED <<tableVars, burst, todo, resolved, worker_buffers, dtsc, pslot,
                   unwritten, replaced, worker_rings>>

-----------------------------------------------------------------------------
(* publish_new_flow, in the order of its stores.                           *)

D_NextGeneration ==
    /\ dpc = "generation"
    /\ flow_gen' = [flow_gen EXCEPT ![pslot] = GenerationNext(@)]
    /\ pubs' = [pubs EXCEPT ![pslot] = @ + 1]
    /\ unwritten' = Words
    /\ dpc' = "cold"
    /\ UNCHANGED <<hashVars, worker_id, last_seen, cold, victims, now, countVars,
                   burst, todo, resolved, worker_buffers, dtsc, pslot, replaced,
                   worker_rings>>

\* flow_cold_from_key clears the struct and then writes its fields; a reader may
\* see a word still old, zero or new, the words in any order.
D_ClearCold ==
    /\ dpc = "cold"
    /\ \E x \in unwritten :
          /\ cold[pslot][x] # NoKey
          /\ cold' = [cold EXCEPT ![pslot][x] = NoKey]
    /\ UNCHANGED <<hashVars, hotVars, victims, now, countVars, dispatcherVars,
                   worker_rings>>

D_WriteCold ==
    /\ dpc = "cold"
    /\ \E x \in unwritten :
          /\ cold' = [cold EXCEPT ![pslot][x] = Head(todo).key]
          /\ unwritten' = unwritten \ {x}
    /\ dpc' = IF unwritten' = {} THEN "last_seen" ELSE "cold"
    /\ UNCHANGED <<hashVars, hotVars, victims, now, countVars, burst, todo,
                   resolved, worker_buffers, dtsc, pslot, replaced, worker_rings>>

\* Mutant of D_Publish: the position keeps the worker of its previous flow.
D_Publish_OldWorker ==
    /\ dpc = "last_seen"
    /\ LET k == Head(todo).key IN
          /\ last_seen' = [last_seen EXCEPT ![pslot] = dtsc]
          /\ flows_created' = flows_created + 1
          /\ Steer(k, [slot |-> pslot, gen |-> flow_gen[pslot],
                       worker |-> HashWorker[k], pub |-> pubs[pslot],
                       dirty |-> FALSE])
    /\ pslot' = Miss
    /\ UNCHANGED <<hashVars, flow_gen, worker_id, pubs, cold, victims, now,
                   flows_deleted, removed, burst, dtsc, unwritten, replaced,
                   worker_rings>>

\* worker_id is private to this thread: one step with the store of last_seen.
D_Publish ==
    /\ dpc = "last_seen"
    /\ LET k == Head(todo).key IN
          /\ worker_id' = [worker_id EXCEPT ![pslot] = HashWorker[k]]
          /\ last_seen' = [last_seen EXCEPT ![pslot] = dtsc]
          /\ flows_created' = flows_created + 1
          /\ Steer(k, [slot |-> pslot, gen |-> flow_gen[pslot],
                       worker |-> HashWorker[k], pub |-> pubs[pslot],
                       dirty |-> FALSE])
    /\ pslot' = Miss
    /\ UNCHANGED <<hashVars, flow_gen, pubs, cold, victims, now, flows_deleted,
                   removed, burst, dtsc, unwritten, replaced, worker_rings>>

-----------------------------------------------------------------------------
(* dispatcher_evict_for_replacement.                                       *)

\* victim_cache_pop_burst takes up to FLOW_REPLACEMENT_RETRIES candidates.
Popped == Dequeued(victims, FLOW_REPLACEMENT_RETRIES)
CachedVictims ==
    {s \in Slots : \E j \in DOMAIN Popped :
                      Popped[j].slot = s /\ VictimValid(s, Popped[j].gen)}

\* The emergency scan samples positions at random, 16 rounds of 4, and deletes
\* the oldest published one of each round: any set of at most 16 valid ones.
EmergencyVictims ==
    {E \in SUBSET {s \in Slots : VictimValid(s, flow_gen[s])} :
        Cardinality(E) <= 16}

\* Every valid victim is deleted, one deletion is counted.
EvictAll(E) ==
    /\ Retire(E)
    /\ removed' = removed + Cardinality(E)
    /\ flows_deleted' = flows_deleted + 1
    /\ dpc' = "reclaim"
    /\ UNCHANGED <<todo, resolved, worker_buffers>>

\* Mutant of D_Evict: a scan that finds no victim is repeated until it does.
D_Evict_Insists ==
    /\ dpc = "evict"
    /\ victims' = Remaining(victims, FLOW_REPLACEMENT_RETRIES)
    /\ IF CachedVictims # {}
       THEN EvictAll(CachedVictims)
       ELSE \E E \in EmergencyVictims :
               IF E # {}
               THEN EvictAll(E)
               ELSE UNCHANGED <<todo, dpc, resolved, worker_buffers, hashVars,
                                removed, flows_deleted>>
    /\ UNCHANGED <<hotVars, cold, now, flows_created, burst, dtsc, pslot,
                   unwritten, replaced, worker_rings>>

D_Evict ==
    /\ dpc = "evict"
    /\ victims' = Remaining(victims, FLOW_REPLACEMENT_RETRIES)
    /\ IF CachedVictims # {}
       THEN EvictAll(CachedVictims)
       ELSE \E E \in EmergencyVictims :
               IF E # {}
               THEN EvictAll(E)
               ELSE DropPacket /\ UNCHANGED <<hashVars, removed, flows_deleted>>
    /\ UNCHANGED <<hotVars, cold, now, flows_created, burst, dtsc, pslot,
                   unwritten, replaced, worker_rings>>

\* The quiescent report and the reclaim in the middle of the burst.
D_Reclaim ==
    /\ dpc = "reclaim"
    /\ QuiescentAndReclaim("dispatcher")
    /\ replaced' = TRUE
    /\ dpc' = "retry"
    /\ UNCHANGED <<keyAt, statsOnline, hotVars, cold, victims, now, countVars,
                   burst, todo, resolved, worker_buffers, dtsc, pslot, unwritten,
                   worker_rings>>

D_Retry == dpc = "retry" /\ AddHead

\* The evicted positions still wait for the stats thread: the packet is dropped.
D_RetryFails ==
    /\ dpc = "retry"
    /\ Available = {}
    /\ DropPacket
    /\ UNCHANGED <<tableVars, burst, dtsc, pslot, unwritten, replaced,
                   worker_rings>>

-----------------------------------------------------------------------------

\* Hand over the buffers, drop what does not fit, report a quiescent state.
D_Enqueue ==
    /\ dpc = "resolve" /\ todo = <<>>
    /\ worker_rings' = [w \in Workers |->
                          EnqueueBurst(worker_rings[w], worker_buffers[w])]
    /\ Quiescent("dispatcher")
    /\ worker_buffers' = [w \in Workers |-> <<>>]
    /\ resolved' = [k \in Keys |-> Unresolved]
    /\ dtsc' = 0
    /\ replaced' = FALSE
    /\ dpc' = "poll"
    /\ UNCHANGED <<status, keyAt, statsOnline, hotVars, cold, victims, now,
                   countVars, burst, todo, pslot, unwritten>>
=============================================================================
