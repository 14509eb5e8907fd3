------------------------------- MODULE Flowcore -------------------------------
(***************************************************************************)
(* The dispatcher, the workers and the stats thread over one flow table.   *)
(* They share the hash, hot[], cold[], the victim ring and the worker      *)
(* rings without a lock; every step of a thread below may fall between two *)
(* steps of another.  x86 store order (TSO) is assumed of the shared       *)
(* loads and stores, as the code's plain copy of cold[] assumes it.        *)
(***************************************************************************)
EXTENDS Dispatcher, Worker, Maintenance

vars == <<tableVars, worker_rings, dispatcherVars, workerVars, statsVars>>

Init ==
    /\ FlowTableInit
    /\ worker_rings = [w \in Workers |-> <<>>]
    /\ DispatcherInit
    /\ WorkerInit
    /\ MaintenanceInit

Tick ==
    /\ now < MaxNow
    /\ now' = now + 1
    /\ UNCHANGED <<hashVars, hotVars, cold, victims, countVars, worker_rings,
                   dispatcherVars, workerVars, statsVars>>

\* What the steps of each thread leave alone.
DispatcherFrame == UNCHANGED <<workerVars, statsVars>>
WorkerFrame == UNCHANGED <<tableVars, dispatcherVars, statsVars>>
StatsFrame == UNCHANGED <<worker_rings, dispatcherVars, workerVars>>

Next ==
    \/ D_Poll /\ DispatcherFrame
    \/ D_Rx /\ DispatcherFrame
    \/ D_Lookup /\ DispatcherFrame
    \/ D_Duplicate /\ DispatcherFrame
    \/ D_Hit /\ DispatcherFrame
    \/ D_Add /\ DispatcherFrame
    \/ D_AddFails /\ DispatcherFrame
    \/ D_NextGeneration /\ DispatcherFrame
    \/ D_ClearCold /\ DispatcherFrame
    \/ D_WriteCold /\ DispatcherFrame
    \/ D_Publish /\ DispatcherFrame
    \/ D_Evict /\ DispatcherFrame
    \/ D_Reclaim /\ DispatcherFrame
    \/ D_Retry /\ DispatcherFrame
    \/ D_RetryFails /\ DispatcherFrame
    \/ D_Enqueue /\ DispatcherFrame
    \/ \E w \in Workers : W_Dequeue(w) /\ WorkerFrame
    \/ \E w \in Workers : W_Fresh(w) /\ WorkerFrame
    \/ \E w \in Workers : W_Stale(w) /\ WorkerFrame
    \/ \E w \in Workers : W_Copy(w) /\ WorkerFrame
    \/ \E w \in Workers : W_Recheck(w) /\ WorkerFrame
    \/ \E w \in Workers : W_Match(w) /\ WorkerFrame
    \/ S_Wake /\ StatsFrame
    \/ S_Collect /\ StatsFrame
    \/ S_EndScan /\ StatsFrame
    \/ S_Recheck /\ StatsFrame
    \/ S_Delete /\ StatsFrame
    \/ S_EndFlush /\ StatsFrame
    \/ S_Sample /\ StatsFrame
    \/ S_Candidate /\ StatsFrame
    \/ S_Validate /\ StatsFrame
    \/ S_Evict /\ StatsFrame
    \/ S_Stash /\ StatsFrame
    \/ S_Skip /\ StatsFrame
    \/ S_EndPressure /\ StatsFrame
    \/ S_Rest /\ StatsFrame
    \/ Tick

Spec == Init /\ [][Next]_vars

RingsTypeOK ==
    /\ worker_rings \in [Workers -> Seq(Packet)]
    /\ \A w \in Workers : Len(worker_rings[w]) <= RingSize

TypeOK ==
    /\ FlowTableTypeOK
    /\ RingsTypeOK
    /\ DispatcherTypeOK
    /\ WorkerTypeOK
    /\ MaintenanceTypeOK

-----------------------------------------------------------------------------
(* Safety.                                                                 *)

\* A packet's rules are matched against its own 5-tuple: what a worker takes
\* from cold[] after the second generation check (worker.c:158-174) is the tuple
\* of the packet, whatever was published at that position meanwhile.  Excepted
\* are a position that went through all 2^32 - 1 generations during the packet's
\* stay, and the stamps of StrictClassification.
ClassifiedByOwnTuple ==
    \A w \in Workers :
        wpc[w] = "match" /\ ~lapped[w] /\ ~Pkt(w).stamp.dirty
            => tuple[w] = Whole(Pkt(w).key)

\* The same without the exception for dirty stamps: README.md:33 and the comment
\* at dispatcher.c:43-47 say that a packet whose slot was reused is not
\* classified by the new owner's metadata.
StrictClassification ==
    \A w \in Workers :
        wpc[w] = "match" /\ ~lapped[w] => tuple[w] = Whole(Pkt(w).key)

\* Flow affinity: every packet of a flow goes to the one worker its hash names
\* (dispatcher.c:51, 208), without which a flow's packets could overtake each
\* other; a position found by the bulk lookup keeps its flow's worker_id until
\* the packet is stamped.
FlowAffinity ==
    \A w \in Workers :
        /\ \A j \in DOMAIN worker_rings[w] :
              ~worker_rings[w][j].stamp.dirty => HashWorker[worker_rings[w][j].key] = w
        /\ \A j \in DOMAIN hand[w] :
              ~hand[w][j].stamp.dirty => HashWorker[hand[w][j].key] = w

\* RCU protects the positions of the bulk lookup (dispatcher.c:149, used at
\* 202-211): until the burst's quiescent report, or the one in the middle of a
\* replacement, a position found for a key is not given to another key.
LookupPinned ==
    ~replaced =>
        \A j \in DOMAIN todo :
            todo[j].pos # Miss =>
                /\ status[todo[j].pos] # "free"
                /\ keyAt[todo[j].pos] = todo[j].key

\* RCU protects the key pointers that aging keeps between its scan and its flush
\* (flow_table.c:404, 207): each still names the key that was found expired.
ScannedKeyPinned ==
    \A j \in DOMAIN batch : keyAt[batch[j].slot] = batch[j].key

\* The in-burst duplicate check (dispatcher.c:156-168) and the single adding
\* thread keep the dispatcher from adding a key that the table holds: a position
\* is published at most once per residence of its key.
AddsOnlyAbsentKeys ==
    (Missed \/ dpc \in {"evict", "reclaim", "retry"}) => ~Present(Head(todo).key)

\* The reported deletions (flows_deleted, summed over the lcores) never exceed
\* the keys that were really deleted: a failed or stale delete is not counted.
DeletesNotOverReported == flows_deleted <= removed

\* README.md:53: flows_deleted is the total number of flows deleted.
DeletesExact == flows_deleted = removed

\* The comment at dispatcher.c:54: last_seen publishes the slot to aging and
\* replacement, so neither deletes a flow between its add and that store.
UnpublishedNotDeleted == Publishing => status[pslot] = "live"

-----------------------------------------------------------------------------
(* The inductive invariant behind ClassifiedByOwnTuple, LookupPinned and   *)
(* FlowAffinity; the proofs are in Flowcore_proofs.                        *)

\* The dispatcher has not reported a quiescent state since s was last live.
Pinned(s) ==
    \/ status[s] = "live"
    \/ status[s] = "retired" /\ "dispatcher" \in waiting[s]

Describes(s, k) == cold[s] = Whole(k) /\ worker_id[s] = HashWorker[k]

Rewriting(s) == dpc \in {"cold", "last_seen"} /\ pslot = s

\* A stamp names a publication that happened, by its generation; while it is
\* still the last one of its position, cold holds the tuple of the packet's key.
StampOK(k, st) ==
    /\ st.pub <= pubs[st.slot]
    /\ st.gen = GenOf(st.pub)
    /\ ~st.dirty /\ st.pub = pubs[st.slot]
          => cold[st.slot] = Whole(k) /\ ~Rewriting(st.slot)
    /\ ~st.dirty => st.worker = HashWorker[k]

QueueOK(w, q) ==
    \A j \in DOMAIN q :
        /\ StampOK(q[j].key, q[j].stamp)
        /\ q[j].stamp.worker = w

GenerationInv == \A s \in Slots : flow_gen[s] = GenOf(pubs[s])

PacketInv ==
    /\ \A k \in Keys : resolved[k] # Unresolved => StampOK(k, resolved[k])
    /\ \A w \in Workers :
          /\ QueueOK(w, worker_buffers[w])
          /\ QueueOK(w, worker_rings[w])
          /\ QueueOK(w, hand[w])

\* A live position that is not being published describes its key.
LiveInv ==
    \A s \in Slots :
        status[s] = "live" /\ ~(Publishing /\ pslot = s) => Describes(s, keyAt[s])

PublishInv ==
    Publishing =>
        /\ Pinned(pslot)
        /\ keyAt[pslot] = Head(todo).key
        /\ dpc = "cold" =>
              \A x \in Words \ unwritten : cold[pslot][x] = Head(todo).key
        /\ dpc = "last_seen" => cold[pslot] = Whole(Head(todo).key)

LookupInv ==
    ~replaced =>
        \A j \in DOMAIN todo :
            todo[j].pos # Miss =>
                /\ Pinned(todo[j].pos)
                /\ keyAt[todo[j].pos] = todo[j].key
                /\ Describes(todo[j].pos, todo[j].key)
                /\ ~(Publishing /\ pslot = todo[j].pos)

\* While its slot has not been published again, what a worker copied so far is
\* the tuple of the packet in its hand.
CopyInv ==
    \A w \in Workers :
        /\ wpc[w] = "recheck" => uncopied[w] = {}
        /\ /\ wpc[w] \in {"copy", "recheck"}
           /\ ~Pkt(w).stamp.dirty
           /\ Pkt(w).stamp.pub = pubs[Pkt(w).stamp.slot]
           => \A x \in Words \ uncopied[w] : tuple[w][x] = Pkt(w).key

ClassificationInv ==
    /\ TypeOK
    /\ GenerationInv
    /\ PacketInv
    /\ LiveInv
    /\ PublishInv
    /\ LookupInv
    /\ CopyInv
    /\ ClassifiedByOwnTuple

-----------------------------------------------------------------------------
(* Liveness.  Each thread busy-loops on an lcore of its own, so no step it *)
(* can take is put off for ever.                                           *)

DispatcherStep ==
    \/ D_Poll \/ D_Lookup \/ D_Duplicate \/ D_Hit \/ D_Add \/ D_AddFails
    \/ D_NextGeneration \/ D_WriteCold \/ D_Publish
    \/ D_Evict \/ D_Reclaim \/ D_Retry \/ D_RetryFails \/ D_Enqueue

WorkerStep(w) ==
    W_Dequeue(w) \/ W_Fresh(w) \/ W_Stale(w) \/ W_Copy(w) \/ W_Recheck(w)
        \/ W_Match(w)

StatsStep ==
    \/ S_Wake
    \/ S_Collect \/ S_EndScan \/ S_Recheck \/ S_Delete \/ S_EndFlush
    \/ S_Sample \/ S_Candidate \/ S_Stash \/ S_Skip \/ S_Validate \/ S_Evict
    \/ S_EndPressure \/ S_Rest

Fairness ==
    /\ WF_vars(DispatcherStep /\ DispatcherFrame)
    /\ \A w \in Workers : WF_vars(WorkerStep(w) /\ WorkerFrame)
    /\ WF_vars(StatsStep /\ StatsFrame)

FairSpec == Spec /\ Fairness

\* Every deleted position returns to the free list: neither an idle dispatcher
\* (dispatcher.c:113-116) nor a sleeping stats thread (stats.c:253) holds up the
\* defer queue.
RetiredEventuallyReclaimed ==
    \A s \in Slots : status[s] = "retired" ~> status[s] # "retired"

\* README.md:37: a flow that has not been used for FLOW_TIMEOUT_SEC is deleted,
\* whatever the order of the table, however small the chunk of one tick
\* (flow_table.c:377-392) and however busy the flows before it in that order.
IdleFlowDeleted ==
    \A s \in Slots :
        status[s] = "live" /\ IdleFor(s, now, Timeout)
            ~> status[s] # "live" \/ ~IdleFor(s, now, Timeout)

\* A burst always ends: no replacement, however its eviction and its retry turn
\* out, leaves the dispatcher waiting for another thread (dispatcher.c:173-201).
BurstEnds == dpc # "poll" ~> dpc = "poll"
=============================================================================
