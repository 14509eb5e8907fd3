-------------------------------- MODULE Worker --------------------------------
(***************************************************************************)
(* The worker threads (worker_thread in src/src/worker.c) up to the SPI    *)
(* verdict: take packets from the ring, and decide for each which tuple    *)
(* the rules are matched against.  A worker is not an RCU reader: it       *)
(* copies cold[] between two loads of the generation and falls back to     *)
(* the packet's own headers when a load differs from the stamp.            *)
(***************************************************************************)
EXTENDS FlowTable, PacketRings

CONSTANTS WORKER_BURST  \* BURST_SIZE, of the dequeue

ASSUME WorkerAssumption == WORKER_BURST \in Nat \ {0}

VARIABLES
    wpc,            \* program counter of each worker
    hand,           \* pkts[], the packets dequeued and not finished yet
    tuple,          \* slot_cold / parsed_cold: what cold points to
    uncopied,       \* words of cold[flow_idx] still to be copied
    lapped          \* history: the slot went through all generations meanwhile

workerVars == <<wpc, hand, tuple, uncopied, lapped>>

WorkerTypeOK ==
    /\ wpc \in [Workers -> {"next", "copy", "recheck", "match"}]
    /\ hand \in [Workers -> Seq(Packets(Keys, Slots, 0 .. GenMod - 1, Workers))]
    /\ tuple \in [Workers -> [Words -> Keys \cup {NoKey}]]
    /\ uncopied \in [Workers -> SUBSET Words]
    /\ lapped \in [Workers -> BOOLEAN]
    /\ \A w \in Workers : wpc[w] # "next" => hand[w] # <<>>

WorkerInit ==
    /\ wpc = [w \in Workers |-> "next"]
    /\ hand = [w \in Workers |-> <<>>]
    /\ tuple = [w \in Workers |-> Whole(NoKey)]
    /\ uncopied = [w \in Workers |-> {}]
    /\ lapped = [w \in Workers |-> FALSE]

-----------------------------------------------------------------------------

Pkt(w) == Head(hand[w])
Current(w) == flow_gen[Pkt(w).stamp.slot] = Pkt(w).stamp.gen

W_Dequeue(w) ==
    /\ wpc[w] = "next" /\ hand[w] = <<>> /\ worker_rings[w] # <<>>
    /\ hand' = [hand EXCEPT ![w] = Dequeued(worker_rings[w], WORKER_BURST)]
    /\ worker_rings' = [worker_rings EXCEPT ![w] = Remaining(@, WORKER_BURST)]
    /\ UNCHANGED <<wpc, tuple, uncopied, lapped>>

\* The first load of the generation agrees with the stamp.
W_Fresh(w) ==
    /\ wpc[w] = "next" /\ hand[w] # <<>>
    /\ Current(w)
    /\ wpc' = [wpc EXCEPT ![w] = "copy"]
    /\ uncopied' = [uncopied EXCEPT ![w] = Words]
    /\ UNCHANGED <<hand, tuple, lapped, worker_rings>>

\* flow_packet_extract_cold of a packet whose headers the dispatcher parsed.
UseOwnTuple(w) ==
    /\ tuple' = [tuple EXCEPT ![w] = Whole(Pkt(w).key)]
    /\ wpc' = [wpc EXCEPT ![w] = "match"]

W_Stale(w) ==
    /\ wpc[w] = "next" /\ hand[w] # <<>>
    /\ ~Current(w)
    /\ UseOwnTuple(w)
    /\ UNCHANGED <<hand, uncopied, lapped, worker_rings>>

\* slot_cold = ft->cold[flow_idx], in any order of its words.
W_Copy(w) ==
    /\ wpc[w] = "copy"
    /\ \E x \in uncopied[w] :
          /\ tuple' = [tuple EXCEPT ![w][x] = cold[Pkt(w).stamp.slot][x]]
          /\ uncopied' = [uncopied EXCEPT ![w] = @ \ {x}]
    /\ wpc' = [wpc EXCEPT ![w] = IF uncopied'[w] = {} THEN "recheck" ELSE "copy"]
    /\ UNCHANGED <<hand, lapped, worker_rings>>

\* Mutant of W_Recheck: the copy is used without a second load.
W_Recheck_Trusting(w) ==
    /\ wpc[w] = "recheck"
    /\ wpc' = [wpc EXCEPT ![w] = "match"]
    /\ lapped' = [lapped EXCEPT ![w] =
                    pubs[Pkt(w).stamp.slot] - Pkt(w).stamp.pub >= Period]
    /\ UNCHANGED <<hand, tuple, uncopied, worker_rings>>

\* The second load of the generation: keep the copy only if nothing changed.
W_Recheck(w) ==
    /\ wpc[w] = "recheck"
    /\ IF Current(w)
       THEN wpc' = [wpc EXCEPT ![w] = "match"] /\ UNCHANGED tuple
       ELSE UseOwnTuple(w)
    /\ lapped' = [lapped EXCEPT ![w] =
                    pubs[Pkt(w).stamp.slot] - Pkt(w).stamp.pub >= Period]
    /\ UNCHANGED <<hand, uncopied, worker_rings>>

\* The rules are matched against tuple[w]; the packet leaves the hand.
W_Match(w) ==
    /\ wpc[w] = "match"
    /\ hand' = [hand EXCEPT ![w] = Tail(@)]
    /\ tuple' = [tuple EXCEPT ![w] = Whole(NoKey)]
    /\ wpc' = [wpc EXCEPT ![w] = "next"]
    /\ lapped' = [lapped EXCEPT ![w] = FALSE]
    /\ UNCHANGED <<uncopied, worker_rings>>
=============================================================================
