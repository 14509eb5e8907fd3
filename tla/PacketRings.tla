----------------------------- MODULE PacketRings -----------------------------
(***************************************************************************)
(* The single-producer single-consumer rings from the dispatcher to each   *)
(* worker (worker_rings, created by rings_init in src/src/app_init.c) and  *)
(* the packets in them.  A packet carries its own 5-tuple (its headers)    *)
(* and the stamp the dispatcher wrote into mbuf->hash.fdir: the position   *)
(* and the generation of its flow.  Three fields of a stamp are not in the *)
(* mbuf: worker is the entry of resolved_workers[] the dispatcher keeps    *)
(* beside it, pub and dirty are history.  pub is the number of the         *)
(* publication the generation belongs to; dirty says that the stamp comes  *)
(* from a bulk lookup made before an eviction of the same burst.           *)
(***************************************************************************)
EXTENDS Integers, Sequences

CONSTANTS RingSize      \* usable entries of one worker ring

ASSUME PacketRingsAssumption == RingSize \in Nat

VARIABLE worker_rings   \* [Workers -> Seq(Packet)]

Stamps(S, G, W) ==
    [slot : S, gen : G, worker : W, pub : Nat, dirty : BOOLEAN]
Packets(K, S, G, W) == [key : K, stamp : Stamps(S, G, W)]

\* Mutant of EnqueueBurst: the free count of the ring is not consulted.
EnqueueBurst_Unbounded(ring, pkts) == ring \o pkts

\* rte_ring_enqueue_burst: the prefix that fits, the rest is the caller's.
Fits(ring, pkts) ==
    IF Len(pkts) <= RingSize - Len(ring) THEN Len(pkts) ELSE RingSize - Len(ring)
EnqueueBurst(ring, pkts) == ring \o SubSeq(pkts, 1, Fits(ring, pkts))

\* rte_ring_dequeue_burst of at most n packets.
Dequeued(ring, n) == SubSeq(ring, 1, IF Len(ring) <= n THEN Len(ring) ELSE n)
Remaining(ring, n) == SubSeq(ring, Len(Dequeued(ring, n)) + 1, Len(ring))
=============================================================================
