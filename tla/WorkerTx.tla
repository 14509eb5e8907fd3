------------------------------- MODULE WorkerTx -------------------------------
(***************************************************************************)
(* The packets in a worker thread (src/src/worker.c): the loop of          *)
(* worker_thread with the pending TX buffer, its flush with a bounded      *)
(* number of retries, and the drain when the program stops.  A packet is   *)
(* its number in the worker's ring; its SPI verdict (the module Worker) is *)
(* a free choice here, and so is what the NIC accepts of a burst.          *)
(***************************************************************************)
EXTENDS Integers, Sequences, FiniteSets

CONSTANTS
    BURST_SIZE,
    TX_RETRY_BUDGET,
    RingSize,       \* usable entries of the ring
    MaxPackets      \* bound: packets put into the ring

ASSUME WorkerTxAssumption ==
    /\ BURST_SIZE \in Nat \ {0}
    /\ TX_RETRY_BUDGET \in Nat \ {0}
    /\ RingSize \in Nat
    /\ MaxPackets \in Nat

VARIABLES
    ring,           \* worker_rings[worker_id]
    enqueued,       \* packets put into the ring so far
    force_quit,
    wpc,            \* program counter
    flushes,        \* where worker_flush_tx_pending returns to
    pkts,           \* pkts[], from the packet that is processed next
    tx_pkts,        \* forwarded packets of this burst
    pending,        \* worker_tx_pending.pkts
    sent_total,     \* packets of pending sent in this flush
    retries,        \* no_progress_retries
    drains,         \* flushes of the drain loop so far
    sent, freed,    \* what the NIC and the pool got back
    worker_rx_pkts, spi_pkts_dropped, spi_pkts_forwarded,
    stat_tx_pkts, tx_drop_pkts      \* lcore_stats

packetVars == <<pkts, tx_pkts, pending>>
flushVars == <<flushes, sent_total, retries, drains>>
statVars == <<worker_rx_pkts, spi_pkts_dropped, spi_pkts_forwarded, stat_tx_pkts,
              tx_drop_pkts>>
vars == <<ring, enqueued, force_quit, wpc, flushVars, packetVars, sent, freed,
          statVars>>

TypeOK ==
    /\ ring \in Seq(Nat) /\ Len(ring) <= RingSize
    /\ enqueued \in 0 .. MaxPackets
    /\ force_quit \in BOOLEAN
    /\ wpc \in {"top", "flush", "flushed", "dequeue", "classify", "stage",
                "drain", "done"}
    /\ flushes \in {"top", "stage", "drain"}
    /\ pkts \in Seq(Nat) /\ Len(pkts) <= BURST_SIZE
    /\ tx_pkts \in Seq(Nat) /\ Len(tx_pkts) <= BURST_SIZE
    /\ pending \in Seq(Nat) /\ Len(pending) <= BURST_SIZE
    /\ sent_total \in 0 .. Len(pending)
    /\ retries \in 0 .. TX_RETRY_BUDGET
    /\ drains \in 0 .. TX_RETRY_BUDGET
    /\ sent \in Seq(Nat)
    /\ freed \subseteq Nat
    /\ \A c \in {worker_rx_pkts, spi_pkts_dropped, spi_pkts_forwarded,
                 stat_tx_pkts, tx_drop_pkts} : c \in Nat

Init ==
    /\ ring = <<>> /\ enqueued = 0
    /\ force_quit = FALSE
    /\ wpc = "top" /\ flushes = "top"
    /\ pkts = <<>> /\ tx_pkts = <<>> /\ pending = <<>>
    /\ sent_total = 0 /\ retries = 0 /\ drains = 0
    /\ sent = <<>> /\ freed = {}
    /\ worker_rx_pkts = 0 /\ spi_pkts_dropped = 0 /\ spi_pkts_forwarded = 0
    /\ stat_tx_pkts = 0 /\ tx_drop_pkts = 0

Least(m, n) == IF m <= n THEN m ELSE n
Elements(q) == {q[i] : i \in DOMAIN q}

-----------------------------------------------------------------------------
(* The other threads: the dispatcher fills the ring, someone stops the     *)
(* program.                                                                *)

Enqueue ==
    /\ enqueued < MaxPackets /\ Len(ring) < RingSize
    /\ enqueued' = enqueued + 1
    /\ ring' = Append(ring, enqueued')
    /\ UNCHANGED <<force_quit, wpc, flushVars, packetVars, sent, freed, statVars>>

Quit ==
    /\ ~force_quit
    /\ force_quit' = TRUE
    /\ UNCHANGED <<ring, enqueued, wpc, flushVars, packetVars, sent, freed,
                   statVars>>

-----------------------------------------------------------------------------
(* worker_flush_tx_pending.                                                *)

CallFlush(from) ==
    /\ wpc' = "flush"
    /\ flushes' = from
    /\ sent_total' = 0
    /\ retries' = 0

\* rte_eth_tx_burst takes n of the packets that are left.
F_Send ==
    /\ wpc = "flush" /\ sent_total < Len(pending)
    /\ \E n \in 1 .. Len(pending) - sent_total :
          /\ sent' = sent \o SubSeq(pending, sent_total + 1, sent_total + n)
          /\ stat_tx_pkts' = stat_tx_pkts + n
          /\ sent_total' = sent_total + n
    /\ retries' = 0
    /\ UNCHANGED <<ring, enqueued, force_quit, wpc, flushes, drains, packetVars,
                   freed, worker_rx_pkts, spi_pkts_dropped, spi_pkts_forwarded,
                   tx_drop_pkts>>

\* Mutant of F_Blocked: the count of retries starts over instead of ending.
F_Blocked_Forever ==
    /\ wpc = "flush" /\ sent_total < Len(pending)
    /\ retries' = (retries + 1) % TX_RETRY_BUDGET
    /\ UNCHANGED <<ring, enqueued, force_quit, wpc, flushes, sent_total, drains,
                   packetVars, sent, freed, statVars>>

\* It takes none; after TX_RETRY_BUDGET times in a row the flush gives up.
F_Blocked ==
    /\ wpc = "flush" /\ sent_total < Len(pending)
    /\ retries' = retries + 1
    /\ wpc' = IF retries' >= TX_RETRY_BUDGET THEN "flushed" ELSE "flush"
    /\ UNCHANGED <<ring, enqueued, force_quit, flushes, sent_total, drains,
                   packetVars, sent, freed, statVars>>

F_AllSent ==
    /\ wpc = "flush" /\ sent_total = Len(pending)
    /\ wpc' = "flushed"
    /\ UNCHANGED <<ring, enqueued, force_quit, flushVars, packetVars, sent, freed,
                   statVars>>

\* Where the caller goes on: the flush before a burst is repeated until nothing is
\* left.
Caller(left) ==
    IF flushes = "drain" THEN "drain"
    ELSE IF flushes = "top" /\ left = <<>> THEN "dequeue" ELSE "top"

\* Mutants of F_Return: the unsent packets are not moved; the flush before a
\* burst is not repeated.
F_Return_NoMove ==
    /\ wpc = "flushed"
    /\ pending' = SubSeq(pending, 1, Len(pending) - sent_total)
    /\ sent_total' = 0
    /\ wpc' = Caller(pending')
    /\ UNCHANGED <<ring, enqueued, force_quit, flushes, retries, drains, pkts,
                   tx_pkts, sent, freed, statVars>>

F_Return_NoRepeat ==
    /\ wpc = "flushed"
    /\ pending' = SubSeq(pending, sent_total + 1, Len(pending))
    /\ sent_total' = 0
    /\ wpc' = Caller(<<>>)
    /\ UNCHANGED <<ring, enqueued, force_quit, flushes, retries, drains, pkts,
                   tx_pkts, sent, freed, statVars>>

\* The unsent packets move to the front of pending; the caller goes on.
F_Return ==
    /\ wpc = "flushed"
    /\ pending' = SubSeq(pending, sent_total + 1, Len(pending))
    /\ sent_total' = 0
    /\ wpc' = Caller(pending')
    /\ UNCHANGED <<ring, enqueued, force_quit, flushes, retries, drains, pkts,
                   tx_pkts, sent, freed, statVars>>

-----------------------------------------------------------------------------
(* worker_thread.                                                          *)

\* Mutant of T_Top: the flush before the next burst is missing.
T_Top_NoFlush ==
    /\ wpc = "top"
    /\ wpc' = IF force_quit THEN "drain"
              ELSE IF pending # <<>> THEN "top" ELSE "dequeue"
    /\ UNCHANGED <<ring, enqueued, force_quit, flushVars, packetVars, sent, freed,
                   statVars>>

\* The loop condition, and the flush that comes before the next burst.
T_Top ==
    /\ wpc = "top"
    /\ IF force_quit
       THEN wpc' = "drain" /\ UNCHANGED <<flushes, sent_total, retries>>
       ELSE IF pending # <<>>
       THEN CallFlush("top")
       ELSE wpc' = "dequeue" /\ UNCHANGED <<flushes, sent_total, retries>>
    /\ UNCHANGED <<ring, enqueued, force_quit, drains, packetVars, sent, freed,
                   statVars>>

\* Mutant of T_Dequeue: the burst is not limited to BURST_SIZE.
T_Dequeue_All ==
    /\ wpc = "dequeue"
    /\ pkts' = ring
    /\ ring' = <<>>
    /\ worker_rx_pkts' = worker_rx_pkts + Len(ring)
    /\ wpc' = IF ring = <<>> THEN "top" ELSE "classify"
    /\ UNCHANGED <<enqueued, force_quit, flushVars, tx_pkts, pending, sent, freed,
                   spi_pkts_dropped, spi_pkts_forwarded, stat_tx_pkts,
                   tx_drop_pkts>>

T_Dequeue ==
    /\ wpc = "dequeue"
    /\ LET n == Least(Len(ring), BURST_SIZE) IN
          /\ pkts' = SubSeq(ring, 1, n)
          /\ ring' = SubSeq(ring, n + 1, Len(ring))
          /\ worker_rx_pkts' = worker_rx_pkts + n
          /\ wpc' = IF n = 0 THEN "top" ELSE "classify"
    /\ UNCHANGED <<enqueued, force_quit, flushVars, tx_pkts, pending, sent, freed,
                   spi_pkts_dropped, spi_pkts_forwarded, stat_tx_pkts,
                   tx_drop_pkts>>

\* SPI_ACTION_DROP, or headers that do not parse.
T_SpiDrop ==
    /\ wpc = "classify" /\ pkts # <<>>
    /\ freed' = freed \cup {Head(pkts)}
    /\ pkts' = Tail(pkts)
    /\ spi_pkts_dropped' = spi_pkts_dropped + 1
    /\ UNCHANGED <<ring, enqueued, force_quit, wpc, flushVars, tx_pkts, pending,
                   sent, worker_rx_pkts, spi_pkts_forwarded, stat_tx_pkts,
                   tx_drop_pkts>>

T_Forward ==
    /\ wpc = "classify" /\ pkts # <<>>
    /\ tx_pkts' = Append(tx_pkts, Head(pkts))
    /\ pkts' = Tail(pkts)
    /\ spi_pkts_forwarded' = spi_pkts_forwarded + 1
    /\ UNCHANGED <<ring, enqueued, force_quit, wpc, flushVars, pending, sent,
                   freed, worker_rx_pkts, spi_pkts_dropped, stat_tx_pkts,
                   tx_drop_pkts>>

T_EndBurst ==
    /\ wpc = "classify" /\ pkts = <<>>
    /\ wpc' = IF tx_pkts = <<>> THEN "top" ELSE "stage"
    /\ UNCHANGED <<ring, enqueued, force_quit, flushVars, packetVars, sent, freed,
                   statVars>>

\* worker_stage_tx_burst: what does not fit into pending is dropped.
T_Stage ==
    /\ wpc = "stage"
    /\ LET staged == Least(Len(tx_pkts), BURST_SIZE - Len(pending))
           rest == SubSeq(tx_pkts, staged + 1, Len(tx_pkts))
       IN /\ pending' = pending \o SubSeq(tx_pkts, 1, staged)
          /\ freed' = freed \cup Elements(rest)
          /\ tx_drop_pkts' = tx_drop_pkts + Len(rest)
    /\ tx_pkts' = <<>>
    /\ CallFlush("stage")
    /\ UNCHANGED <<ring, enqueued, force_quit, drains, pkts, sent, worker_rx_pkts,
                   spi_pkts_dropped, spi_pkts_forwarded, stat_tx_pkts>>

\* worker_drain_tx_pending_on_exit: up to TX_RETRY_BUDGET flushes ...
T_Drain ==
    /\ wpc = "drain"
    /\ drains < TX_RETRY_BUDGET /\ pending # <<>>
    /\ drains' = drains + 1
    /\ CallFlush("drain")
    /\ UNCHANGED <<ring, enqueued, force_quit, packetVars, sent, freed, statVars>>

\* Mutant of T_Exit: the packets dropped at the exit are counted as one.
T_Exit_CountsOne ==
    /\ wpc = "drain"
    /\ drains = TX_RETRY_BUDGET \/ pending = <<>>
    /\ tx_drop_pkts' = tx_drop_pkts + 1
    /\ freed' = freed \cup Elements(pending)
    /\ pending' = <<>>
    /\ wpc' = "done"
    /\ UNCHANGED <<ring, enqueued, force_quit, flushVars, pkts, tx_pkts, sent,
                   worker_rx_pkts, spi_pkts_dropped, spi_pkts_forwarded,
                   stat_tx_pkts>>

\* ... and worker_drop_tx_pending frees the rest.
T_Exit ==
    /\ wpc = "drain"
    /\ drains = TX_RETRY_BUDGET \/ pending = <<>>
    /\ tx_drop_pkts' = tx_drop_pkts + Len(pending)
    /\ freed' = freed \cup Elements(pending)
    /\ pending' = <<>>
    /\ wpc' = "done"
    /\ UNCHANGED <<ring, enqueued, force_quit, flushVars, pkts, tx_pkts, sent,
                   worker_rx_pkts, spi_pkts_dropped, spi_pkts_forwarded,
                   stat_tx_pkts>>

-----------------------------------------------------------------------------

WorkerNext ==
    \/ F_Send \/ F_Blocked \/ F_AllSent \/ F_Return
    \/ T_Top \/ T_Dequeue \/ T_SpiDrop \/ T_Forward \/ T_EndBurst \/ T_Stage
    \/ T_Drain \/ T_Exit

Next ==
    \/ Enqueue
    \/ Quit
    \/ WorkerNext

Spec == Init /\ [][Next]_vars

\* The worker busy-loops on its lcore.
FairSpec == Spec /\ WF_vars(WorkerNext)

\* The NIC does not refuse every burst.
NicAccepts == SF_vars(F_Send)

-----------------------------------------------------------------------------
(* Properties.                                                             *)

\* The worker implements PacketCustody: through retries, partial bursts, the
\* memmove of pending (worker.c:56-66) and the drain, packets leave in the order
\* in which they came and each is sent or freed exactly once.
Custody == INSTANCE PacketCustody WITH
    taken <- worker_rx_pkts,
    held <- SubSeq(pending, sent_total + 1, Len(pending)) \o tx_pkts \o pkts,
    sent <- sent,
    freed <- freed

KeepsCustody == Custody!Spec

\* The flush-first loop (worker.c:135-140) leaves pending empty whenever a burst
\* is staged: the overflow branch of worker_stage_tx_burst (worker.c:85-89) is
\* never taken, a blocked NIC loses no forwarded packet before the exit.
StagingKeepsAll == wpc = "stage" => pending = <<>>

\* The counters account for every packet the worker took: those not in the
\* counters of drops and transmissions are the ones it still owns.
CountersAddUp ==
    /\ worker_rx_pkts = spi_pkts_dropped + spi_pkts_forwarded + Len(pkts)
    /\ spi_pkts_forwarded = stat_tx_pkts + tx_drop_pkts + Len(tx_pkts)
                            + Len(pending) - sent_total

\* A stopped worker returns (worker.c:133, 210): neither a blocked NIC nor a full
\* pending buffer keeps it in a loop that does not look at force_quit.
StopsOnQuit == force_quit ~> wpc = "done"

\* A NIC that blocks for a while stalls the ring (worker.c:135-140) and nothing
\* more: every packet of the ring is sent or freed unless the program stops.
RingServed ==
    NicAccepts =>
        \A p \in 1 .. MaxPackets :
            enqueued >= p ~> (p \in Elements(sent) \cup freed \/ force_quit)
=============================================================================
