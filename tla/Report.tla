-------------------------------- MODULE Report --------------------------------
(***************************************************************************)
(* The counters (src/src/stats_core.c) and the report of the stats thread  *)
(* (src/src/stats.c).  Every lcore counts in a struct of its own, which    *)
(* nobody locks; the stats thread adds them up, lcore by lcore, while the  *)
(* packets move on.  The threads are reduced to the packets they hold and  *)
(* to what they count: what the hash answers, which worker a flow has and  *)
(* what a rule says is any of the possible outcomes.                       *)
(***************************************************************************)
EXTENDS FlowPacket, Functions, SequencesExt, FiniteSetsExt

CONSTANTS
    Headers,            \* the packets that may arrive
    Workers,
    BURST_SIZE,
    RingSize,           \* usable entries of a worker ring
    AGING_NUM_CHUNKS,
    LcoreOrder,         \* RTE_LCORE_FOREACH: each of them once, in some order
    MaxPackets          \* bound: packets that arrive

ASSUME ReportAssumption ==
    /\ Headers \subseteq Header
    /\ BURST_SIZE \in Nat \ {0}
    /\ RingSize \in Nat
    /\ AGING_NUM_CHUNKS \in Nat \ {0}
    /\ IsFiniteSet(Workers) /\ Workers # {} /\ "dispatcher" \notin Workers
    /\ LcoreOrder \in Seq(Workers \cup {"dispatcher"})
    /\ ToSet(LcoreOrder) = Workers \cup {"dispatcher"}
    /\ IsInjective(LcoreOrder)
    /\ MaxPackets \in Nat

\* struct lcore_stats, as far as packets are counted in it.
DispatcherCounters ==
    {"rx_pkts", "rx_filtered_pkts", "ring_drop_pkts", "hash_add_failures",
     "flow_add_retry_success"}
Protocols ==
    {"http_pkts", "https_pkts", "dns_pkts", "tcp_pkts", "udp_pkts", "other_pkts"}
WorkerCounters == Protocols \cup
    {"worker_rx_pkts", "spi_pkts_forwarded", "spi_pkts_dropped",
     "spi_rule_checks"}

Lcores == Workers \cup {"dispatcher"}
CountersOf(l) == IF l = "dispatcher" THEN DispatcherCounters ELSE WorkerCounters
Counters == DispatcherCounters \cup WorkerCounters
Zero == [c \in Counters |-> 0]

\* The baselines of the worker view: prev_worker_rx_pkts and its like.
WorkerBaselines == {"worker_rx_pkts", "spi_pkts_dropped", "spi_rule_checks"}

VARIABLES
    lcore_stats,    \* g_lcore_stats
    burst,          \* received and not parsed yet
    worker_buffers, \* [Workers -> packets of the burst steered to it]
    ring,           \* [Workers -> packets in its ring]
    hand,           \* [Workers -> dequeued packets not matched yet]
    spc,            \* the stats thread: ticking, summing up, the worker lines
    tick_counter,
    view,           \* tui.view
    unread,         \* the lcores stats_collect_totals has still to add
    totals, prev_totals,
    to_show,        \* the workers whose line is to come
    prev_worker,    \* [Workers -> [WorkerBaselines -> Nat]]
    shown           \* [Workers -> the growth its line of this report is made of]

packetVars == <<burst, worker_buffers, ring, hand>>
dispatcherVars == <<burst, worker_buffers>>
reportVars == <<spc, tick_counter, view, unread, totals, prev_totals, to_show,
                prev_worker, shown>>
vars == <<lcore_stats, packetVars, reportVars>>

TypeOK ==
    /\ DOMAIN lcore_stats = Lcores
    /\ \A l \in Lcores : lcore_stats[l] \in [CountersOf(l) -> Nat]
    /\ burst \in Seq(Headers) /\ Len(burst) <= BURST_SIZE
    /\ worker_buffers \in [Workers -> Seq(Headers)]
    /\ \A w \in Workers : Len(worker_buffers[w]) <= BURST_SIZE
    /\ ring \in [Workers -> Seq(Headers)]
    /\ \A w \in Workers : Len(ring[w]) <= RingSize
    /\ hand \in [Workers -> Seq(Headers)]
    /\ spc \in {"tick", "totals", "workers"}
    /\ tick_counter \in 0 .. AGING_NUM_CHUNKS - 1
    /\ view \in {"STATISTICS", "WORKERS"}
    /\ unread \in Seq(Lcores)
    /\ totals \in [Counters -> Nat] /\ prev_totals \in [Counters -> Nat]
    /\ to_show \subseteq Workers
    /\ prev_worker \in [Workers -> [WorkerBaselines -> Nat]]
    /\ shown \in [Workers -> [WorkerBaselines -> Nat]]

Empty == [w \in Workers |-> <<>>]
NoBaselines == [w \in Workers |-> [c \in WorkerBaselines |-> 0]]

\* stats_init, and the start of the stats thread.
Init ==
    /\ lcore_stats = [l \in Lcores |-> [c \in CountersOf(l) |-> 0]]
    /\ burst = <<>> /\ worker_buffers = Empty /\ ring = Empty
    /\ hand = Empty
    /\ spc = "tick" /\ tick_counter = 0 /\ view = "STATISTICS"
    /\ unread = <<>> /\ totals = Zero /\ prev_totals = Zero
    /\ to_show = {} /\ prev_worker = NoBaselines /\ shown = NoBaselines

\* The lcore l counts n in each counter of cs.
Count(l, cs, n) ==
    lcore_stats' = [lcore_stats EXCEPT ![l] =
                      [c \in DOMAIN @ |-> IF c \in cs THEN @[c] + n ELSE @[c]]]

\* The true sums of the counters.
Sums == [c \in Counters |->
           IF c \in DispatcherCounters THEN lcore_stats["dispatcher"][c]
           ELSE SumFunction([w \in Workers |-> lcore_stats[w][c]])]

-----------------------------------------------------------------------------
(* The dispatcher.                                                         *)

DispatcherFrame == UNCHANGED <<hand, reportVars>>
Idle == burst = <<>> /\ worker_buffers = Empty

\* rte_eth_rx_burst.
D_Rx ==
    /\ Idle
    /\ \E n \in 1 .. BURST_SIZE :
          /\ lcore_stats["dispatcher"]["rx_pkts"] + n <= MaxPackets
          /\ burst' \in [1 .. n -> Headers]
          /\ Count("dispatcher", {"rx_pkts"}, n)
    /\ UNCHANGED <<worker_buffers, ring>>
    /\ DispatcherFrame

\* The head of the burst goes to some worker, or is freed.
SteerHead(ws) ==
    /\ burst' = Tail(burst)
    /\ IF ws = {} THEN UNCHANGED worker_buffers
       ELSE \E w \in ws :
              worker_buffers' = [worker_buffers EXCEPT ![w] = Append(@, Head(burst))]
    /\ UNCHANGED ring
    /\ DispatcherFrame

Parses == burst # <<>> /\ extract_key(Head(burst)) = "OK"

D_Filter ==
    /\ burst # <<>> /\ ~Parses
    /\ Count("dispatcher", {"rx_filtered_pkts"}, 1)
    /\ SteerHead({})

\* A flow with a position, or one that takes the position of a victim.
D_Steer ==
    /\ Parses
    /\ \E cs \in {{}, {"hash_add_failures", "flow_add_retry_success"}} :
          Count("dispatcher", cs, 1)
    /\ SteerHead(Workers)

\* No position and no victim, or the victim's position is still waiting.
D_NoFlow ==
    /\ Parses
    /\ Count("dispatcher", {"hash_add_failures"}, 1)
    /\ SteerHead({})

\* Mutant of D_Enqueue: what was enqueued is counted as dropped as well.
D_Enqueue_CountsAll(w) ==
    /\ burst = <<>> /\ worker_buffers[w] # <<>>
    /\ LET sent == Min({Len(worker_buffers[w]), RingSize - Len(ring[w])}) IN
          /\ ring' = [ring EXCEPT ![w] = @ \o SubSeq(worker_buffers[w], 1, sent)]
          /\ Count("dispatcher", {"ring_drop_pkts"},
                   IF sent < Len(worker_buffers[w]) THEN Len(worker_buffers[w]) ELSE 0)
    /\ worker_buffers' = [worker_buffers EXCEPT ![w] = <<>>]
    /\ UNCHANGED burst
    /\ DispatcherFrame

\* Each buffer is enqueued as far as its ring has room; the rest is freed.
D_Enqueue(w) ==
    /\ burst = <<>> /\ worker_buffers[w] # <<>>
    /\ LET sent == Min({Len(worker_buffers[w]), RingSize - Len(ring[w])}) IN
          /\ ring' = [ring EXCEPT ![w] = @ \o SubSeq(worker_buffers[w], 1, sent)]
          /\ Count("dispatcher", {"ring_drop_pkts"}, Len(worker_buffers[w]) - sent)
    /\ worker_buffers' = [worker_buffers EXCEPT ![w] = <<>>]
    /\ UNCHANGED burst
    /\ DispatcherFrame

-----------------------------------------------------------------------------
(* The workers.                                                            *)

WorkerFrame == UNCHANGED <<dispatcherVars, reportVars>>

W_Dequeue(w) ==
    /\ hand[w] = <<>> /\ ring[w] # <<>>
    /\ LET n == Min({Len(ring[w]), BURST_SIZE}) IN
          /\ hand' = [hand EXCEPT ![w] = SubSeq(ring[w], 1, n)]
          /\ ring' = [ring EXCEPT ![w] = SubSeq(@, n + 1, Len(@))]
          /\ Count(w, {"worker_rx_pkts"}, n)
    /\ WorkerFrame

\* A packet is checked, counted under its protocol, and dropped or forwarded
\* (WorkerTx has its way to the NIC).
W_Check(w) ==
    /\ hand[w] # <<>>
    /\ LET h == Head(hand[w]) IN
          \E verdict \in {"spi_pkts_dropped", "spi_pkts_forwarded"} :
             Count(w, {"spi_rule_checks", account_protocol(h.proto, h.dst_port),
                       verdict}, 1)
    /\ hand' = [hand EXCEPT ![w] = Tail(@)]
    /\ UNCHANGED ring
    /\ WorkerFrame

-----------------------------------------------------------------------------
(* The stats thread.                                                       *)

ReportFrame == UNCHANGED <<lcore_stats, packetVars>>

\* "show statistics" and "show worker".
R_Command ==
    /\ spc = "tick"
    /\ view' \in {"STATISTICS", "WORKERS"} \ {view}
    /\ UNCHANGED <<spc, tick_counter, unread, totals, prev_totals, to_show,
                   prev_worker, shown>>
    /\ ReportFrame

\* Mutant of R_Tick: the totals are not cleared before they are summed.
R_Tick_KeepsTotals ==
    /\ spc = "tick"
    /\ IF tick_counter + 1 < AGING_NUM_CHUNKS
       THEN tick_counter' = tick_counter + 1 /\ UNCHANGED <<spc, unread>>
       ELSE tick_counter' = 0 /\ spc' = "totals" /\ unread' = LcoreOrder
    /\ UNCHANGED <<view, totals, prev_totals, to_show, prev_worker, shown>>
    /\ ReportFrame

\* Mutant of R_Tick: the ticks are not counted from 0 again.
R_Tick_NoReset ==
    /\ spc = "tick"
    /\ tick_counter' = tick_counter + 1
    /\ IF tick_counter' < AGING_NUM_CHUNKS
       THEN UNCHANGED <<spc, unread, totals>>
       ELSE spc' = "totals" /\ unread' = LcoreOrder /\ totals' = Zero
    /\ UNCHANGED <<view, prev_totals, to_show, prev_worker, shown>>
    /\ ReportFrame

\* The end of a tick; every AGING_NUM_CHUNKS ticks there is a report, which
\* begins with the memset of the totals.
R_Tick ==
    /\ spc = "tick"
    /\ IF tick_counter + 1 < AGING_NUM_CHUNKS
       THEN tick_counter' = tick_counter + 1 /\ UNCHANGED <<spc, unread, totals>>
       ELSE /\ tick_counter' = 0
            /\ spc' = "totals"
            /\ unread' = LcoreOrder
            /\ totals' = Zero
    /\ UNCHANGED <<view, prev_totals, to_show, prev_worker, shown>>
    /\ ReportFrame

\* stats_collect_totals adds the counters of one lcore.
R_Read ==
    /\ spc = "totals" /\ unread # <<>>
    /\ LET read == lcore_stats[Head(unread)] IN
          totals' = [c \in Counters |->
                       IF c \in DOMAIN read THEN totals[c] + read[c] ELSE totals[c]]
    /\ unread' = Tail(unread)
    /\ UNCHANGED <<spc, tick_counter, view, prev_totals, to_show, prev_worker,
                   shown>>
    /\ ReportFrame

R_Totals ==
    /\ spc = "totals" /\ unread = <<>>
    /\ spc' = "workers"
    /\ to_show' = Workers
    /\ UNCHANGED <<tick_counter, view, unread, totals, prev_totals, prev_worker,
                   shown>>
    /\ ReportFrame

\* stats_rate_per_sec, without the division by the time that has passed.
Growth(current, previous) == IF current <= previous THEN 0 ELSE current - previous

\* Mutant of Refresh: only a line that is shown gets a new baseline.
Refresh_OnlyShown(w) ==
    prev_worker' = IF view = "WORKERS"
                   THEN [prev_worker EXCEPT ![w] =
                           [c \in WorkerBaselines |-> lcore_stats[w][c]]]
                   ELSE prev_worker

\* The counters of the worker as they are now are the baseline of the next report.
Refresh(w) ==
    prev_worker' = [prev_worker EXCEPT ![w] =
                      [c \in WorkerBaselines |-> lcore_stats[w][c]]]

\* The line of a worker: in the worker view its growth since the last report; in
\* the other view nothing is shown.
R_Worker ==
    /\ spc = "workers"
    /\ \E w \in to_show :
          /\ to_show' = to_show \ {w}
          /\ shown' = IF view = "WORKERS"
                      THEN [shown EXCEPT ![w] =
                              [c \in WorkerBaselines |->
                                 Growth(lcore_stats[w][c], prev_worker[w][c])]]
                      ELSE shown
          /\ Refresh(w)
    /\ UNCHANGED <<spc, tick_counter, view, unread, totals, prev_totals>>
    /\ ReportFrame

\* Mutant of R_End: the totals of the report are not kept for the next one.
R_End_Forgets ==
    /\ spc = "workers" /\ to_show = {}
    /\ spc' = "tick"
    /\ shown' = NoBaselines
    /\ UNCHANGED <<tick_counter, view, unread, totals, prev_totals, to_show,
                   prev_worker>>
    /\ ReportFrame

\* prev_totals = totals.
R_End ==
    /\ spc = "workers" /\ to_show = {}
    /\ spc' = "tick"
    /\ prev_totals' = totals
    /\ shown' = NoBaselines
    /\ UNCHANGED <<tick_counter, view, unread, totals, to_show, prev_worker>>
    /\ ReportFrame

-----------------------------------------------------------------------------

DispatcherStep == D_Filter \/ D_Steer \/ D_NoFlow \/ \E w \in Workers : D_Enqueue(w)
WorkerStep(w) == W_Dequeue(w) \/ W_Check(w)
StatsStep == R_Tick \/ R_Read \/ R_Totals \/ R_Worker \/ R_End

Next ==
    \/ D_Rx
    \/ DispatcherStep
    \/ \E w \in Workers : WorkerStep(w)
    \/ R_Command
    \/ StatsStep

Spec == Init /\ [][Next]_vars

\* Every thread runs on an lcore of its own.  Packets and commands come as they
\* like.
FairSpec ==
    /\ Spec
    /\ WF_vars(DispatcherStep)
    /\ \A w \in Workers : WF_vars(WorkerStep(w))
    /\ WF_vars(StatsStep)

-----------------------------------------------------------------------------
(* Properties.                                                             *)

Packets(queue) == SumFunction([w \in Workers |-> Len(queue[w])])

\* The figures of a report that must add up: received packets are filtered, lost
\* for want of a position, dropped before a full ring or taken by a worker; those
\* are checked under one protocol and dropped or forwarded.
Unaccounted(f) ==
    f["rx_pkts"] - f["rx_filtered_pkts"] - f["ring_drop_pkts"]
    - (f["hash_add_failures"] - f["flow_add_retry_success"])
    - f["worker_rx_pkts"]
Unchecked(f) ==
    f["worker_rx_pkts"] - f["spi_pkts_dropped"] - f["spi_pkts_forwarded"]

\* Every packet of the pipeline is counted once, at the stage it has reached
\* (dispatcher.c:118-235, worker.c:147-201): what is not counted as taken by a
\* worker or lost is in the burst, in a buffer or in a ring.
EveryPacketCounted ==
    LET sums == Sums IN
    /\ Unaccounted(sums) = Len(burst) + Packets(worker_buffers) + Packets(ring)
    /\ Unchecked(sums) = Packets(hand)
    /\ sums["spi_rule_checks"] = SumFunctionOnSet(sums, Protocols)

\* Both threads parse (dispatcher.c:134, worker.c:163): a packet that reaches a
\* worker is TCP or UDP, so OTHER (flow_packet.c:106) never counts one.
OnlyTcpUdpReachWorkers ==
    /\ \A w \in Workers : lcore_stats[w]["other_pkts"] = 0
    /\ \A w \in Workers :
          \A h \in ToSet(ring[w]) \cup ToSet(hand[w]) :
             extract_key(h) = "OK"

\* The parser takes every packet it should and no other, and reads no byte that
\* is not there (flow_packet.c:42).
ParsesWhatIsThere ==
    \A h \in ToSet(burst) : ParsesExactly(h) /\ ReadsInside(h)

\* The totals of a report are no sums that never were, although the lcores count
\* on while they are collected (stats.c:304): of each counter no less than in the
\* last report - a rate would silently be 0 (stats_core.c:104) - and no more than
\* now.
TotalsBetween ==
    LET sums == Sums IN
    spc = "workers" =>
        \A c \in Counters : prev_totals[c] <= totals[c] /\ totals[c] <= sums[c]

\* The growth that the worker lines of a report show is at most what happened
\* since the last report's totals were collected, the period its rates divide by
\* (stats.c:302), whichever view the reports in between had (stats.c:449-461).
WorkerRatesCoverOnePeriod ==
    spc = "workers" =>
        \A c \in WorkerBaselines :
            SumFunction([w \in Workers |-> shown[w][c]]) <= Sums[c] - prev_totals[c]

\* Once no packet arrives any more the reports settle: they show the true sums,
\* and the figures of one report balance, which they need not do before.
ReportSettles ==
    <>[](/\ prev_totals = Sums
         /\ Unaccounted(prev_totals) = 0 /\ Unchecked(prev_totals) = 0)
=============================================================================
