---------------------------- MODULE WorkerTx_proofs ----------------------------
(***************************************************************************)
(* The packets of a worker for every burst size, budget of retries and     *)
(* ring: the types, the counters, the staging, and that the worker         *)
(* implements PacketCustody.                                               *)
(***************************************************************************)
EXTENDS WorkerTx, SequenceTheorems, TLAPS

\* Where the packets are at each stage of the loop, and how far a flush is.
TxInv ==
    /\ wpc # "classify" => pkts = <<>>
    /\ wpc \notin {"classify", "stage"} => tx_pkts = <<>>
    /\ Len(pkts) + Len(tx_pkts) <= BURST_SIZE
    /\ wpc \in {"dequeue", "classify", "stage"} => pending = <<>>
    /\ wpc \notin {"flush", "flushed"} => sent_total = 0
    /\ wpc = "flush" => retries < TX_RETRY_BUDGET

\* The ring holds the packets that come next.
RingInv ==
    /\ enqueued = worker_rx_pkts + Len(ring)
    /\ \A i \in 1 .. Len(ring) : ring[i] = worker_rx_pkts + i

WorkerTxInv == TypeOK /\ TxInv /\ CountersAddUp /\ RingInv

-----------------------------------------------------------------------------
(* Sequences of packets.                                                   *)

\* A part of a sequence.
LEMMA Part ==
    ASSUME NEW s \in Seq(Nat), NEW m \in Nat, NEW n \in Nat,
           1 <= m, m <= n + 1, n <= Len(s)
    PROVE  /\ SubSeq(s, m, n) \in Seq(Nat)
           /\ Len(SubSeq(s, m, n)) = n - m + 1
           /\ \A i \in 1 .. n - m + 1 : SubSeq(s, m, n)[i] = s[m + i - 1]
<1>1. \A i \in m .. n : s[i] \in Nat
  BY ElementOfSeq, LenProperties
<1>2. /\ SubSeq(s, m, n) \in Seq(Nat)
      /\ Len(SubSeq(s, m, n)) = IF m <= n THEN n - m + 1 ELSE 0
      /\ \A i \in 1 .. n - m + 1 : SubSeq(s, m, n)[i] = s[m + i - 1]
  BY <1>1, SubSeqProperties
<1> QED
  BY <1>2

\* The packets of a sequence are numbers.
LEMMA Numbers ==
    ASSUME NEW s \in Seq(Nat)
    PROVE  /\ Len(s) \in Nat /\ DOMAIN s = 1 .. Len(s)
           /\ \A i \in 1 .. Len(s) : s[i] \in Nat
           /\ Elements(s) \subseteq Nat
           /\ Len(s) = 0 <=> s = <<>>
<1>1. Len(s) \in Nat /\ DOMAIN s = 1 .. Len(s) /\ \A i \in 1 .. Len(s) : s[i] \in Nat
  BY LenProperties, ElementOfSeq
<1>2. Len(s) = 0 <=> s = <<>>
  BY EmptySeq
<1> QED
  BY <1>1, <1>2 DEF Elements

\* The types, one part at a time.
LEMMA SeqTypes ==
    ASSUME TypeOK
    PROVE  /\ ring \in Seq(Nat) /\ pkts \in Seq(Nat) /\ tx_pkts \in Seq(Nat)
           /\ pending \in Seq(Nat) /\ sent \in Seq(Nat)
  BY DEF TypeOK

\* The lengths.
LEMMA LenTypes ==
    ASSUME TypeOK
    PROVE  /\ Len(ring) \in Nat /\ Len(pkts) \in Nat /\ Len(tx_pkts) \in Nat
           /\ Len(pending) \in Nat /\ sent_total \in Nat /\ sent_total <= Len(pending)
  BY LenProperties DEF TypeOK

\* The counters of the loops.
LEMMA LoopTypes ==
    ASSUME TypeOK
    PROVE  /\ retries \in Nat /\ retries <= TX_RETRY_BUDGET
           /\ drains \in Nat /\ drains <= TX_RETRY_BUDGET
  BY DEF TypeOK

\* The counters of packets.
LEMMA CountTypes ==
    ASSUME TypeOK
    PROVE  /\ worker_rx_pkts \in Nat /\ spi_pkts_dropped \in Nat
           /\ spi_pkts_forwarded \in Nat /\ stat_tx_pkts \in Nat
           /\ tx_drop_pkts \in Nat
  BY DEF TypeOK

\* The packets put into the ring.
LEMMA EnqueuedType ==
    ASSUME TypeOK
    PROVE  enqueued \in Nat /\ enqueued <= MaxPackets /\ MaxPackets \in Nat
  BY WorkerTxAssumption DEF TypeOK, WorkerTxAssumption

\* The sizes.
LEMMA Sizes ==
    /\ BURST_SIZE \in Nat /\ BURST_SIZE >= 1
    /\ TX_RETRY_BUDGET \in Nat /\ TX_RETRY_BUDGET >= 1
    /\ RingSize \in Nat
  BY WorkerTxAssumption DEF WorkerTxAssumption

\* Arithmetic of the counters.
LEMMA Within ==
    ASSUME NEW m \in Nat, NEW n \in Nat
    PROVE  /\ m <= n => m \in 0 .. n
           /\ 0 \in 0 .. n
           /\ m + n \in Nat
  OBVIOUS

\* n packets of d are sent: one counter follows the other.
LEMMA Shift ==
    ASSUME NEW a \in Nat, NEW b \in Nat, NEW c \in Nat, NEW d \in Nat, NEW e \in Nat,
           NEW n \in Nat
    PROVE  a + b + c + d - e = (a + n) + b + c + d - (e + n)
  OBVIOUS

-----------------------------------------------------------------------------
(* The invariant holds at the start and every step keeps it.               *)

\* The initial state.
LEMMA InitInv == Init => WorkerTxInv
<1> SUFFICES ASSUME Init
             PROVE  WorkerTxInv
  OBVIOUS
<1>1. <<>> \in Seq(Nat) /\ Len(<<>>) = 0
  BY EmptySeq
<1>2. TypeOK
  <2>1. 0 \in Nat /\ 0 \in 0 .. TX_RETRY_BUDGET /\ 0 \in 0 .. MaxPackets /\ 0 \in 0 .. 0
    BY Sizes, Within, WorkerTxAssumption DEF WorkerTxAssumption
  <2>2. Len(<<>>) <= BURST_SIZE /\ Len(<<>>) <= RingSize
    BY <1>1, Sizes
  <2>3. \A c \in {worker_rx_pkts, spi_pkts_dropped, spi_pkts_forwarded, stat_tx_pkts,
               tx_drop_pkts} : c \in Nat
    BY <2>1 DEF Init
  <2> QED
    BY <1>1, <2>1, <2>2, <2>3 DEF Init, TypeOK
<1>3. TxInv
  BY <1>1, Sizes DEF Init, TxInv
<1>4. RingInv
  BY <1>1 DEF Init, RingInv
<1>5. CountersAddUp
  BY <1>1 DEF Init, CountersAddUp
<1> QED
  BY <1>2, <1>3, <1>4, <1>5 DEF WorkerTxInv

\* The parts of the invariant.
LEMMA Parts ==
    ASSUME WorkerTxInv
    PROVE  TypeOK /\ TxInv /\ CountersAddUp /\ RingInv
  BY DEF WorkerTxInv

\* The dispatcher appends the next number.
LEMMA EnqueueKeeps ==
    ASSUME WorkerTxInv, Enqueue
    PROVE  WorkerTxInv'
<1> USE Parts DEF flushVars, packetVars, statVars
<1>1. enqueued < MaxPackets /\ Len(ring) < RingSize /\ enqueued' = enqueued + 1
  BY DEF Enqueue
<1>2. enqueued' \in 0 .. MaxPackets /\ enqueued' \in Nat
  BY <1>1, EnqueuedType
<1>3. /\ ring' \in Seq(Nat) /\ Len(ring') = Len(ring) + 1
      /\ \A i \in 1 .. Len(ring) : ring'[i] = ring[i]
      /\ ring'[Len(ring) + 1] = enqueued'
  BY <1>2, SeqTypes, AppendProperties DEF Enqueue
<1>4. Len(ring') <= RingSize
  BY <1>1, <1>3, LenTypes, Sizes
<1>5. TypeOK'
  BY <1>2, <1>3, <1>4 DEF TypeOK, Enqueue
<1>6. TxInv' /\ CountersAddUp'
  BY DEF TxInv, CountersAddUp, Enqueue
<1>7. worker_rx_pkts' = worker_rx_pkts
  BY DEF Enqueue
<1>8. RingInv'
  <2>1. enqueued = worker_rx_pkts + Len(ring)
    BY DEF RingInv
  <2>2. ring'[Len(ring) + 1] = worker_rx_pkts + (Len(ring) + 1)
    BY <1>1, <1>3, <2>1, LenTypes, CountTypes
  <2>3. \A i \in 1 .. Len(ring) + 1 : i \in 1 .. Len(ring) \/ i = Len(ring) + 1
    BY LenTypes
  <2>4. \A i \in 1 .. Len(ring) + 1 : ring'[i] = worker_rx_pkts + i
    BY <1>3, <2>2, <2>3 DEF RingInv
  <2>5. enqueued' = worker_rx_pkts + (Len(ring) + 1)
    BY <1>1, <2>1, LenTypes, CountTypes
  <2> QED
    BY <1>3, <1>7, <2>4, <2>5 DEF RingInv
<1> QED
  BY <1>5, <1>6, <1>8 DEF WorkerTxInv

\* A stop request moves no packet.
LEMMA QuitKeeps ==
    ASSUME WorkerTxInv, Quit
    PROVE  WorkerTxInv'
  BY DEF WorkerTxInv, TypeOK, TxInv, CountersAddUp, RingInv, Quit, flushVars, packetVars,
         statVars

\* A step that leaves the ring and the count of received packets alone.
LEMMA RingAlone ==
    ASSUME RingInv, UNCHANGED <<ring, enqueued, worker_rx_pkts>>
    PROVE  RingInv'
  BY DEF RingInv

\* The NIC takes n packets.
LEMMA SendKeeps ==
    ASSUME WorkerTxInv, F_Send
    PROVE  WorkerTxInv'
<1> USE Parts DEF packetVars
<1>1. PICK n \in 1 .. Len(pending) - sent_total :
         /\ sent' = sent \o SubSeq(pending, sent_total + 1, sent_total + n)
         /\ stat_tx_pkts' = stat_tx_pkts + n
         /\ sent_total' = sent_total + n
  BY DEF F_Send
<1>2. /\ n \in Nat /\ n >= 1 /\ sent_total + n <= Len(pending)
      /\ sent_total + n \in Nat /\ sent_total + 1 \in Nat
  BY LenTypes
<1>3. SubSeq(pending, sent_total + 1, sent_total + n) \in Seq(Nat)
  BY SMTT(30), <1>2, SeqTypes, LenTypes, Part
<1>4. sent' \in Seq(Nat)
  BY <1>1, <1>3, SeqTypes, ConcatProperties
<1>5. sent_total' \in 0 .. Len(pending) /\ stat_tx_pkts' \in Nat
  <2>1. sent_total' \in 0 .. Len(pending)
    BY <1>1, <1>2, LenTypes, Within
  <2>2. stat_tx_pkts' \in Nat
    BY <1>1, <1>2, CountTypes, Within
  <2> QED
    BY <2>1, <2>2
<1>6. /\ UNCHANGED <<ring, enqueued, force_quit, wpc, flushes, drains, pkts, tx_pkts,
                     pending, freed>>
      /\ UNCHANGED <<worker_rx_pkts, spi_pkts_dropped, spi_pkts_forwarded, tx_drop_pkts>>
      /\ retries' = 0 /\ wpc = "flush"
  BY DEF F_Send
<1>7. retries' \in 0 .. TX_RETRY_BUDGET
  BY <1>6, Sizes
<1>8. TypeOK'
  BY <1>4, <1>5, <1>6, <1>7 DEF TypeOK
<1>9. TxInv'
  BY <1>6, Sizes DEF TxInv
<1>10. CountersAddUp'
  <2>1. UNCHANGED <<worker_rx_pkts, spi_pkts_dropped, spi_pkts_forwarded, tx_drop_pkts,
                    pkts, tx_pkts, pending>>
    BY <1>6
  <2>2. stat_tx_pkts + tx_drop_pkts + Len(tx_pkts) + Len(pending) - sent_total
          = (stat_tx_pkts + n) + tx_drop_pkts + Len(tx_pkts) + Len(pending)
              - (sent_total + n)
    <3>1. /\ stat_tx_pkts \in Nat /\ tx_drop_pkts \in Nat /\ Len(tx_pkts) \in Nat
          /\ Len(pending) \in Nat /\ sent_total \in Nat /\ n \in Nat
      BY LenTypes, CountTypes
    <3> QED
      BY <3>1, Shift
  <2> QED
    BY <1>1, <2>1, <2>2 DEF CountersAddUp
<1> QED
  BY <1>6, <1>8, <1>9, <1>10, RingAlone DEF WorkerTxInv

\* The NIC takes nothing, or nothing is left.
LEMMA WaitKeeps ==
    ASSUME WorkerTxInv, F_Blocked \/ F_AllSent
    PROVE  WorkerTxInv'
<1> USE Parts DEF flushVars, packetVars, statVars
<1>1. CASE F_Blocked
  <2>1. /\ UNCHANGED <<ring, enqueued, force_quit, flushes, sent_total, drains, pkts,
                       tx_pkts, pending, sent, freed>>
        /\ UNCHANGED statVars
        /\ wpc = "flush" /\ retries' = retries + 1
        /\ wpc' = IF retries' >= TX_RETRY_BUDGET THEN "flushed" ELSE "flush"
    BY <1>1 DEF F_Blocked
  <2>2. retries < TX_RETRY_BUDGET
    BY <2>1 DEF TxInv
  <2>3. retries' \in 0 .. TX_RETRY_BUDGET /\ retries' \in Nat
    BY <2>1, <2>2, LoopTypes, Sizes
  <2>4. TypeOK'
    BY <2>1, <2>3 DEF TypeOK
  <2>5. TxInv'
    BY <2>1, <2>3, Sizes DEF TxInv
  <2>6. CountersAddUp'
    BY <2>1 DEF CountersAddUp
  <2> QED
    BY <2>1, <2>4, <2>5, <2>6, RingAlone DEF WorkerTxInv
<1>2. CASE F_AllSent
  BY <1>2 DEF WorkerTxInv, TypeOK, TxInv, CountersAddUp, RingInv, F_AllSent
<1> QED
  BY <1>1, <1>2

\* What was not sent moves to the front.
LEMMA ReturnKeeps ==
    ASSUME WorkerTxInv, F_Return
    PROVE  WorkerTxInv'
<1> USE Parts DEF statVars
<1>1. /\ UNCHANGED <<ring, enqueued, force_quit, flushes, retries, drains, pkts, tx_pkts,
                     sent, freed>>
      /\ UNCHANGED statVars
      /\ wpc = "flushed" /\ sent_total' = 0
      /\ pending' = SubSeq(pending, sent_total + 1, Len(pending))
      /\ wpc' \in {"top", "dequeue", "drain"} /\ (wpc' = "dequeue" => pending' = <<>>)
  BY DEF F_Return, Caller
<1>2. sent_total + 1 \in Nat /\ 1 <= sent_total + 1 /\ sent_total + 1 <= Len(pending) + 1
  BY LenTypes
<1>3. /\ pending' \in Seq(Nat)
      /\ Len(pending') = Len(pending) - (sent_total + 1) + 1
  BY <1>1, <1>2, SeqTypes, LenTypes, Part
<1>4. Len(pending') \in Nat /\ Len(pending') = Len(pending) - sent_total
  BY <1>3, LenTypes
<1>5. Len(pending) <= BURST_SIZE
  BY DEF TypeOK
<1>6. Len(pending') <= BURST_SIZE
  BY <1>4, <1>5, LenTypes, Sizes
<1>7. sent_total' \in 0 .. Len(pending')
  <2>1. sent_total' = 0
    BY <1>1
  <2> QED
    BY <1>4, <2>1, Within
<1>8. TypeOK'
  BY <1>1, <1>3, <1>6, <1>7 DEF TypeOK
<1>9. TxInv'
  BY <1>1 DEF TxInv
<1>10. CountersAddUp'
  BY SMTT(30), <1>1, <1>4, LenTypes, CountTypes DEF CountersAddUp
<1> QED
  BY <1>1, <1>8, <1>9, <1>10, RingAlone DEF WorkerTxInv

\* The next burst is the front of the ring.
LEMMA DequeueKeeps ==
    ASSUME WorkerTxInv, T_Dequeue
    PROVE  WorkerTxInv'
<1> USE Parts DEF flushVars
<1>1. PICK n \in Nat :
         /\ n <= Len(ring) /\ n <= BURST_SIZE
         /\ pkts' = SubSeq(ring, 1, n) /\ ring' = SubSeq(ring, n + 1, Len(ring))
         /\ worker_rx_pkts' = worker_rx_pkts + n
         /\ wpc' = IF n = 0 THEN "top" ELSE "classify"
  <2>1. Least(Len(ring), BURST_SIZE) \in Nat
    BY LenTypes, Sizes DEF Least
  <2>2. /\ Least(Len(ring), BURST_SIZE) <= Len(ring)
        /\ Least(Len(ring), BURST_SIZE) <= BURST_SIZE
    BY LenTypes, Sizes DEF Least
  <2> QED
    BY <2>1, <2>2 DEF T_Dequeue
<1>2. /\ UNCHANGED <<enqueued, force_quit, flushes, sent_total, retries, drains, tx_pkts,
                     pending, sent, freed>>
      /\ UNCHANGED <<spi_pkts_dropped, spi_pkts_forwarded, stat_tx_pkts, tx_drop_pkts>>
      /\ wpc = "dequeue"
  BY DEF T_Dequeue
<1>3. pkts' \in Seq(Nat) /\ Len(pkts') = n
  <2>1. /\ pkts' \in Seq(Nat) /\ Len(pkts') = n - 1 + 1
    BY <1>1, SeqTypes, LenTypes, Part
  <2> QED
    BY <2>1
<1>4. /\ ring' \in Seq(Nat) /\ Len(ring') = Len(ring) - n
      /\ \A i \in 1 .. Len(ring) - n : ring'[i] = ring[n + i]
  <2>1. n + 1 \in Nat /\ 1 <= n + 1 /\ n + 1 <= Len(ring) + 1
    BY <1>1, LenTypes
  <2>2. /\ ring' \in Seq(Nat) /\ Len(ring') = Len(ring) - (n + 1) + 1
        /\ \A i \in 1 .. Len(ring) - (n + 1) + 1 : ring'[i] = ring[(n + 1) + i - 1]
    <3>1. ring \in Seq(Nat) /\ Len(ring) \in Nat /\ Len(ring) <= Len(ring)
      BY SeqTypes, LenTypes
    <3> HIDE Parts
    <3>2. ring' = SubSeq(ring, n + 1, Len(ring))
      BY <1>1
    <3> QED
      BY <2>1, <3>1, <3>2, Part
  <2>3. \A i \in 1 .. Len(ring) - n : (n + 1) + i - 1 = n + i
    BY LenTypes
  <2> QED
    BY <2>2, <2>3, LenTypes
<1>5. pkts = <<>> /\ tx_pkts = <<>> /\ pending = <<>> /\ sent_total = 0 /\ Len(<<>>) = 0
  BY <1>2, EmptySeq DEF TxInv
<1>6. Len(ring') <= RingSize
  <2>1. Len(ring) <= RingSize
    BY DEF TypeOK
  <2> QED
    BY <1>1, <1>4, <2>1, LenTypes, Sizes
<1>7. worker_rx_pkts' \in Nat
  BY <1>1, CountTypes
<1>8. TypeOK'
  BY <1>1, <1>2, <1>3, <1>4, <1>6, <1>7 DEF TypeOK
<1>9. TxInv'
  <2>1. n = 0 => pkts' = <<>>
    BY <1>3, Numbers
  <2> QED
    BY <1>1, <1>2, <1>3, <1>5, <2>1, Sizes DEF TxInv
<1>10. CountersAddUp'
  BY <1>1, <1>2, <1>3, <1>5, CountTypes DEF CountersAddUp
<1>11. RingInv'
  <2>1. \A i \in 1 .. Len(ring) - n : n + i \in 1 .. Len(ring)
    BY LenTypes
  <2>2. \A i \in 1 .. Len(ring) - n : ring'[i] = worker_rx_pkts + (n + i)
    BY <1>4, <2>1 DEF RingInv
  <2>3. \A i \in 1 .. Len(ring) - n : ring'[i] = worker_rx_pkts' + i
    BY SMTT(30), <1>1, <2>2, LenTypes, CountTypes
  <2>4. enqueued = worker_rx_pkts + Len(ring)
    BY DEF RingInv
  <2>5. enqueued' = (worker_rx_pkts + n) + (Len(ring) - n)
    BY <1>1, <1>2, <2>4, LenTypes, CountTypes
  <2> QED
    BY <1>1, <1>4, <2>3, <2>5 DEF RingInv
<1> QED
  BY <1>8, <1>9, <1>10, <1>11 DEF WorkerTxInv

\* The packet at the head of the burst is dropped or forwarded.
LEMMA ClassifyKeeps ==
    ASSUME WorkerTxInv, T_SpiDrop \/ T_Forward
    PROVE  WorkerTxInv'
<1> USE Parts DEF flushVars
<1>1. /\ UNCHANGED <<ring, enqueued, force_quit, wpc, flushes, sent_total, retries, drains,
                     pending, sent>>
      /\ UNCHANGED <<worker_rx_pkts, stat_tx_pkts, tx_drop_pkts>>
      /\ wpc = "classify" /\ pkts # <<>> /\ pkts' = Tail(pkts)
  BY DEF T_SpiDrop, T_Forward
<1>2. /\ Head(pkts) \in Nat /\ Tail(pkts) \in Seq(Nat)
      /\ Len(Tail(pkts)) \in Nat /\ Len(pkts) = Len(Tail(pkts)) + 1
  BY <1>1, SeqTypes, LenTypes, HeadTailProperties
<1>3. pending = <<>> /\ sent_total = 0
  BY <1>1 DEF TxInv
<1>4. Len(pkts) <= BURST_SIZE /\ Len(pkts) + Len(tx_pkts) <= BURST_SIZE
  BY DEF TypeOK, TxInv
<1>5. Len(Tail(pkts)) <= BURST_SIZE
  BY <1>2, <1>4, Sizes
<1>6. CASE T_SpiDrop
  <2>1. /\ freed' = freed \cup {Head(pkts)} /\ tx_pkts' = tx_pkts
        /\ spi_pkts_dropped' = spi_pkts_dropped + 1
        /\ spi_pkts_forwarded' = spi_pkts_forwarded
    BY <1>6 DEF T_SpiDrop
  <2>2. freed' \subseteq Nat /\ spi_pkts_dropped' \in Nat
    BY SMTT(30), <1>2, <2>1, CountTypes DEF TypeOK
  <2>3. TypeOK'
    BY <1>1, <1>2, <1>5, <2>1, <2>2 DEF TypeOK
  <2>4. Len(pkts') + Len(tx_pkts') <= BURST_SIZE
    BY <1>1, <1>2, <1>4, <2>1, LenTypes, Sizes
  <2>5. TxInv'
    BY <1>1, <1>3, <2>4 DEF TxInv
  <2>6. spi_pkts_dropped' + spi_pkts_forwarded' + Len(pkts')
          = spi_pkts_dropped + spi_pkts_forwarded + Len(pkts)
    BY <1>1, <1>2, <2>1, CountTypes
  <2>7. CountersAddUp'
    BY <1>1, <2>1, <2>6 DEF CountersAddUp
  <2> QED
    BY <1>1, <2>3, <2>5, <2>7, RingAlone DEF WorkerTxInv
<1>7. CASE T_Forward
  <2>1. /\ tx_pkts' = Append(tx_pkts, Head(pkts)) /\ freed' = freed
        /\ spi_pkts_forwarded' = spi_pkts_forwarded + 1
        /\ spi_pkts_dropped' = spi_pkts_dropped
    BY <1>7 DEF T_Forward
  <2>2. tx_pkts' \in Seq(Nat) /\ Len(tx_pkts') = Len(tx_pkts) + 1
    BY <1>2, <2>1, SeqTypes, AppendProperties
  <2>3. Len(pkts') + Len(tx_pkts') <= BURST_SIZE /\ Len(tx_pkts') <= BURST_SIZE
    BY <1>1, <1>2, <1>4, <2>2, LenTypes, Sizes
  <2>4. spi_pkts_forwarded' \in Nat
    BY <2>1, CountTypes
  <2>5. TypeOK'
    BY <1>1, <1>2, <1>5, <2>1, <2>2, <2>3, <2>4 DEF TypeOK
  <2>6. TxInv'
    BY <1>1, <1>3, <2>3 DEF TxInv
  <2>7. spi_pkts_dropped' + spi_pkts_forwarded' + Len(pkts')
          = spi_pkts_dropped + spi_pkts_forwarded + Len(pkts)
    BY <1>1, <1>2, <2>1, CountTypes
  <2>8. stat_tx_pkts + tx_drop_pkts + Len(tx_pkts') + Len(pending) - sent_total
          = (stat_tx_pkts + tx_drop_pkts + Len(tx_pkts) + Len(pending) - sent_total) + 1
    BY <2>2, LenTypes, CountTypes
  <2>9. CountersAddUp'
    BY <1>1, <2>1, <2>7, <2>8 DEF CountersAddUp
  <2> QED
    BY <1>1, <2>5, <2>6, <2>9, RingAlone DEF WorkerTxInv
<1> QED
  BY <1>6, <1>7

\* The whole burst fits into the empty pending buffer.
LEMMA Staged ==
    ASSUME WorkerTxInv, T_Stage
    PROVE  /\ pending' = tx_pkts /\ freed' = freed /\ tx_drop_pkts' = tx_drop_pkts
           /\ tx_pkts' = <<>> /\ sent_total' = 0
           /\ pkts = <<>> /\ pending = <<>> /\ sent_total = 0 /\ Len(<<>>) = 0
<1> USE Parts
<1>1. pkts = <<>> /\ pending = <<>> /\ sent_total = 0
  BY DEF TxInv, T_Stage
<1>2. Len(<<>>) = 0 /\ <<>> \in Seq(Nat)
  BY EmptySeq
<1>3. Len(tx_pkts) <= BURST_SIZE
  BY DEF TypeOK
<1>4. Least(Len(tx_pkts), BURST_SIZE - Len(pending)) = Len(tx_pkts)
  BY <1>1, <1>2, <1>3, LenTypes, Sizes DEF Least
<1> DEFINE rest == SubSeq(tx_pkts, Len(tx_pkts) + 1, Len(tx_pkts))
<1>5. /\ pending' = pending \o SubSeq(tx_pkts, 1, Len(tx_pkts))
      /\ freed' = freed \cup Elements(rest)
      /\ tx_drop_pkts' = tx_drop_pkts + Len(rest)
      /\ tx_pkts' = <<>> /\ sent_total' = 0
  BY <1>4 DEF T_Stage, CallFlush
<1>6. SubSeq(tx_pkts, 1, Len(tx_pkts)) = tx_pkts
  BY SeqTypes, SubSeqFull
<1>7. rest = <<>>
  <2>1. Len(tx_pkts) \in Int /\ Len(tx_pkts) + 1 \in Int /\ Len(tx_pkts) < Len(tx_pkts) + 1
    BY LenTypes
  <2> QED
    BY <2>1, SubSeqEmpty
<1> HIDE DEF rest
<1>8. Elements(<<>>) = {}
  <2>1. DOMAIN <<>> = {}
    BY <1>2, Numbers
  <2> QED
    BY <2>1 DEF Elements
<1>9. pending' = tx_pkts
  BY <1>1, <1>5, <1>6, SeqTypes, ConcatEmptySeq
<1>10. freed' = freed
  BY <1>5, <1>7, <1>8
<1>11. tx_drop_pkts' = tx_drop_pkts
  BY <1>2, <1>5, <1>7, CountTypes
<1> QED
  BY <1>1, <1>2, <1>5, <1>9, <1>10, <1>11

\* So the burst moves to pending.
LEMMA StageKeeps ==
    ASSUME WorkerTxInv, T_Stage
    PROVE  WorkerTxInv'
<1> USE Parts
<1>1. /\ UNCHANGED <<ring, enqueued, force_quit, drains, pkts, sent>>
      /\ UNCHANGED <<worker_rx_pkts, spi_pkts_dropped, spi_pkts_forwarded, stat_tx_pkts>>
      /\ wpc = "stage" /\ wpc' = "flush" /\ flushes' = "stage" /\ retries' = 0
  BY DEF T_Stage, CallFlush
<1>2. /\ pending' = tx_pkts /\ freed' = freed /\ tx_drop_pkts' = tx_drop_pkts
      /\ tx_pkts' = <<>> /\ sent_total' = 0
      /\ pkts = <<>> /\ pending = <<>> /\ sent_total = 0 /\ Len(<<>>) = 0
  BY Staged
<1>3. <<>> \in Seq(Nat) /\ Len(<<>>) <= BURST_SIZE
  BY <1>2, EmptySeq, Sizes
<1>4. sent_total' \in 0 .. Len(pending')
  BY <1>2, LenTypes, Within
<1>5. retries' \in 0 .. TX_RETRY_BUDGET /\ retries' < TX_RETRY_BUDGET
  BY <1>1, Sizes, Within
<1>6. TypeOK'
  BY <1>1, <1>2, <1>3, <1>4, <1>5 DEF TypeOK
<1>7. Len(pkts') + Len(tx_pkts') <= BURST_SIZE
  BY <1>1, <1>2, Sizes
<1>8. TxInv'
  BY <1>1, <1>2, <1>5, <1>7 DEF TxInv
<1>9. stat_tx_pkts + tx_drop_pkts + 0 + Len(tx_pkts) - 0
        = stat_tx_pkts + tx_drop_pkts + Len(tx_pkts) + 0 - 0
  BY LenTypes, CountTypes
<1>10. CountersAddUp'
  BY <1>1, <1>2, <1>9 DEF CountersAddUp
<1> QED
  BY <1>1, <1>6, <1>8, <1>10, RingAlone DEF WorkerTxInv

\* The steps that move no packet.
LEMMA LoopKeeps ==
    ASSUME WorkerTxInv, T_Top \/ T_EndBurst \/ T_Drain
    PROVE  WorkerTxInv'
<1> USE Parts DEF flushVars, packetVars, statVars, CallFlush
<1>1. UNCHANGED <<ring, enqueued, force_quit, pkts, tx_pkts, pending, sent, freed>>
  BY DEF T_Top, T_EndBurst, T_Drain
<1>2. UNCHANGED statVars
  BY DEF T_Top, T_EndBurst, T_Drain
<1>3. sent_total' = 0 /\ sent_total = 0
  BY DEF T_Top, T_EndBurst, T_Drain, TxInv
<1>4. retries' \in 0 .. TX_RETRY_BUDGET /\ (wpc' = "flush" => retries' < TX_RETRY_BUDGET)
  <2>1. retries' = 0 \/ (wpc' # "flush" /\ retries' = retries)
    BY DEF T_Top, T_EndBurst, T_Drain
  <2> QED
    BY <2>1, Sizes, Within DEF TypeOK
<1>5. drains' \in 0 .. TX_RETRY_BUDGET
  <2>1. drains' = drains \/ (drains < TX_RETRY_BUDGET /\ drains' = drains + 1)
    BY DEF T_Top, T_EndBurst, T_Drain
  <2> QED
    BY <2>1, LoopTypes, Sizes
<1>6. /\ wpc' \in {"flush", "dequeue", "stage", "top", "drain"}
      /\ flushes' \in {"top", "stage", "drain"}
      /\ pkts' = <<>>
      /\ wpc' # "stage" => tx_pkts' = <<>>
      /\ wpc' \in {"dequeue", "stage"} => pending' = <<>>
  BY DEF T_Top, T_EndBurst, T_Drain, TxInv, TypeOK
<1>7. sent_total' \in 0 .. Len(pending')
  BY <1>1, <1>3, LenTypes, Within
<1>8. TypeOK'
  BY <1>1, <1>2, <1>4, <1>5, <1>6, <1>7 DEF TypeOK
<1>9. TxInv'
  BY <1>1, <1>3, <1>4, <1>6 DEF TxInv
<1>10. CountersAddUp'
  BY <1>1, <1>2, <1>3 DEF CountersAddUp
<1> QED
  BY <1>1, <1>2, <1>8, <1>9, <1>10, RingAlone DEF WorkerTxInv

\* What is left at the exit is dropped.
LEMMA ExitKeeps ==
    ASSUME WorkerTxInv, T_Exit
    PROVE  WorkerTxInv'
<1> USE Parts DEF flushVars
<1>1. /\ UNCHANGED <<ring, enqueued, force_quit, flushes, sent_total, retries, drains, pkts,
                     tx_pkts, sent>>
      /\ UNCHANGED <<worker_rx_pkts, spi_pkts_dropped, spi_pkts_forwarded, stat_tx_pkts>>
      /\ wpc = "drain" /\ wpc' = "done" /\ pending' = <<>>
      /\ tx_drop_pkts' = tx_drop_pkts + Len(pending)
      /\ freed' = freed \cup Elements(pending)
  BY DEF T_Exit
<1>2. sent_total = 0
  BY <1>1 DEF TxInv
<1>3. Len(<<>>) = 0 /\ <<>> \in Seq(Nat) /\ Len(<<>>) <= BURST_SIZE
  BY EmptySeq, Sizes
<1>4. tx_drop_pkts' \in Nat
  BY <1>1, LenTypes, CountTypes, Within
<1>5. freed' \subseteq Nat
  BY <1>1, SeqTypes, Numbers DEF TypeOK
<1>6. sent_total' \in 0 .. Len(pending')
  BY <1>1, <1>2, <1>3, Within
<1>7. TypeOK'
  BY <1>1, <1>3, <1>4, <1>5, <1>6 DEF TypeOK
<1>8. TxInv'
  BY <1>1, <1>2 DEF TxInv
<1>9. stat_tx_pkts + (tx_drop_pkts + Len(pending)) + Len(tx_pkts) + 0 - 0
        = stat_tx_pkts + tx_drop_pkts + Len(tx_pkts) + Len(pending) - 0
  BY LenTypes, CountTypes
<1>10. CountersAddUp'
  BY <1>1, <1>2, <1>3, <1>9 DEF CountersAddUp
<1> QED
  BY <1>1, <1>7, <1>8, <1>10, RingAlone DEF WorkerTxInv

\* The invariant is inductive ...
LEMMA StepKeeps ==
    ASSUME WorkerTxInv, [Next]_vars
    PROVE  WorkerTxInv'
<1>1. CASE Next
  BY <1>1, EnqueueKeeps, QuitKeeps, SendKeeps, WaitKeeps, ReturnKeeps, DequeueKeeps,
     ClassifyKeeps, StageKeeps, LoopKeeps, ExitKeeps DEF Next, WorkerNext
<1>2. CASE UNCHANGED vars
  BY <1>2 DEF vars, flushVars, packetVars, statVars, WorkerTxInv, TypeOK, TxInv,
              CountersAddUp, RingInv
<1> QED
  BY <1>1, <1>2

\* ... and holds in every reachable state.
LEMMA Lasts == Spec => []WorkerTxInv
<1>1. WorkerTxInv /\ [Next]_vars => WorkerTxInv'
  BY StepKeeps
<1> QED
  BY <1>1, InitInv, PTL DEF Spec

\* Every reachable state of a worker's packets is well typed; the buffers hold no
\* more than BURST_SIZE packets.
THEOREM TxTypes == Spec => []TypeOK
<1>1. WorkerTxInv => TypeOK
  BY DEF WorkerTxInv
<1> QED
  BY <1>1, Lasts, PTL

\* The overflow branch of worker_stage_tx_burst (worker.c:85-89) is never taken.
THEOREM NothingOverflows == Spec => []StagingKeepsAll
<1>1. WorkerTxInv => StagingKeepsAll
  BY DEF WorkerTxInv, TxInv, StagingKeepsAll
<1> QED
  BY <1>1, Lasts, PTL

\* The counters of a worker account for every packet that it took.
THEOREM NothingUncounted == Spec => []CountersAddUp
<1>1. WorkerTxInv => CountersAddUp
  BY DEF WorkerTxInv
<1> QED
  BY <1>1, Lasts, PTL

-----------------------------------------------------------------------------
(* The worker implements PacketCustody.                                    *)

\* What the worker holds, from the three places where it keeps packets.
Held(pe, st, tx, pk) == SubSeq(pe, st + 1, Len(pe)) \o tx \o pk

\* Outside a burst it is what is left of pending.
LEMMA HeldPending ==
    ASSUME NEW pe \in Seq(Nat), NEW st \in Nat, st <= Len(pe)
    PROVE  /\ Held(pe, st, <<>>, <<>>) = SubSeq(pe, st + 1, Len(pe))
           /\ SubSeq(pe, st + 1, Len(pe)) \in Seq(Nat)
           /\ Len(SubSeq(pe, st + 1, Len(pe))) = Len(pe) - st
           /\ st = 0 => Held(pe, st, <<>>, <<>>) = pe
<1>1. Len(pe) \in Nat
  BY LenProperties
<1>2. st + 1 \in Nat /\ 1 <= st + 1 /\ st + 1 <= Len(pe) + 1
  BY <1>1
<1>3. /\ SubSeq(pe, st + 1, Len(pe)) \in Seq(Nat)
      /\ Len(SubSeq(pe, st + 1, Len(pe))) = Len(pe) - (st + 1) + 1
  BY <1>1, <1>2, Part
<1>4. Held(pe, st, <<>>, <<>>) = SubSeq(pe, st + 1, Len(pe))
  BY <1>3, ConcatEmptySeq DEF Held
<1>5. Len(pe) - (st + 1) + 1 = Len(pe) - st
  BY <1>1
<1>6. ASSUME st = 0
      PROVE  SubSeq(pe, st + 1, Len(pe)) = pe
  <2>1. st + 1 = 1
    BY <1>6
  <2> QED
    BY <2>1, SubSeqFull
<1> QED
  BY <1>3, <1>4, <1>5, <1>6

\* In a burst pending is empty: it is the forwarded packets and those to come.
LEMMA HeldBurst ==
    ASSUME NEW tx \in Seq(Nat), NEW pk \in Seq(Nat)
    PROVE  Held(<<>>, 0, tx, pk) = tx \o pk
<1>1. <<>> \in Seq(Nat) /\ Len(<<>>) = 0
  BY EmptySeq
<1>2. SubSeq(<<>>, 0 + 1, Len(<<>>)) = <<>>
  BY <1>1, SubSeqEmpty
<1> QED
  BY <1>2, ConcatEmptySeq DEF Held

\* A part of what is held is a part of pending.
LEMMA PartOfRest ==
    ASSUME NEW pe \in Seq(Nat), NEW st \in Nat, NEW n \in Nat, n >= 1, st + n <= Len(pe)
    PROVE  LET held == SubSeq(pe, st + 1, Len(pe)) IN
             /\ SubSeq(held, 1, n) = SubSeq(pe, st + 1, st + n)
             /\ SubSeq(held, n + 1, Len(held)) = SubSeq(pe, st + n + 1, Len(pe))
             /\ n <= Len(held)
<1> DEFINE held == SubSeq(pe, st + 1, Len(pe))
<1>1. Len(pe) \in Nat
  BY LenProperties
<1>2. /\ held \in Seq(Nat) /\ Len(held) = Len(pe) - st
      /\ \A i \in 1 .. Len(pe) - st : held[i] = pe[st + i]
  <2>1. st + 1 \in Nat /\ 1 <= st + 1 /\ st + 1 <= Len(pe) + 1
    BY <1>1
  <2>2. /\ held \in Seq(Nat) /\ Len(held) = Len(pe) - (st + 1) + 1
        /\ \A i \in 1 .. Len(pe) - (st + 1) + 1 : held[i] = pe[(st + 1) + i - 1]
    BY <1>1, <2>1, Part
  <2>3. /\ Len(pe) - (st + 1) + 1 = Len(pe) - st
        /\ \A i \in 1 .. Len(pe) - st : (st + 1) + i - 1 = st + i
    BY <1>1
  <2> QED
    BY <2>2, <2>3
<1> HIDE DEF held
<1>3. Len(held) \in Nat /\ n <= Len(held) /\ n + 1 <= Len(held) + 1 /\ n + 1 \in Nat
  BY <1>1, <1>2
<1>4. SubSeq(held, 1, n) = SubSeq(pe, st + 1, st + n)
  <2>1. /\ SubSeq(held, 1, n) \in Seq(Nat) /\ Len(SubSeq(held, 1, n)) = n
        /\ \A i \in 1 .. n : SubSeq(held, 1, n)[i] = held[i]
    <3>1. /\ SubSeq(held, 1, n) \in Seq(Nat) /\ Len(SubSeq(held, 1, n)) = n - 1 + 1
          /\ \A i \in 1 .. n - 1 + 1 : SubSeq(held, 1, n)[i] = held[1 + i - 1]
      BY <1>2, <1>3, Part
    <3>2. n - 1 + 1 = n /\ \A i \in 1 .. n : 1 + i - 1 = i
      OBVIOUS
    <3> QED
      BY <3>1, <3>2
  <2>2. /\ SubSeq(pe, st + 1, st + n) \in Seq(Nat)
        /\ Len(SubSeq(pe, st + 1, st + n)) = n
        /\ \A i \in 1 .. n : SubSeq(pe, st + 1, st + n)[i] = pe[st + i]
    <3>1. /\ st + 1 \in Nat /\ st + n \in Nat /\ 1 <= st + 1
          /\ st + 1 <= (st + n) + 1
      OBVIOUS
    <3>2. /\ SubSeq(pe, st + 1, st + n) \in Seq(Nat)
          /\ Len(SubSeq(pe, st + 1, st + n)) = (st + n) - (st + 1) + 1
          /\ \A i \in 1 .. (st + n) - (st + 1) + 1 :
                SubSeq(pe, st + 1, st + n)[i] = pe[(st + 1) + i - 1]
      BY <3>1, Part
    <3>3. (st + n) - (st + 1) + 1 = n /\ \A i \in 1 .. n : (st + 1) + i - 1 = st + i
      OBVIOUS
    <3> QED
      BY <3>2, <3>3
  <2>3. \A i \in 1 .. n : i \in 1 .. Len(pe) - st
    BY <1>1
  <2> QED
    BY <1>2, <2>1, <2>2, <2>3, SeqEqual
<1>5. SubSeq(held, n + 1, Len(held)) = SubSeq(pe, st + n + 1, Len(pe))
  <2>0. PICK m \in Nat : m = Len(held) - n
    <3>1. Len(held) - n \in Nat
      BY <1>3
    <3> QED
      BY <3>1
  <2>1. /\ SubSeq(held, n + 1, Len(held)) \in Seq(Nat)
        /\ Len(SubSeq(held, n + 1, Len(held))) = m
        /\ \A i \in 1 .. m : SubSeq(held, n + 1, Len(held))[i] = held[n + i]
    <3>1. /\ SubSeq(held, n + 1, Len(held)) \in Seq(Nat)
          /\ Len(SubSeq(held, n + 1, Len(held))) = Len(held) - (n + 1) + 1
          /\ \A i \in 1 .. Len(held) - (n + 1) + 1 :
                SubSeq(held, n + 1, Len(held))[i] = held[(n + 1) + i - 1]
      <4>1. held \in Seq(Nat) /\ 1 <= n + 1 /\ Len(held) <= Len(held)
        BY <1>2, <1>3
      <4> QED
        BY <1>3, <4>1, Part
    <3>2. Len(held) - (n + 1) + 1 = m /\ \A i \in 1 .. m : (n + 1) + i - 1 = n + i
      BY <1>3, <2>0
    <3> QED
      BY <3>1, <3>2
  <2>2. /\ SubSeq(pe, st + n + 1, Len(pe)) \in Seq(Nat)
        /\ Len(SubSeq(pe, st + n + 1, Len(pe))) = m
        /\ \A i \in 1 .. m : SubSeq(pe, st + n + 1, Len(pe))[i] = pe[st + (n + i)]
    <3>1. /\ st + n + 1 \in Nat /\ 1 <= st + n + 1 /\ st + n + 1 <= Len(pe) + 1
      BY <1>1
    <3>2. /\ SubSeq(pe, st + n + 1, Len(pe)) \in Seq(Nat)
          /\ Len(SubSeq(pe, st + n + 1, Len(pe))) = Len(pe) - (st + n + 1) + 1
          /\ \A i \in 1 .. Len(pe) - (st + n + 1) + 1 :
                SubSeq(pe, st + n + 1, Len(pe))[i] = pe[(st + n + 1) + i - 1]
      BY <1>1, <3>1, Part
    <3>3. /\ Len(pe) - (st + n + 1) + 1 = m
          /\ \A i \in 1 .. m : (st + n + 1) + i - 1 = st + (n + i)
      BY <1>1, <1>2, <2>0
    <3> QED
      BY <3>2, <3>3
  <2>3. \A i \in 1 .. m : n + i \in 1 .. Len(pe) - st
    BY <1>1, <1>2, <2>0
  <2>4. \A i \in 1 .. m : SubSeq(held, n + 1, Len(held))[i] = pe[st + (n + i)]
    BY <1>2, <2>1, <2>3
  <2> QED
    BY <2>1, <2>2, <2>4, SeqEqual
<1> QED
  BY <1>3, <1>4, <1>5 DEF held

\* The first packet of the burst leaves it, or goes over to the forwarded ones.
LEMMA HeadOfBurst ==
    ASSUME NEW tx \in Seq(Nat), NEW pk \in Seq(Nat), pk # <<>>
    PROVE  /\ Append(tx, Head(pk)) \o Tail(pk) = tx \o pk
           /\ Len(tx) + 1 \in DOMAIN (tx \o pk)
           /\ (tx \o pk)[Len(tx) + 1] = Head(pk)
           /\ SubSeq(tx \o pk, 1, (Len(tx) + 1) - 1)
                \o SubSeq(tx \o pk, (Len(tx) + 1) + 1, Len(tx \o pk)) = tx \o Tail(pk)
<1>1. Len(tx) \in Nat /\ Len(pk) \in Nat /\ Len(pk) >= 1
  BY LenProperties, EmptySeq
<1>2. Head(pk) \in Nat /\ Tail(pk) \in Seq(Nat) /\ <<Head(pk)>> \in Seq(Nat)
  BY HeadTailProperties
<1>3. Tail(pk) = SubSeq(pk, 2, Len(pk))
  BY TailIsSubSeq
<1>4. 1 \in 1 .. Len(pk) /\ Len(pk) \in 1 .. Len(pk)
  BY <1>1
<1>5. SubSeq(pk, 1, Len(pk)) = pk
  BY SubSeqFull
<1>6. Head(pk) = pk[1]
  BY <1>4, <1>5, HeadTailOfSubSeq
<1>7. pk = <<Head(pk)>> \o Tail(pk)
  BY <1>3, <1>4, <1>5, <1>6, SubSeqRecursiveFirst
<1>8. Append(tx, Head(pk)) \o Tail(pk) = tx \o pk
  <2>1. Append(tx, Head(pk)) = tx \o <<Head(pk)>>
    BY <1>2, AppendIsConcat
  <2>2. (tx \o <<Head(pk)>>) \o Tail(pk) = tx \o (<<Head(pk)>> \o Tail(pk))
    BY SMTT(30), <1>2, ConcatAssociative
  <2> QED
    BY <1>7, <2>1, <2>2
<1>9. /\ tx \o pk \in Seq(Nat) /\ Len(tx \o pk) = Len(tx) + Len(pk)
      /\ \A i \in 1 .. Len(tx) + Len(pk) :
            (tx \o pk)[i] = IF i <= Len(tx) THEN tx[i] ELSE pk[i - Len(tx)]
  BY ConcatProperties
<1>10. Len(tx) + 1 \in 1 .. Len(tx) + Len(pk) /\ ~(Len(tx) + 1 <= Len(tx))
       /\ (Len(tx) + 1) - Len(tx) = 1
  BY <1>1
<1>11. Len(tx) + 1 \in DOMAIN (tx \o pk)
  BY <1>9, <1>10, LenProperties
<1>12. (tx \o pk)[Len(tx) + 1] = Head(pk)
  BY <1>6, <1>9, <1>10
<1>13. SubSeq(tx \o pk, 1, Len(tx)) = tx
  <2>1. CASE Len(tx) = 0
    <3>1. tx = <<>>
      BY <2>1, Numbers
    <3> QED
      BY <2>1, <3>1, SubSeqEmpty
  <2>2. CASE Len(tx) # 0
    <3>1. 1 \in 1 .. Len(tx) /\ Len(tx) \in 1 .. Len(tx)
      BY <1>1, <2>2
    <3>2. SubSeq(tx \o pk, 1, Len(tx)) = SubSeq(tx, 1, Len(tx))
      BY <3>1, SubSeqOfConcat1
    <3>3. SubSeq(tx, 1, Len(tx)) = tx
      BY SubSeqFull
    <3> QED
      BY <3>2, <3>3
  <2> QED
    BY <2>1, <2>2
<1>14. SubSeq(tx \o pk, Len(tx) + 2, Len(tx) + Len(pk)) = Tail(pk)
  <2>1. CASE Len(pk) = 1
    <3>1. Len(tx) + 2 \in Int /\ Len(tx) + Len(pk) \in Int
          /\ Len(tx) + Len(pk) < Len(tx) + 2
      BY <1>1, <2>1
    <3>2. SubSeq(pk, 2, Len(pk)) = <<>>
      BY <2>1, SubSeqEmpty
    <3> QED
      BY <1>3, <3>1, <3>2, SubSeqEmpty
  <2>2. CASE Len(pk) # 1
    <3>1. /\ Len(tx) + 2 \in Len(tx) + 1 .. Len(tx) + Len(pk)
          /\ Len(tx) + Len(pk) \in Len(tx) + 1 .. Len(tx) + Len(pk)
          /\ (Len(tx) + 2) - Len(tx) = 2 /\ (Len(tx) + Len(pk)) - Len(tx) = Len(pk)
      <4>1. PICK m \in Nat, n \in Nat : m = Len(tx) /\ n = Len(pk)
        BY <1>1
      <4>2. n >= 2
        BY <1>1, <2>2, <4>1
      <4>3. /\ m + 2 \in m + 1 .. m + n /\ m + n \in m + 1 .. m + n
            /\ (m + 2) - m = 2 /\ (m + n) - m = n
        BY <4>2
      <4> QED
        BY <4>1, <4>3
    <3>2. SubSeq(tx \o pk, Len(tx) + 2, Len(tx) + Len(pk))
            = SubSeq(pk, (Len(tx) + 2) - Len(tx), (Len(tx) + Len(pk)) - Len(tx))
      BY <3>1, SubSeqOfConcat2
    <3> QED
      BY <1>3, <3>1, <3>2
  <2> QED
    BY <2>1, <2>2
<1>15. (Len(tx) + 1) - 1 = Len(tx) /\ (Len(tx) + 1) + 1 = Len(tx) + 2
  BY <1>1
<1> QED
  BY <1>8, <1>9, <1>11, <1>12, <1>13, <1>14, <1>15

\* What the worker holds in each state.
LEMMA HeldNow ==
    ASSUME WorkerTxInv
    PROVE  /\ wpc \notin {"classify", "stage"} =>
                tx_pkts = <<>> /\ pkts = <<>>
           /\ wpc \in {"dequeue", "classify", "stage"} =>
                pending = <<>> /\ sent_total = 0
           /\ wpc \notin {"flush", "flushed"} => sent_total = 0
           /\ wpc = "stage" => pkts = <<>>
  BY DEF WorkerTxInv, TxInv

\* The mapped variables.
HeldPkts == Held(pending, sent_total, tx_pkts, pkts)

\* A step that the abstract worker does not see.
Unseen == UNCHANGED <<worker_rx_pkts, HeldPkts, sent, freed>>

\* The steps that move no packet.
LEMMA OthersUnseen ==
    ASSUME WorkerTxInv,
           \/ Enqueue \/ Quit \/ F_Blocked \/ F_AllSent
           \/ T_Top \/ T_EndBurst \/ T_Drain
    PROVE  Unseen
<1>1. UNCHANGED <<worker_rx_pkts, tx_pkts, pkts, pending, sent, freed>>
  BY DEF Enqueue, Quit, F_Blocked, F_AllSent, T_Top, T_EndBurst, T_Drain, flushVars,
         packetVars, statVars
<1>2. sent_total' = sent_total
  BY HeldNow DEF Enqueue, Quit, F_Blocked, F_AllSent, T_Top, T_EndBurst, T_Drain,
                 flushVars, CallFlush
<1> QED
  BY <1>1, <1>2 DEF Unseen, HeldPkts, Held

\* The memmove after a flush.
LEMMA ReturnUnseen ==
    ASSUME WorkerTxInv, F_Return
    PROVE  Unseen
<1> USE Parts
<1>1. /\ UNCHANGED <<worker_rx_pkts, tx_pkts, pkts, sent, freed>>
      /\ sent_total' = 0 /\ wpc = "flushed"
      /\ pending' = SubSeq(pending, sent_total + 1, Len(pending))
  BY DEF F_Return, statVars
<1>2. tx_pkts = <<>> /\ pkts = <<>>
  BY <1>1, HeldNow
<1>3. pending \in Seq(Nat) /\ sent_total \in Nat /\ sent_total <= Len(pending)
  BY SeqTypes, LenTypes
<1>4. HeldPkts = pending' /\ pending' \in Seq(Nat)
  BY <1>1, <1>2, <1>3, HeldPending DEF HeldPkts
<1>5. Len(pending') \in Nat
  BY <1>4, LenProperties
<1>6. Held(pending', 0, <<>>, <<>>) = pending'
  BY <1>4, <1>5, HeldPending
<1> QED
  BY <1>1, <1>2, <1>4, <1>6 DEF Unseen, HeldPkts

\* A forwarded packet is still held, in its place.
LEMMA ForwardUnseen ==
    ASSUME WorkerTxInv, T_Forward
    PROVE  Unseen
<1> USE Parts
<1>1. /\ UNCHANGED <<worker_rx_pkts, pending, sent_total, sent, freed>>
      /\ wpc = "classify" /\ pkts # <<>>
      /\ tx_pkts' = Append(tx_pkts, Head(pkts)) /\ pkts' = Tail(pkts)
  BY DEF T_Forward, flushVars
<1>2. pending = <<>> /\ sent_total = 0
  BY <1>1, HeldNow
<1>3. tx_pkts \in Seq(Nat) /\ pkts \in Seq(Nat)
  BY SeqTypes
<1>4. tx_pkts' \in Seq(Nat) /\ pkts' \in Seq(Nat)
  BY <1>1, <1>3, HeadTailProperties, AppendProperties
<1>5. HeldPkts = tx_pkts \o pkts
  BY <1>2, <1>3, HeldBurst DEF HeldPkts
<1>6. HeldPkts' = tx_pkts' \o pkts'
  BY <1>1, <1>2, <1>4, HeldBurst DEF HeldPkts
<1>7. tx_pkts' \o pkts' = tx_pkts \o pkts
  BY <1>1, <1>3, HeadOfBurst
<1> QED
  BY <1>1, <1>5, <1>6, <1>7 DEF Unseen

\* Staging keeps the packets and their order.
LEMMA StageUnseen ==
    ASSUME WorkerTxInv, T_Stage
    PROVE  Unseen
<1> USE Parts
<1>1. /\ pending' = tx_pkts /\ freed' = freed /\ tx_pkts' = <<>> /\ sent_total' = 0
      /\ pkts = <<>> /\ pending = <<>> /\ sent_total = 0
  BY Staged
<1>2. UNCHANGED <<worker_rx_pkts, sent, pkts>>
  BY DEF T_Stage
<1>3. tx_pkts \in Seq(Nat) /\ <<>> \in Seq(Nat) /\ Len(tx_pkts) \in Nat
  BY SeqTypes, EmptySeq, LenTypes
<1>4. HeldPkts = tx_pkts
  BY <1>1, <1>3, HeldBurst, ConcatEmptySeq DEF HeldPkts
<1>5. Held(tx_pkts, 0, <<>>, <<>>) = tx_pkts
  BY <1>3, HeldPending
<1> QED
  BY <1>1, <1>2, <1>4, <1>5 DEF Unseen, HeldPkts

\* A burst to the NIC takes packets from the front.
LEMMA SendTransmits ==
    ASSUME WorkerTxInv, F_Send
    PROVE  \E n \in 1 .. Len(HeldPkts) :
              /\ sent' = sent \o SubSeq(HeldPkts, 1, n)
              /\ HeldPkts' = SubSeq(HeldPkts, n + 1, Len(HeldPkts))
              /\ UNCHANGED <<worker_rx_pkts, freed>>
<1> USE Parts
<1>1. PICK n \in 1 .. Len(pending) - sent_total :
         /\ sent' = sent \o SubSeq(pending, sent_total + 1, sent_total + n)
         /\ sent_total' = sent_total + n
  BY DEF F_Send
<1>2. /\ UNCHANGED <<worker_rx_pkts, tx_pkts, pkts, pending, freed>>
      /\ wpc = "flush"
  BY DEF F_Send, packetVars
<1>3. /\ n \in Nat /\ n >= 1 /\ sent_total + n <= Len(pending) /\ sent_total + n \in Nat
      /\ sent_total \in Nat /\ sent_total <= Len(pending) /\ Len(pending) \in Nat
  BY LenTypes
<1>4. tx_pkts = <<>> /\ pkts = <<>> /\ pending \in Seq(Nat)
  BY <1>2, HeldNow, SeqTypes
<1>5. HeldPkts = SubSeq(pending, sent_total + 1, Len(pending))
  BY <1>3, <1>4, HeldPending DEF HeldPkts
<1>6. HeldPkts' = SubSeq(pending, sent_total + n + 1, Len(pending))
  <2>1. HeldPkts' = Held(pending, sent_total + n, <<>>, <<>>)
    BY <1>1, <1>2, <1>4 DEF HeldPkts
  <2> QED
    BY <1>3, <1>4, <2>1, HeldPending
<1>7. /\ SubSeq(HeldPkts, 1, n) = SubSeq(pending, sent_total + 1, sent_total + n)
      /\ SubSeq(HeldPkts, n + 1, Len(HeldPkts))
           = SubSeq(pending, sent_total + n + 1, Len(pending))
      /\ n <= Len(HeldPkts)
  BY <1>3, <1>4, <1>5, PartOfRest
<1>8. Len(HeldPkts) \in Nat
  BY <1>3, <1>4, <1>5, HeldPending
<1>9. n \in 1 .. Len(HeldPkts)
  BY <1>3, <1>7, <1>8
<1> QED
  BY <1>1, <1>2, <1>6, <1>7, <1>9

\* A dequeue takes the next packets of the ring, or none.
LEMMA DequeueTakes ==
    ASSUME WorkerTxInv, T_Dequeue
    PROVE  \/ Unseen
           \/ /\ worker_rx_pkts' \in Nat /\ worker_rx_pkts' > worker_rx_pkts
              /\ HeldPkts' = HeldPkts \o [i \in 1 .. worker_rx_pkts' - worker_rx_pkts |->
                                            worker_rx_pkts + i]
              /\ UNCHANGED <<sent, freed>>
<1> USE Parts
<1>1. PICK n \in Nat :
         /\ n <= Len(ring)
         /\ pkts' = SubSeq(ring, 1, n)
         /\ worker_rx_pkts' = worker_rx_pkts + n
  <2>1. /\ Least(Len(ring), BURST_SIZE) \in Nat
        /\ Least(Len(ring), BURST_SIZE) <= Len(ring)
    BY LenTypes, Sizes DEF Least
  <2> QED
    BY <2>1 DEF T_Dequeue
<1>2. /\ UNCHANGED <<tx_pkts, pending, sent_total, sent, freed>>
      /\ wpc = "dequeue"
  BY DEF T_Dequeue, flushVars
<1>3. pkts = <<>> /\ tx_pkts = <<>> /\ pending = <<>> /\ sent_total = 0
  BY <1>2, HeldNow
<1>4. <<>> \in Seq(Nat) /\ ring \in Seq(Nat) /\ Len(ring) \in Nat
  BY EmptySeq, SeqTypes, LenTypes
<1>5. /\ pkts' \in Seq(Nat) /\ Len(pkts') = n
      /\ \A i \in 1 .. n : pkts'[i] = ring[i]
  <2>1. /\ pkts' \in Seq(Nat) /\ Len(pkts') = n - 1 + 1
        /\ \A i \in 1 .. n - 1 + 1 : pkts'[i] = ring[1 + i - 1]
    BY <1>1, <1>4, Part
  <2>2. n - 1 + 1 = n /\ \A i \in 1 .. n : 1 + i - 1 = i
    OBVIOUS
  <2> QED
    BY <2>1, <2>2
<1>6. HeldPkts = <<>>
  BY <1>3, <1>4, HeldBurst, ConcatEmptySeq DEF HeldPkts
<1>7. HeldPkts' = pkts'
  <2>1. HeldPkts' = Held(<<>>, 0, <<>>, pkts')
    BY <1>2, <1>3 DEF HeldPkts
  <2> QED
    BY <1>4, <1>5, <2>1, HeldBurst, ConcatEmptySeq
<1>8. CASE n = 0
  <2>1. pkts' = <<>>
    BY <1>5, <1>8, Numbers
  <2>2. worker_rx_pkts' = worker_rx_pkts
    BY <1>1, <1>8, CountTypes
  <2> QED
    BY <1>2, <1>6, <1>7, <2>1, <2>2 DEF Unseen
<1>9. CASE n # 0
  <2>1. /\ worker_rx_pkts' \in Nat /\ worker_rx_pkts' > worker_rx_pkts
        /\ worker_rx_pkts' - worker_rx_pkts = n
    BY <1>1, <1>9, CountTypes
  <2>2. pkts' = [i \in 1 .. n |-> worker_rx_pkts + i]
    <3>1. pkts' \in [1 .. n -> Nat]
      BY <1>5, LenProperties
    <3>2. \A i \in 1 .. n : i \in 1 .. Len(ring)
      BY <1>1, <1>4
    <3>3. \A i \in 1 .. n : pkts'[i] = worker_rx_pkts + i
      BY <1>5, <3>2 DEF RingInv
    <3> QED
      BY <3>1, <3>3
  <2>3. <<>> \o pkts' = pkts'
    BY <1>5, ConcatEmptySeq
  <2> QED
    BY <1>2, <1>6, <1>7, <2>1, <2>2, <2>3
<1> QED
  BY <1>8, <1>9

\* A dropped packet is one of those held.
LEMMA DropDiscards ==
    ASSUME WorkerTxInv, T_SpiDrop
    PROVE  \E i \in DOMAIN HeldPkts :
              /\ HeldPkts' = SubSeq(HeldPkts, 1, i - 1)
                               \o SubSeq(HeldPkts, i + 1, Len(HeldPkts))
              /\ freed' = freed \cup {HeldPkts[i]}
              /\ UNCHANGED <<worker_rx_pkts, sent>>
<1> USE Parts
<1>1. /\ UNCHANGED <<worker_rx_pkts, pending, tx_pkts, sent_total, sent>>
      /\ wpc = "classify" /\ pkts # <<>>
      /\ pkts' = Tail(pkts) /\ freed' = freed \cup {Head(pkts)}
  BY DEF T_SpiDrop, flushVars
<1>2. pending = <<>> /\ sent_total = 0
  BY <1>1, HeldNow
<1>3. tx_pkts \in Seq(Nat) /\ pkts \in Seq(Nat)
  BY SeqTypes
<1>4. pkts' \in Seq(Nat)
  BY <1>1, <1>3, HeadTailProperties
<1>5. HeldPkts = tx_pkts \o pkts
  BY <1>2, <1>3, HeldBurst DEF HeldPkts
<1>6. HeldPkts' = tx_pkts \o Tail(pkts)
  <2>1. HeldPkts' = Held(<<>>, 0, tx_pkts, pkts')
    BY <1>1, <1>2 DEF HeldPkts
  <2> QED
    BY <1>1, <1>3, <1>4, <2>1, HeldBurst
<1> HIDE Parts
<1>7. /\ Len(tx_pkts) + 1 \in DOMAIN HeldPkts
      /\ HeldPkts[Len(tx_pkts) + 1] = Head(pkts)
      /\ SubSeq(HeldPkts, 1, (Len(tx_pkts) + 1) - 1)
           \o SubSeq(HeldPkts, (Len(tx_pkts) + 1) + 1, Len(HeldPkts))
         = tx_pkts \o Tail(pkts)
  BY <1>1, <1>3, <1>5, HeadOfBurst
<1> QED
  BY <1>1, <1>6, <1>7

\* At the exit everything that is held is freed.
LEMMA ExitAbandons ==
    ASSUME WorkerTxInv, T_Exit
    PROVE  \/ Unseen
           \/ /\ HeldPkts # <<>>
              /\ freed' = freed \cup {HeldPkts[i] : i \in DOMAIN HeldPkts}
              /\ HeldPkts' = <<>>
              /\ UNCHANGED <<worker_rx_pkts, sent>>
<1> USE Parts
<1>1. /\ UNCHANGED <<worker_rx_pkts, tx_pkts, pkts, sent_total, sent>>
      /\ wpc = "drain" /\ pending' = <<>>
      /\ freed' = freed \cup Elements(pending)
  BY DEF T_Exit, flushVars
<1>2. tx_pkts = <<>> /\ pkts = <<>> /\ sent_total = 0
  BY <1>1, HeldNow
<1>3. pending \in Seq(Nat) /\ <<>> \in Seq(Nat) /\ Len(pending) \in Nat /\ Len(<<>>) = 0
  BY SeqTypes, EmptySeq, LenTypes
<1>4. HeldPkts = pending
  BY <1>2, <1>3, HeldPending DEF HeldPkts
<1>5. HeldPkts' = <<>>
  <2>1. HeldPkts' = Held(<<>>, 0, <<>>, <<>>)
    BY <1>1, <1>2 DEF HeldPkts
  <2> QED
    BY <1>3, <2>1, HeldBurst, ConcatEmptySeq
<1>6. CASE pending = <<>>
  <2>1. DOMAIN <<>> = {}
    BY <1>3, Numbers
  <2>2. freed' = freed
    BY <1>1, <1>6, <2>1 DEF Elements
  <2> QED
    BY <1>1, <1>4, <1>5, <1>6, <2>2 DEF Unseen
<1>7. CASE pending # <<>>
  BY <1>1, <1>4, <1>5, <1>7 DEF Elements
<1> QED
  BY <1>6, <1>7

\* Through retries, partial bursts, the memmove of pending (worker.c:56-66) and the
\* drain, a worker sends its packets in the order in which they came, and sends or
\* frees each exactly once.
THEOREM CustodyKept == Spec => KeepsCustody
<1>1. Init => Custody!Init
  <2> SUFFICES ASSUME Init
               PROVE  Custody!Init
    OBVIOUS
  <2>1. <<>> \in Seq(Nat) /\ Len(<<>>) = 0
    BY EmptySeq
  <2>2. Held(<<>>, 0, <<>>, <<>>) = <<>>
    BY <2>1, HeldBurst, ConcatEmptySeq
  <2> QED
    BY <2>2 DEF Init, Custody!Init, Held
<1>2. WorkerTxInv /\ [Next]_vars => [Custody!Next]_(Custody!vars)
  <2> SUFFICES ASSUME WorkerTxInv, [Next]_vars
               PROVE  [Custody!Next]_(Custody!vars)
    OBVIOUS
  <2>1. Unseen => UNCHANGED Custody!vars
    BY DEF Unseen, HeldPkts, Held, Custody!vars
  <2>2. CASE F_Send
    <3>1. Custody!Transmit
      BY <2>2, SendTransmits DEF Custody!Transmit, HeldPkts, Held
    <3> QED
      BY <3>1 DEF Custody!Next
  <2>3. CASE T_Dequeue
    <3>1. Unseen \/ Custody!Take
      BY <2>3, DequeueTakes DEF Custody!Take, HeldPkts, Held
    <3> QED
      BY <2>1, <3>1 DEF Custody!Next
  <2>4. CASE T_SpiDrop
    <3>1. Custody!Discard
      BY <2>4, DropDiscards DEF Custody!Discard, HeldPkts, Held
    <3> QED
      BY <3>1 DEF Custody!Next
  <2>5. CASE T_Exit
    <3>1. Unseen \/ Custody!Abandon
      BY <2>5, ExitAbandons DEF Custody!Abandon, HeldPkts, Held
    <3> QED
      BY <2>1, <3>1 DEF Custody!Next
  <2>6. CASE UNCHANGED vars
    BY <2>6 DEF vars, flushVars, packetVars, statVars, Custody!vars
  <2>7. CASE Next /\ ~(F_Send \/ T_Dequeue \/ T_SpiDrop \/ T_Exit)
    <3>1. Unseen
      BY <2>7, OthersUnseen, ReturnUnseen, ForwardUnseen, StageUnseen DEF Next, WorkerNext
    <3> QED
      BY <2>1, <3>1
  <2> QED
    BY <2>2, <2>3, <2>4, <2>5, <2>6, <2>7
<1> QED
  BY <1>1, <1>2, Lasts, PTL DEF Spec, KeepsCustody, Custody!Spec
=============================================================================
