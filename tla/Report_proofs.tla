----------------------------- MODULE Report_proofs -----------------------------
(***************************************************************************)
(* The parser, for every header, and the counters and the report, for any  *)
(* number of workers, ring and burst size and any packets.                 *)
(***************************************************************************)
EXTENDS Report, DataLemmas

-----------------------------------------------------------------------------
(* The parser.                                                             *)

\* A set of tests that fail has a first one.
LEMMA FirstExists ==
    ASSUME NEW S \in SUBSET (1 .. 7), S # {}
    PROVE  First(S) \in S /\ \A y \in S : First(S) <= y
<1>1. \E x \in S : \A y \in S : x <= y
  <2>1. PICK e \in S : TRUE
    OBVIOUS
  <2>2. \/ 1 \in S
        \/ 1 \notin S /\ 2 \in S
        \/ 1 \notin S /\ 2 \notin S /\ 3 \in S
        \/ 1 \notin S /\ 2 \notin S /\ 3 \notin S /\ 4 \in S
        \/ 1 \notin S /\ 2 \notin S /\ 3 \notin S /\ 4 \notin S /\ 5 \in S
        \/ S \subseteq {6, 7}
    OBVIOUS
  <2> QED
    BY <2>1, <2>2
<1> QED
  BY <1>1 DEF First

\* The fields of a header.
LEMMA Fields ==
    ASSUME NEW h \in Header
    PROVE  /\ h.data_len \in Nat /\ h.ihl \in 0 .. 15 /\ h.offset \in Nat
           /\ h.ipv4 \in BOOLEAN /\ h.mf \in BOOLEAN
  BY DEF Header

\* The length of the IPv4 header as the parser computes it.
LEMMA HeaderLength ==
    ASSUME NEW h \in Header
    PROVE  L3Len(h) = 4 * h.ihl /\ L3Len(h) \in Nat
  BY Fields DEF L3Len

\* Which tests fail.
LEMMA FailingTests ==
    ASSUME NEW h \in Header
    PROVE  /\ Failing(h) \subseteq 1 .. 7
           /\ 1 \in Failing(h) <=> h.data_len < 14
           /\ 2 \in Failing(h) <=> ~h.ipv4
           /\ 3 \in Failing(h) <=> h.data_len < 34
           /\ 4 \in Failing(h) <=> L3Len(h) < 20
           /\ 5 \in Failing(h) <=> h.mf \/ h.offset # 0
           /\ 6 \in Failing(h) <=> h.proto \notin {6, 17}
           /\ 7 \in Failing(h) <=> h.data_len < 14 + L3Len(h) + 4
  BY DEF Failing, LengthFails, HeaderFails, PortsFail, ETHER_HDR, IPV4_HDR, PORTS,
         IPPROTO_TCP, IPPROTO_UDP

\* A packet passes exactly when no test fails.
LEMMA PassesAll ==
    ASSUME NEW h \in Header
    PROVE  extract_key(h) = "OK" <=> Failing(h) = {}
<1>1. CASE Failing(h) = {}
  BY <1>1 DEF extract_key
<1>2. CASE Failing(h) # {}
  <2>1. First(Failing(h)) \in 1 .. 7
    BY <1>2, FirstExists, FailingTests
  <2> QED
    BY <1>2, <2>1 DEF extract_key, Returns
<1> QED
  BY <1>1, <1>2

\* flow_packet_extract_key (flow_packet.c:19-43) takes exactly the packets that
\* ParsesExactly describes, whatever their fields are.
THEOREM ParserIsExact == \A h \in Header : ParsesExactly(h)
<1> SUFFICES ASSUME NEW h \in Header
             PROVE  extract_key(h) = "OK" <=>
                      /\ h.ipv4 /\ ~h.mf /\ h.offset = 0
                      /\ h.proto \in {IPPROTO_TCP, IPPROTO_UDP}
                      /\ 4 * h.ihl \in IPV4_HDR .. h.data_len - ETHER_HDR - PORTS
  BY DEF ParsesExactly
<1>1. h.data_len \in Nat /\ h.ihl \in Nat /\ h.offset \in Nat
      /\ h.ipv4 \in BOOLEAN /\ h.mf \in BOOLEAN
  BY DEF Header
<1>2. Failing(h) = {} <=>
        /\ h.ipv4 /\ ~h.mf /\ h.offset = 0
        /\ h.proto \in {6, 17}
        /\ 4 * h.ihl \in 20 .. h.data_len - 14 - 4
  <2>1. Failing(h) = {} <=> \A i \in 1 .. 7 : i \notin Failing(h)
    BY FailingTests
  <2> QED
    BY <1>1, <2>1, FailingTests, HeaderLength
<1> QED
  BY <1>2, PassesAll DEF ETHER_HDR, IPV4_HDR, PORTS, IPPROTO_TCP, IPPROTO_UDP

\* flow_packet_extract_key reads only what the tests before have shown to be
\* there: no byte behind data_len, whatever the header says.
THEOREM ParserReadsInside == \A h \in Header : ReadsInside(h)
<1> SUFFICES ASSUME NEW h \in Header
             PROVE  BytesRead(h) <= h.data_len
  BY DEF ReadsInside
<1>1. h.data_len \in Nat
  BY DEF Header
<1>2. CASE Failing(h) = {}
  BY <1>1, <1>2, FailingTests, HeaderLength
    DEF BytesRead, ETHER_HDR, PORTS
<1>3. CASE Failing(h) # {}
  <2> DEFINE first == First(Failing(h))
             read == {Reads[i] : i \in 1 .. first}
  <2>1. first \in 1 .. 7 /\ \A y \in Failing(h) : first <= y
    BY <1>3, FirstExists, FailingTests
  <2>2. \A i \in 1 .. first : Reads[i] \in {0, 14, 15, 22, 24}
    <3>1. \A i \in 1 .. first : i \in 1 .. 7
      BY <2>1
    <3> QED
      BY <3>1 DEF Reads, ETHER_HDR
  <2>3. read \subseteq {0, 14, 15, 22, 24} /\ read # {}
    <3>1. Reads[1] \in read
      BY <2>1
    <3> QED
      BY <2>2, <3>1
  <2>4. \A n \in read : n <= h.data_len
    <3> SUFFICES ASSUME NEW i \in 1 .. first
                 PROVE  Reads[i] <= h.data_len
      OBVIOUS
    <3>1. \A j \in 1 .. i - 1 : j \notin Failing(h)
      BY <2>1
    <3>2. i >= 2 => h.data_len >= 14
      BY <1>1, <3>1, FailingTests
    <3>3. i >= 4 => h.data_len >= 34
      BY <1>1, <3>1, FailingTests
    <3>4. i \in 1 .. 7
      BY <2>1
    <3> QED
      BY <1>1, <3>2, <3>3, <3>4 DEF Reads, ETHER_HDR
  <2>5. Largest(read) \in read
    <3>1. \E x \in read : \A y \in read : x >= y
      <4> HIDE DEF read
      <4>1. \/ 24 \in read
            \/ 24 \notin read /\ 22 \in read
            \/ 24 \notin read /\ 22 \notin read /\ 15 \in read
            \/ 24 \notin read /\ 22 \notin read /\ 15 \notin read /\ 14 \in read
            \/ read = {0}
        BY <2>3
      <4> QED
        BY <2>3, <4>1
    <3> QED
      BY <3>1 DEF Largest
  <2> HIDE DEF first
  <2> QED
    BY <1>3, <2>4, <2>5 DEF BytesRead, first
<1> QED
  BY <1>2, <1>3

-----------------------------------------------------------------------------
(* Types.                                                                  *)

\* The packets of a sequence have passed the parser.
Passed(q) == \A j \in DOMAIN q : extract_key(q[j]) = "OK"

\* Every packet behind the parser has passed it, and OTHER is never counted.
AllPassed ==
    \A w \in Workers : Passed(worker_buffers[w]) /\ Passed(ring[w]) /\ Passed(hand[w])
ParsedInv == AllPassed /\ \A w \in Workers : lcore_stats[w]["other_pkts"] = 0

\* What is still to be parsed fits into the buffer of any worker.
RoomInv == \A w \in Workers : Len(worker_buffers[w]) + Len(burst) <= BURST_SIZE

\* What the lcore l has counted in c; lcores that do not count c have counted none.
Counted(c) == [l \in Lcores |-> IF c \in CountersOf(l) THEN lcore_stats[l][c] ELSE 0]

\* The totals in the making are at most what the lcores that have been read count
\* now, and with what is still to be read no less than the last report's.
TotalsInv ==
    /\ \A c \in Counters : prev_totals[c] <= SumFunctionOnSet(Counted(c), Lcores)
    /\ spc = "totals" => IsInjective(unread)
    /\ spc = "workers" => unread = <<>>
    /\ spc \in {"totals", "workers"} =>
          \A c \in Counters :
             /\ prev_totals[c] <= totals[c] + SumFunctionOnSet(Counted(c), ToSet(unread))
             /\ totals[c] <= SumFunctionOnSet(Counted(c), Lcores \ ToSet(unread))

\* What the line of the worker w will have for a baseline when the report ends.
NextBaseline(c) ==
    [w \in Workers |-> IF w \in to_show THEN lcore_stats[w][c] ELSE prev_worker[w][c]]

\* The baselines of the worker lines: none is ahead of its counter; together they are
\* never behind the totals of the last report, and stay ahead of them by what the
\* lines of this report have shown.
BaselineInv ==
    /\ \A w \in Workers, c \in WorkerBaselines :
          prev_worker[w][c] <= lcore_stats[w][c]
    /\ \A w \in Workers : (spc # "workers" \/ w \in to_show) =>
          \A c \in WorkerBaselines : shown[w][c] = 0
    /\ \A c \in WorkerBaselines :
          prev_totals[c] + SumFunctionOnSet([w \in Workers |-> shown[w][c]], Workers)
             <= SumFunctionOnSet([w \in Workers |-> prev_worker[w][c]], Workers)
    /\ spc = "workers" =>
          \A c \in WorkerBaselines :
             totals[c] <= SumFunctionOnSet(NextBaseline(c), Workers)
\* Counting n in some counters of the lcore l.
LEMMA CountEffect ==
    ASSUME TypeOK, NEW l \in Lcores, NEW cs, NEW n \in Nat, Count(l, cs, n)
    PROVE  /\ DOMAIN lcore_stats' = Lcores
           /\ \A k \in Lcores : lcore_stats'[k] \in [CountersOf(k) -> Nat]
           /\ \A k \in Lcores : k # l => lcore_stats'[k] = lcore_stats[k]
           /\ \A c \in CountersOf(l) :
                 lcore_stats'[l][c] = lcore_stats[l][c] + (IF c \in cs THEN n ELSE 0)
<1>1. /\ DOMAIN lcore_stats = Lcores
      /\ \A k \in Lcores : lcore_stats[k] \in [CountersOf(k) -> Nat]
  BY DEF TypeOK
<1>2. lcore_stats' = [lcore_stats EXCEPT ![l] =
        [c \in DOMAIN @ |-> IF c \in cs THEN @[c] + n ELSE @[c]]]
  BY DEF Count
<1>3. DOMAIN lcore_stats[l] = CountersOf(l)
  BY <1>1
<1>4. lcore_stats'[l] =
        [c \in CountersOf(l) |->
           IF c \in cs THEN lcore_stats[l][c] + n ELSE lcore_stats[l][c]]
  BY <1>1, <1>2, <1>3
<1>5. \A k \in Lcores : k # l => lcore_stats'[k] = lcore_stats[k]
  BY <1>1, <1>2
<1>6. DOMAIN lcore_stats' = Lcores
  BY <1>1, <1>2
<1>7. \A c \in CountersOf(l) : lcore_stats[l][c] \in Nat
  BY <1>1
<1>8. lcore_stats'[l] \in [CountersOf(l) -> Nat]
  BY <1>4, <1>7
<1>9. \A c \in CountersOf(l) :
         lcore_stats'[l][c] = lcore_stats[l][c] + (IF c \in cs THEN n ELSE 0)
  BY <1>4, <1>7
<1> QED
  BY <1>1, <1>5, <1>6, <1>8, <1>9

\* Nothing has been counted and nothing is held at the start.
LEMMA InitTypes == Init => TypeOK
<1> SUFFICES ASSUME Init
             PROVE  TypeOK
  OBVIOUS
<1>1. \A S : <<>> \in Seq(S) /\ Len(<<>>) = 0
  OBVIOUS
<1>2. \A l \in Lcores : lcore_stats[l] \in [CountersOf(l) -> Nat]
  BY DEF Init
<1>3. Zero \in [Counters -> Nat]
  BY DEF Zero
<1>4. NoBaselines \in [Workers -> [WorkerBaselines -> Nat]]
  BY DEF NoBaselines
<1>5. Empty \in [Workers -> Seq(Headers)] /\ \A w \in Workers : Len(Empty[w]) = 0
  BY <1>1 DEF Empty
<1> QED
  BY <1>1, <1>2, <1>3, <1>4, <1>5, ReportAssumption DEF Init, TypeOK

\* The types of the packets that the threads hold, and of the report.
PacketTypes ==
    /\ burst \in Seq(Headers) /\ Len(burst) <= BURST_SIZE
    /\ worker_buffers \in [Workers -> Seq(Headers)]
    /\ \A w \in Workers : Len(worker_buffers[w]) <= BURST_SIZE
    /\ ring \in [Workers -> Seq(Headers)]
    /\ \A w \in Workers : Len(ring[w]) <= RingSize
    /\ hand \in [Workers -> Seq(Headers)]

CounterTypes ==
    /\ DOMAIN lcore_stats = Lcores
    /\ \A l \in Lcores : lcore_stats[l] \in [CountersOf(l) -> Nat]

ReportTypes ==
    /\ spc \in {"tick", "totals", "workers"}
    /\ tick_counter \in 0 .. AGING_NUM_CHUNKS - 1
    /\ view \in {"STATISTICS", "WORKERS"}
    /\ unread \in Seq(Lcores)
    /\ totals \in [Counters -> Nat] /\ prev_totals \in [Counters -> Nat]
    /\ to_show \subseteq Workers
    /\ prev_worker \in [Workers -> [WorkerBaselines -> Nat]]
    /\ shown \in [Workers -> [WorkerBaselines -> Nat]]

\* The types in three parts: a packet step leaves the third alone, a report step the
\* first two.
LEMMA TypeParts == TypeOK <=> PacketTypes /\ CounterTypes /\ ReportTypes
  BY DEF TypeOK, PacketTypes, CounterTypes, ReportTypes

\* The same of the next state.
LEMMA TypePartsPrimed == TypeOK' <=> PacketTypes' /\ CounterTypes' /\ ReportTypes'
  BY DEF TypeOK, PacketTypes, CounterTypes, ReportTypes

\* A packet step counts in one lcore and leaves the report alone; which packets it
\* moves is for the lemmas below.
PacketStep(l, cs, n) ==
    /\ l \in Lcores /\ cs \subseteq CountersOf(l) /\ n \in Nat
    /\ Count(l, cs, n)
    /\ UNCHANGED reportVars

\* A packet step counts naturals.
LEMMA PacketStepTypes ==
    ASSUME TypeOK, NEW l, NEW cs, NEW n, PacketStep(l, cs, n)
    PROVE  CounterTypes' /\ ReportTypes'
<1>1. l \in Lcores /\ n \in Nat /\ Count(l, cs, n) /\ UNCHANGED reportVars
  BY DEF PacketStep
<1>2. CounterTypes'
  BY <1>1, CountEffect DEF CounterTypes
<1>3. ReportTypes
  BY TypeParts
<1>4. ReportTypes'
  BY <1>1, <1>3 DEF ReportTypes, reportVars
<1> QED
  BY <1>2, <1>4

\* The lcores and what they count.
LEMMA LcoreKinds ==
    /\ "dispatcher" \in Lcores /\ CountersOf("dispatcher") = DispatcherCounters
    /\ \A w \in Workers : w \in Lcores /\ w # "dispatcher" /\ CountersOf(w) = WorkerCounters
  BY ReportAssumption DEF Lcores, CountersOf

\* What holds of the packets that the threads hold.
PacketInv == PacketTypes /\ RoomInv /\ AllPassed

\* What the queues of one worker are.
LEMMA QueueTypes ==
    ASSUME PacketInv, NEW w \in Workers
    PROVE  /\ worker_buffers[w] \in Seq(Headers) /\ Passed(worker_buffers[w])
           /\ Len(worker_buffers[w]) <= BURST_SIZE
           /\ ring[w] \in Seq(Headers) /\ Passed(ring[w]) /\ Len(ring[w]) <= RingSize
           /\ hand[w] \in Seq(Headers) /\ Passed(hand[w])
  BY DEF PacketInv, PacketTypes, AllPassed

\* The length of a queue.
LEMMA LenType == \A S : \A q \in Seq(S) : Len(q) \in Nat /\ (Len(q) = 0 <=> q = <<>>)
  OBVIOUS

\* The packets of parts and of concatenations have passed.
LEMMA PassedParts ==
    ASSUME NEW q \in Seq(Headers), Passed(q)
    PROVE  /\ \A n \in Nat : n <= Len(q) =>
                 Passed(SubSeq(q, 1, n)) /\ Passed(SubSeq(q, n + 1, Len(q)))
           /\ \A r \in Seq(Headers) : Passed(r) => Passed(q \o r)
           /\ q # <<>> => Passed(Tail(q))
           /\ \A h \in Headers : extract_key(h) = "OK" => Passed(Append(q, h))
<1>1. ASSUME NEW n \in Nat, n <= Len(q)
      PROVE  Passed(SubSeq(q, 1, n)) /\ Passed(SubSeq(q, n + 1, Len(q)))
  BY <1>1, PrefixElements, SuffixElements DEF Passed
<1>2. ASSUME NEW r \in Seq(Headers), Passed(r)
      PROVE  Passed(q \o r)
  BY <1>2, ConcatElements DEF Passed
<1>3. q # <<>> => Passed(Tail(q))
  BY TailElements DEF Passed
<1>4. ASSUME NEW h \in Headers, extract_key(h) = "OK"
      PROVE  Passed(Append(q, h))
  BY <1>4, AppendElements DEF Passed
<1> QED
  BY <1>1, <1>2, <1>3, <1>4

\* How many packets the queues of the workers hold.
LEMMA PacketsChange ==
    ASSUME NEW a \in [Workers -> Seq(Headers)], NEW b \in [Workers -> Seq(Headers)],
           NEW w \in Workers, \A v \in Workers : v # w => b[v] = a[v]
    PROVE  /\ Packets(a) \in Nat
           /\ Packets(b) = Packets(a) + (Len(b[w]) - Len(a[w]))
<1> DEFINE f == [v \in Workers |-> Len(a[v])]
           g == [v \in Workers |-> Len(b[v])]
<1>1. /\ Packets(a) = SumFunctionOnSet(f, Workers)
      /\ Packets(b) = SumFunctionOnSet(g, Workers)
  BY DEF Packets, SumFunction
<1>2. \A v \in Workers : f[v] \in Nat /\ g[v] \in Nat
  BY LenType
<1>3. \A v \in Workers : v # w => g[v] = f[v]
  OBVIOUS
<1>4. f[w] = Len(a[w]) /\ g[w] = Len(b[w])
  OBVIOUS
<1> HIDE DEF f, g
<1>5. IsFiniteSet(Workers)
  BY ReportAssumption
<1>6. SumFunctionOnSet(f, Workers) \in Nat
  BY <1>2, <1>5, SumType
<1>7. SumFunctionOnSet(g, Workers) = SumFunctionOnSet(f, Workers) + (g[w] - f[w])
  BY <1>2, <1>3, <1>5, SumChange
<1> QED
  BY <1>1, <1>4, <1>6, <1>7

\* The packets of all queues are a natural number.
LEMMA PacketsType == \A a \in [Workers -> Seq(Headers)] : Packets(a) \in Nat
<1> SUFFICES ASSUME NEW a \in [Workers -> Seq(Headers)]
             PROVE  Packets(a) \in Nat
  OBVIOUS
<1> DEFINE f == [v \in Workers |-> Len(a[v])]
<1>1. Packets(a) = SumFunctionOnSet(f, Workers)
  BY DEF Packets, SumFunction
<1>2. \A v \in Workers : f[v] \in Nat
  BY LenType
<1> HIDE DEF f
<1> QED
  BY <1>1, <1>2, SumType, ReportAssumption

\* What a packet step counts, and how many packets it brings to or takes from the
\* burst, the buffers, the rings and the hands.
Moves(atBurst, inBuffers, inRings, inHands) ==
    /\ Len(burst') = Len(burst) + atBurst
    /\ Packets(worker_buffers') = Packets(worker_buffers) + inBuffers
    /\ Packets(ring') = Packets(ring) + inRings
    /\ Packets(hand') = Packets(hand) + inHands

\* So are the packets that the threads hold.
LEMMA HeldTypes ==
    ASSUME PacketInv
    PROVE  /\ Len(burst) \in Nat /\ Packets(worker_buffers) \in Nat
           /\ Packets(ring) \in Nat /\ Packets(hand) \in Nat
  BY PacketsType, LenType DEF PacketInv, PacketTypes

\* The buffers are empty while a burst is received: each has room for all of it.
LEMMA RxPackets ==
    ASSUME PacketInv, D_Rx
    PROVE  PacketInv' /\ \E n \in Nat :
              PacketStep("dispatcher", {"rx_pkts"}, n) /\ Moves(n, 0, 0, 0)
<1>1. PICK n \in 1 .. BURST_SIZE :
         burst' \in [1 .. n -> Headers] /\ Count("dispatcher", {"rx_pkts"}, n)
  BY DEF D_Rx
<1>2. burst' \in Seq(Headers) /\ Len(burst') = n /\ n \in Nat
  BY <1>1, ReportAssumption
<1>3. worker_buffers = Empty /\ UNCHANGED <<worker_buffers, ring, hand>>
  BY DEF D_Rx, Idle, DispatcherFrame
<1>4. \A w \in Workers : Len(worker_buffers[w]) = 0
  BY <1>3 DEF Empty
<1>5. n <= BURST_SIZE /\ 0 + n <= BURST_SIZE
  BY <1>1, ReportAssumption
<1>6. PacketTypes'
  BY <1>2, <1>3, <1>5 DEF PacketInv, PacketTypes
<1>7. RoomInv'
  BY <1>2, <1>3, <1>4, <1>5 DEF RoomInv
<1>8. AllPassed'
  BY <1>3 DEF PacketInv, AllPassed
<1>9. PacketStep("dispatcher", {"rx_pkts"}, n)
  <2>1. {"rx_pkts"} \subseteq CountersOf("dispatcher")
    BY LcoreKinds DEF DispatcherCounters
  <2> QED
    BY <1>1, <1>2, <2>1, LcoreKinds DEF PacketStep, D_Rx, DispatcherFrame
<1>10. Moves(n, 0, 0, 0)
  <2>1. Len(burst) = 0
    BY DEF D_Rx, Idle
  <2> QED
    BY <1>2, <1>3, <2>1, HeldTypes DEF Moves
<1> QED
  BY <1>2, <1>6, <1>7, <1>8, <1>9, <1>10 DEF PacketInv

\* The head of the burst is steered, if it has passed the parser, or freed.
LEMMA SteerPackets ==
    ASSUME PacketInv, NEW ws \in SUBSET Workers, burst # <<>>, SteerHead(ws),
           ws # {} => Parses
    PROVE  PacketInv' /\ Moves(-1, IF ws = {} THEN 0 ELSE 1, 0, 0)
<1>1. PacketTypes /\ RoomInv /\ AllPassed
  BY DEF PacketInv
<1>2. burst' = Tail(burst) /\ ring' = ring /\ hand' = hand
  BY DEF SteerHead, DispatcherFrame
<1>3. PICK len \in Nat : len = Len(burst) /\ len <= BURST_SIZE
  BY <1>1, LenType DEF PacketTypes
<1>4. /\ Head(burst) \in Headers /\ Tail(burst) \in Seq(Headers)
      /\ Len(Tail(burst)) = len - 1 /\ len >= 1
  BY <1>1, <1>3, LenType DEF PacketTypes
<1>5. burst' \in Seq(Headers) /\ Len(burst') = len - 1 /\ len - 1 <= BURST_SIZE
  BY <1>2, <1>3, <1>4, ReportAssumption
<1>6. CASE ws = {} /\ UNCHANGED worker_buffers
  <2>1. PacketTypes'
    BY <1>1, <1>2, <1>5, <1>6 DEF PacketTypes
  <2>2. ASSUME NEW w \in Workers
        PROVE  Len(worker_buffers'[w]) + Len(burst') <= BURST_SIZE
    <3>1. PICK m \in Nat : m = Len(worker_buffers[w])
      BY QueueTypes, LenType
    <3>2. m + len <= BURST_SIZE
      BY <1>1, <1>3, <3>1 DEF RoomInv
    <3>3. m + (len - 1) <= BURST_SIZE
      BY <3>2, ReportAssumption
    <3> QED
      BY <1>5, <1>6, <3>1, <3>3
  <2>3. AllPassed'
    BY <1>1, <1>2, <1>6 DEF AllPassed
  <2>4. Moves(-1, 0, 0, 0)
    BY <1>2, <1>3, <1>5, <1>6, HeldTypes DEF Moves
  <2> QED
    BY <1>6, <2>1, <2>2, <2>3, <2>4 DEF PacketInv, RoomInv
<1>7. CASE ws # {} /\ \E w \in ws :
         worker_buffers' = [worker_buffers EXCEPT ![w] = Append(@, Head(burst))]
  <2>1. PICK w \in ws :
           worker_buffers' = [worker_buffers EXCEPT ![w] = Append(@, Head(burst))]
    BY <1>7
  <2>2. w \in Workers /\ extract_key(Head(burst)) = "OK"
    BY <2>1 DEF Parses
  <2>3. PICK q \in Seq(Headers) : q = worker_buffers[w] /\ Passed(q)
    BY <2>2, QueueTypes
  <2>4. PICK r : r = Append(q, Head(burst))
    OBVIOUS
  <2>5. r \in Seq(Headers) /\ Len(r) = Len(q) + 1 /\ Passed(r)
    BY <1>4, <2>2, <2>3, <2>4, PassedParts
  <2>6. /\ worker_buffers'[w] = r
        /\ \A v \in Workers : v # w => worker_buffers'[v] = worker_buffers[v]
        /\ worker_buffers' \in [Workers -> Seq(Headers)]
    BY <1>1, <2>1, <2>2, <2>3, <2>4, <2>5 DEF PacketTypes
  <2>7. ASSUME NEW v \in Workers
        PROVE  Len(worker_buffers'[v]) + (len - 1) <= BURST_SIZE
    <3>1. PICK m \in Nat : m = Len(worker_buffers[v])
      BY QueueTypes, LenType
    <3>2. m + len <= BURST_SIZE
      BY <1>1, <1>3, <3>1 DEF RoomInv
    <3>3. Len(worker_buffers'[v]) \in {m, m + 1}
      BY <2>3, <2>5, <2>6, <3>1
    <3>4. \A k \in {m, m + 1} : k + (len - 1) <= BURST_SIZE
      BY <3>2, ReportAssumption
    <3> QED
      BY <3>3, <3>4
  <2>8. ASSUME NEW v \in Workers
        PROVE  Len(worker_buffers'[v]) <= BURST_SIZE
    <3>1. PICK m \in Nat : m = Len(worker_buffers'[v])
      BY <2>6, LenType
    <3>2. m + (len - 1) <= BURST_SIZE
      BY <2>7, <3>1
    <3> QED
      BY <1>4, <3>1, <3>2, ReportAssumption
  <2>9. PacketTypes'
    BY <1>1, <1>2, <1>5, <2>6, <2>8 DEF PacketTypes
  <2>10. RoomInv'
    BY <1>5, <2>7 DEF RoomInv
  <2>11. AllPassed'
    BY <1>1, <1>2, <2>5, <2>6 DEF AllPassed
  <2>12. Packets(worker_buffers') = Packets(worker_buffers) + 1
    <3>1. worker_buffers \in [Workers -> Seq(Headers)]
      BY <1>1 DEF PacketTypes
    <3>2. Packets(worker_buffers') = Packets(worker_buffers) + (Len(r) - Len(q))
      BY <2>2, <2>3, <2>6, <3>1, PacketsChange
    <3>3. PICK m \in Nat : m = Len(q)
      BY LenType
    <3> QED
      BY <2>5, <3>2, <3>3
  <2>13. Moves(-1, 1, 0, 0)
    BY <1>2, <1>3, <1>5, <2>12, HeldTypes DEF Moves
  <2> QED
    BY <1>7, <2>9, <2>10, <2>11, <2>13 DEF PacketInv
<1> QED
  BY <1>6, <1>7 DEF SteerHead

\* The smaller of two numbers, the one that is enqueued or dequeued.
LEMMA MinOfTwo ==
    ASSUME NEW m \in Nat, NEW n \in Nat
    PROVE  Min({m, n}) \in Nat /\ Min({m, n}) <= m /\ Min({m, n}) <= n
                               /\ Min({m, n}) \in {m, n}
<1>1. \E x \in {m, n} : \A y \in {m, n} : x <= y
  OBVIOUS
<1> QED
  BY <1>1 DEF Min

\* A buffer is enqueued as far as the ring has room, and emptied.
LEMMA EnqueuePackets ==
    ASSUME PacketInv, NEW w \in Workers, D_Enqueue(w)
    PROVE  PacketInv' /\ \E len \in Nat, sent \in Nat :
              /\ sent <= len
              /\ PacketStep("dispatcher", {"ring_drop_pkts"}, len - sent)
              /\ Moves(0, -len, sent, 0)
<1>1. PacketTypes /\ RoomInv /\ AllPassed
  BY DEF PacketInv
<1>2. PICK b \in Seq(Headers) : b = worker_buffers[w] /\ Passed(b)
  BY QueueTypes
<1>3. PICK q \in Seq(Headers) : q = ring[w] /\ Passed(q) /\ Len(q) <= RingSize
  BY QueueTypes
<1>4. PICK len \in Nat, used \in Nat : len = Len(b) /\ used = Len(q)
  BY LenType
<1>5. PICK room \in Nat : room = RingSize - used
  <2>1. used <= RingSize /\ RingSize \in Nat
    BY <1>3, <1>4, ReportAssumption
  <2> QED
    BY <2>1
<1>6. PICK sent \in Nat : sent = Min({len, room}) /\ sent <= len /\ sent <= room
  BY MinOfTwo
<1>7. PICK s \in Seq(Headers) : s = SubSeq(b, 1, sent) /\ Len(s) = sent /\ Passed(s)
  <2>1. SubSeq(b, 1, sent) \in Seq(Headers) /\ Len(SubSeq(b, 1, sent)) = sent
    BY <1>4, <1>6, PrefixElements
  <2>2. Passed(SubSeq(b, 1, sent))
    BY <1>2, <1>4, <1>6, PassedParts
  <2> QED
    BY <2>1, <2>2
<1>8. PICK r \in Seq(Headers) : r = q \o s /\ Len(r) = used + sent /\ Passed(r)
  <2>1. q \o s \in Seq(Headers) /\ Len(q \o s) = used + sent
    BY <1>4, <1>7, ConcatElements
  <2>2. Passed(q \o s)
    BY <1>3, <1>7, PassedParts
  <2> QED
    BY <2>1, <2>2
<1>9. Len(r) <= RingSize
  BY <1>5, <1>6, <1>8, ReportAssumption
<1>10. /\ ring' = [ring EXCEPT ![w] = r]
       /\ worker_buffers' = [worker_buffers EXCEPT ![w] = <<>>]
       /\ burst' = burst /\ hand' = hand
  BY <1>2, <1>3, <1>4, <1>5, <1>6, <1>7, <1>8 DEF D_Enqueue, DispatcherFrame
<1>11. <<>> \in Seq(Headers) /\ Passed(<<>>) /\ Len(<<>>) = 0
  BY DEF Passed
<1>12. /\ ring' \in [Workers -> Seq(Headers)]
       /\ \A v \in Workers : ring'[v] = IF v = w THEN r ELSE ring[v]
  BY <1>1, <1>10 DEF PacketTypes
<1>13. /\ worker_buffers' \in [Workers -> Seq(Headers)]
       /\ \A v \in Workers : worker_buffers'[v] = IF v = w THEN <<>> ELSE worker_buffers[v]
  BY <1>1, <1>10, <1>11 DEF PacketTypes
<1>14. \A v \in Workers : Len(ring'[v]) <= RingSize
  BY <1>1, <1>9, <1>12 DEF PacketTypes
<1>15. \A v \in Workers : Len(worker_buffers'[v]) <= BURST_SIZE
  BY <1>1, <1>11, <1>13, ReportAssumption DEF PacketTypes
<1>16. PacketTypes'
  BY <1>1, <1>10, <1>12, <1>13, <1>14, <1>15 DEF PacketTypes
<1>17. RoomInv'
  <2>1. burst = <<>> /\ Len(burst) = 0
    BY <1>11 DEF D_Enqueue
  <2>2. ASSUME NEW v \in Workers
        PROVE  Len(worker_buffers'[v]) + 0 <= BURST_SIZE
    <3>1. Len(worker_buffers'[v]) \in Nat
      BY <1>13, LenType
    <3> QED
      BY <3>1, <1>15
  <2> QED
    BY <1>10, <2>1, <2>2 DEF RoomInv
<1>18. AllPassed'
  BY <1>1, <1>8, <1>10, <1>11, <1>12, <1>13 DEF AllPassed
<1>19. PacketStep("dispatcher", {"ring_drop_pkts"}, len - sent)
  <2>1. {"ring_drop_pkts"} \subseteq CountersOf("dispatcher") /\ len - sent \in Nat
    BY <1>6, LcoreKinds DEF DispatcherCounters
  <2>2. Count("dispatcher", {"ring_drop_pkts"}, len - sent)
    BY <1>2, <1>3, <1>4, <1>5, <1>6 DEF D_Enqueue
  <2> QED
    BY <2>1, <2>2, LcoreKinds DEF PacketStep, D_Enqueue, DispatcherFrame
<1>20. Moves(0, -len, sent, 0)
  <2>1. worker_buffers \in [Workers -> Seq(Headers)] /\ ring \in [Workers -> Seq(Headers)]
    BY <1>1 DEF PacketTypes
  <2>2. Packets(worker_buffers') = Packets(worker_buffers) + (0 - len)
    BY <1>2, <1>4, <1>11, <1>13, <2>1, PacketsChange
  <2>3. Packets(ring') = Packets(ring) + (Len(r) - used)
    BY <1>3, <1>4, <1>12, <2>1, PacketsChange
  <2>4. Len(r) - used = sent
    BY <1>8
  <2>5. PICK m \in Nat : m = Packets(worker_buffers)
    BY HeldTypes
  <2>6. m + (0 - len) = m + (-len)
    OBVIOUS
  <2>7. Packets(worker_buffers') = Packets(worker_buffers) + (-len)
    BY <2>2, <2>5, <2>6
  <2>8. Packets(ring') = Packets(ring) + sent
    BY <2>3, <2>4
  <2>9. Len(burst') = Len(burst) + 0 /\ Packets(hand') = Packets(hand) + 0
    BY <1>10, HeldTypes
  <2> QED
    BY <2>7, <2>8, <2>9 DEF Moves
<1> QED
  BY <1>6, <1>16, <1>17, <1>18, <1>19, <1>20 DEF PacketInv

\* A worker takes a burst from its ring.
LEMMA DequeuePackets ==
    ASSUME PacketInv, NEW w \in Workers, W_Dequeue(w)
    PROVE  PacketInv' /\ \E n \in Nat :
              PacketStep(w, {"worker_rx_pkts"}, n) /\ Moves(0, 0, -n, n)
<1>1. PacketTypes /\ RoomInv /\ AllPassed
  BY DEF PacketInv
<1>2. PICK q \in Seq(Headers) : q = ring[w] /\ Passed(q) /\ Len(q) <= RingSize
  BY QueueTypes
<1>3. PICK len \in Nat : len = Len(q) /\ len <= RingSize
  BY <1>2, LenType
<1>4. BURST_SIZE \in Nat /\ RingSize \in Nat
  BY ReportAssumption
<1>5. PICK n \in Nat : n = Min({len, BURST_SIZE}) /\ n <= len
  BY <1>4, MinOfTwo
<1>6. PICK s \in Seq(Headers) : s = SubSeq(q, 1, n) /\ Passed(s)
  <2>1. SubSeq(q, 1, n) \in Seq(Headers)
    BY <1>3, <1>5, PrefixElements
  <2>2. Passed(SubSeq(q, 1, n))
    BY <1>2, <1>3, <1>5, PassedParts
  <2> QED
    BY <2>1, <2>2
<1>7. PICK r \in Seq(Headers) : r = SubSeq(q, n + 1, Len(q)) /\ Len(r) = len - n /\ Passed(r)
  <2>1. /\ SubSeq(q, n + 1, Len(q)) \in Seq(Headers)
        /\ Len(SubSeq(q, n + 1, Len(q))) = len - n
    BY <1>3, <1>5, SuffixElements
  <2>2. Passed(SubSeq(q, n + 1, Len(q)))
    BY <1>2, <1>3, <1>5, PassedParts
  <2> QED
    BY <2>1, <2>2
<1>8. Len(r) <= RingSize
  BY <1>3, <1>4, <1>5, <1>7
<1>9. /\ hand' = [hand EXCEPT ![w] = s] /\ ring' = [ring EXCEPT ![w] = r]
      /\ burst' = burst /\ worker_buffers' = worker_buffers
  BY <1>1, <1>2, <1>3, <1>5, <1>6, <1>7 DEF W_Dequeue, WorkerFrame, dispatcherVars, PacketTypes
<1>10. /\ ring' \in [Workers -> Seq(Headers)]
       /\ \A v \in Workers : ring'[v] = IF v = w THEN r ELSE ring[v]
  BY <1>1, <1>9 DEF PacketTypes
<1>11. /\ hand' \in [Workers -> Seq(Headers)]
       /\ \A v \in Workers : hand'[v] = IF v = w THEN s ELSE hand[v]
  BY <1>1, <1>9 DEF PacketTypes
<1>12. \A v \in Workers : Len(ring'[v]) <= RingSize
  BY <1>1, <1>8, <1>10 DEF PacketTypes
<1>13. PacketTypes'
  BY <1>1, <1>9, <1>10, <1>11, <1>12 DEF PacketTypes
<1>14. RoomInv'
  BY <1>1, <1>9 DEF RoomInv
<1>15. AllPassed'
  BY <1>1, <1>6, <1>7, <1>9, <1>10, <1>11 DEF AllPassed
<1>16. PacketStep(w, {"worker_rx_pkts"}, n)
  <2>1. {"worker_rx_pkts"} \subseteq CountersOf(w) /\ w \in Lcores
    BY LcoreKinds DEF WorkerCounters
  <2>2. Count(w, {"worker_rx_pkts"}, n)
    BY <1>2, <1>3, <1>5 DEF W_Dequeue
  <2> QED
    BY <2>1, <2>2 DEF PacketStep, W_Dequeue, WorkerFrame
<1>17. Moves(0, 0, -n, n)
  <2>1. hand \in [Workers -> Seq(Headers)] /\ ring \in [Workers -> Seq(Headers)]
    BY <1>1 DEF PacketTypes
  <2>2. Packets(ring') = Packets(ring) + (Len(r) - len)
    BY <1>2, <1>3, <1>10, <2>1, PacketsChange
  <2>3. hand[w] = <<>> /\ Len(<<>>) = 0
    BY DEF W_Dequeue
  <2>4. Packets(hand') = Packets(hand) + (Len(s) - 0)
    BY <1>11, <2>1, <2>3, PacketsChange
  <2>5. Len(s) = n
    BY <1>3, <1>5, <1>6, PrefixElements
  <2>6. Len(r) - len = -n
    BY <1>7
  <2> QED
    BY <1>9, <2>2, <2>4, <2>5, <2>6, HeldTypes DEF Moves
<1> QED
  BY <1>13, <1>14, <1>15, <1>16, <1>17 DEF PacketInv

\* A packet that has passed the parser is TCP or UDP and has a counter of its own.
LEMMA ProtocolCounted ==
    ASSUME NEW h \in Header, extract_key(h) = "OK"
    PROVE  /\ account_protocol(h.proto, h.dst_port) \in Protocols
           /\ account_protocol(h.proto, h.dst_port) # "other_pkts"
<1>1. h.proto \in {6, 17}
  BY ParserIsExact DEF ParsesExactly, IPPROTO_TCP, IPPROTO_UDP
<1>2. ASSUME NEW p \in {6, 17}, NEW d
      PROVE  account_protocol(p, d) \in Protocols /\ account_protocol(p, d) # "other_pkts"
  <2>1. p = 6 \/ p = 17
    OBVIOUS
  <2>2. 6 # 17
    OBVIOUS
  <2> QED
    BY <2>1, <2>2, ZenonT(30) DEF account_protocol, Protocols, IPPROTO_TCP, IPPROTO_UDP
<1> QED
  BY <1>1, <1>2

\* A worker is done with the first packet of its hand.
LEMMA CheckPackets ==
    ASSUME PacketInv, NEW w \in Workers, W_Check(w)
    PROVE  PacketInv' /\ \E protocol \in Protocols \ {"other_pkts"},
                           verdict \in {"spi_pkts_dropped", "spi_pkts_forwarded"} :
              /\ PacketStep(w, {"spi_rule_checks", protocol, verdict}, 1)
              /\ Moves(0, 0, 0, -1)
<1>1. PacketTypes /\ RoomInv /\ AllPassed
  BY DEF PacketInv
<1>2. PICK q \in Seq(Headers) : q = hand[w] /\ Passed(q) /\ q # <<>>
  BY QueueTypes DEF W_Check
<1>3. PICK r \in Seq(Headers) : r = Tail(q) /\ Passed(r)
  BY <1>2, TailElements, PassedParts
<1>4. /\ hand' = [hand EXCEPT ![w] = r] /\ ring' = ring
      /\ burst' = burst /\ worker_buffers' = worker_buffers
  BY <1>2, <1>3 DEF W_Check, WorkerFrame, dispatcherVars
<1>5. /\ hand' \in [Workers -> Seq(Headers)]
      /\ \A v \in Workers : hand'[v] = IF v = w THEN r ELSE hand[v]
  BY <1>1, <1>4 DEF PacketTypes
<1>6. PacketTypes'
  BY <1>1, <1>4, <1>5 DEF PacketTypes
<1>7. RoomInv'
  BY <1>1, <1>4 DEF RoomInv
<1>8. AllPassed'
  BY <1>1, <1>3, <1>4, <1>5 DEF AllPassed
<1>9. PICK h \in Headers : h = Head(q) /\ extract_key(h) = "OK"
  BY <1>2, TailElements DEF Passed
<1>10. PICK protocol \in Protocols \ {"other_pkts"} :
          protocol = account_protocol(h.proto, h.dst_port)
  BY <1>9, ProtocolCounted, ReportAssumption
<1>11. PICK verdict \in {"spi_pkts_dropped", "spi_pkts_forwarded"} :
          Count(w, {"spi_rule_checks", protocol, verdict}, 1)
  BY <1>2, <1>9, <1>10 DEF W_Check
<1>12. PacketStep(w, {"spi_rule_checks", protocol, verdict}, 1)
  <2>1. {"spi_rule_checks", protocol, verdict} \subseteq CountersOf(w) /\ w \in Lcores
    BY LcoreKinds DEF WorkerCounters
  <2> QED
    BY <1>11, <2>1 DEF PacketStep, W_Check, WorkerFrame
<1>13. Moves(0, 0, 0, -1)
  <2>1. hand \in [Workers -> Seq(Headers)]
    BY <1>1 DEF PacketTypes
  <2>2. Packets(hand') = Packets(hand) + (Len(r) - Len(q))
    BY <1>2, <1>5, <2>1, PacketsChange
  <2>3. Len(r) - Len(q) = -1
    BY <1>2, <1>3
  <2> QED
    BY <1>4, <2>2, <2>3, HeldTypes DEF Moves
<1> QED
  BY <1>6, <1>7, <1>8, <1>12, <1>13 DEF PacketInv

-----------------------------------------------------------------------------
(* The steps of the report.                                                *)

\* The packets and what the lcores count are no business of the stats thread.
LEMMA ReportLeavesPackets ==
    ASSUME PacketInv, CounterTypes, ReportFrame
    PROVE  PacketInv' /\ CounterTypes'
<1>1. UNCHANGED <<lcore_stats, burst, worker_buffers, ring, hand>>
  BY DEF ReportFrame, packetVars
<1>2. PacketTypes'
  BY <1>1 DEF PacketInv, PacketTypes
<1>3. RoomInv'
  BY <1>1 DEF PacketInv, RoomInv
<1>4. AllPassed'
  BY <1>1 DEF PacketInv, AllPassed
<1>5. CounterTypes'
  BY <1>1 DEF CounterTypes
<1> QED
  BY <1>2, <1>3, <1>4, <1>5 DEF PacketInv

\* A report step keeps the types of the report and touches nothing else.
LEMMA ReportTypesKept ==
    ASSUME TypeOK, R_Command \/ R_Tick \/ R_Read \/ R_Totals \/ R_Worker \/ R_End
    PROVE  ReportTypes' /\ ReportFrame
<1>1. ReportTypes /\ CounterTypes
  BY TypeParts
<1>2. CASE R_Command
  BY <1>1, <1>2 DEF R_Command, ReportTypes
<1>3. CASE R_Tick
  <2>1. LcoreOrder \in Seq(Lcores) /\ AGING_NUM_CHUNKS \in Nat \ {0}
    BY ReportAssumption DEF Lcores
  <2>2. Zero \in [Counters -> Nat]
    BY DEF Zero
  <2>3. tick_counter' \in 0 .. AGING_NUM_CHUNKS - 1
    <3>1. tick_counter \in 0 .. AGING_NUM_CHUNKS - 1
      BY <1>1 DEF ReportTypes
    <3> QED
      BY <1>3, <2>1, <3>1 DEF R_Tick
  <2> QED
    BY <1>1, <1>3, <2>1, <2>2, <2>3 DEF R_Tick, ReportTypes
<1>4. CASE R_Read
  <2>1. Head(unread) \in Lcores /\ Tail(unread) \in Seq(Lcores)
    BY <1>1, <1>4, TailElements DEF R_Read, ReportTypes
  <2>2. PICK read : read = lcore_stats[Head(unread)]
    OBVIOUS
  <2>3. \A c \in DOMAIN read : read[c] \in Nat
    BY <1>1, <2>1, <2>2 DEF CounterTypes
  <2>4. totals' = [c \in Counters |->
                     IF c \in DOMAIN read THEN totals[c] + read[c] ELSE totals[c]]
    BY <1>4, <2>2 DEF R_Read
  <2>5. totals \in [Counters -> Nat]
    BY <1>1 DEF ReportTypes
  <2>6. totals' \in [Counters -> Nat]
    BY <2>3, <2>4, <2>5
  <2> QED
    BY <1>1, <1>4, <2>1, <2>6 DEF R_Read, ReportTypes
<1>5. CASE R_Totals
  BY <1>1, <1>5 DEF R_Totals, ReportTypes
<1>6. CASE R_Worker
  <2>1. PICK w \in to_show :
           /\ to_show' = to_show \ {w}
           /\ shown' = IF view = "WORKERS"
                       THEN [shown EXCEPT ![w] =
                               [c \in WorkerBaselines |->
                                  Growth(lcore_stats[w][c], prev_worker[w][c])]]
                       ELSE shown
           /\ prev_worker' = [prev_worker EXCEPT ![w] =
                                [c \in WorkerBaselines |-> lcore_stats[w][c]]]
    BY <1>6 DEF R_Worker, Refresh
  <2>2. w \in Workers
    BY <1>1, <2>1 DEF ReportTypes
  <2>3. \A c \in WorkerBaselines : lcore_stats[w][c] \in Nat /\ prev_worker[w][c] \in Nat
    <3>1. lcore_stats[w] \in [WorkerCounters -> Nat]
      BY <1>1, <2>2, LcoreKinds DEF CounterTypes
    <3>2. WorkerBaselines \subseteq WorkerCounters
      BY DEF WorkerBaselines, WorkerCounters
    <3>3. prev_worker[w] \in [WorkerBaselines -> Nat]
      BY <1>1, <2>2 DEF ReportTypes
    <3> QED
      BY <3>1, <3>2, <3>3
  <2>4. \A c \in WorkerBaselines : Growth(lcore_stats[w][c], prev_worker[w][c]) \in Nat
    BY <2>3 DEF Growth
  <2>5. /\ [c \in WorkerBaselines |-> lcore_stats[w][c]] \in [WorkerBaselines -> Nat]
        /\ [c \in WorkerBaselines |-> Growth(lcore_stats[w][c], prev_worker[w][c])]
              \in [WorkerBaselines -> Nat]
    BY <2>3, <2>4
  <2>6. prev_worker' \in [Workers -> [WorkerBaselines -> Nat]]
    BY <1>1, <2>1, <2>5 DEF ReportTypes
  <2>7. shown' \in [Workers -> [WorkerBaselines -> Nat]]
    BY <1>1, <2>1, <2>5 DEF ReportTypes
  <2>8. to_show' \subseteq Workers
    BY <1>1, <2>1 DEF ReportTypes
  <2> QED
    BY <1>1, <1>6, <2>6, <2>7, <2>8 DEF R_Worker, ReportTypes
<1>7. CASE R_End
  <2>1. NoBaselines \in [Workers -> [WorkerBaselines -> Nat]]
    BY DEF NoBaselines
  <2> QED
    BY <1>1, <1>7, <2>1 DEF R_End, ReportTypes
<1> QED
  BY <1>2, <1>3, <1>4, <1>5, <1>6, <1>7
    DEF R_Command, R_Tick, R_Read, R_Totals, R_Worker, R_End

-----------------------------------------------------------------------------
(* Sums over the lcores.                                                   *)

\* There are finitely many lcores to sum over.
LEMMA LcoresFinite == IsFiniteSet(Lcores) /\ IsFiniteSet(Workers)
  BY ReportAssumption, FS_AddElement DEF Lcores

\* Which counters there are, and who counts them.
LEMMA CounterKinds ==
    /\ Counters = DispatcherCounters \cup WorkerCounters
    /\ DispatcherCounters \cap WorkerCounters = {}
    /\ WorkerBaselines \subseteq WorkerCounters
    /\ Protocols \subseteq WorkerCounters
  BY DEF Counters, DispatcherCounters, WorkerCounters, Protocols, WorkerBaselines

\* What an lcore has counted is a natural number.
LEMMA CountedTypes ==
    ASSUME CounterTypes, NEW c, NEW l \in Lcores
    PROVE  /\ Counted(c)[l] \in Nat
           /\ Counted(c)[l] = IF c \in CountersOf(l) THEN lcore_stats[l][c] ELSE 0
  BY DEF Counted, CounterTypes

\* What a worker has counted in one of its counters.
LEMMA WorkerCounterTypes ==
    ASSUME CounterTypes, NEW w \in Workers, NEW c \in WorkerCounters
    PROVE  lcore_stats[w][c] \in Nat /\ Counted(c)[w] = lcore_stats[w][c]
  BY LcoreKinds, CountedTypes DEF CounterTypes

\* The true sum of a counter is the sum over the lcores that count it.
LEMMA SumsAreCounted ==
    ASSUME CounterTypes, NEW c \in Counters
    PROVE  /\ Sums[c] = SumFunctionOnSet(Counted(c), Lcores)
           /\ Sums[c] \in Nat
           /\ c \in WorkerCounters =>
                 Sums[c] = SumFunctionOnSet([w \in Workers |-> lcore_stats[w][c]], Workers)
<1>1. \A l \in Lcores : Counted(c)[l] \in Nat
  BY CountedTypes
<1>2. SumFunctionOnSet(Counted(c), Lcores) \in Nat
  BY <1>1, LcoresFinite, SumType
<1>3. PICK rest : rest = SumFunctionOnSet(Counted(c), Workers)
  OBVIOUS
<1>4. SumFunctionOnSet(Counted(c), Lcores) = Counted(c)["dispatcher"] + rest
  <2>1. Lcores \ {"dispatcher"} = Workers
    BY ReportAssumption DEF Lcores
  <2>2. SumFunctionOnSet(Counted(c), Lcores)
           = Counted(c)["dispatcher"] + SumFunctionOnSet(Counted(c), Lcores \ {"dispatcher"})
    BY <1>1, LcoresFinite, LcoreKinds, SumTakesOut
  <2> QED
    BY <1>3, <2>1, <2>2
<1>5. CASE c \in DispatcherCounters
  <2>1. Sums[c] = lcore_stats["dispatcher"][c] /\ c \notin WorkerCounters
    BY <1>5, CounterKinds DEF Sums
  <2>2. Counted(c)["dispatcher"] = lcore_stats["dispatcher"][c]
    BY <1>5, LcoreKinds, CountedTypes
  <2>3. \A w \in Workers : Counted(c)[w] = 0
    BY <2>1, LcoreKinds, CountedTypes
  <2>4. rest = 0
    BY <1>3, <2>3, LcoresFinite, SumZero
  <2>5. Counted(c)["dispatcher"] \in Nat
    BY <1>1, LcoreKinds
  <2> QED
    BY <1>2, <1>4, <2>1, <2>2, <2>4, <2>5
<1>6. CASE c \in WorkerCounters
  <2> DEFINE f == [w \in Workers |-> lcore_stats[w][c]]
  <2>1. Sums[c] = SumFunctionOnSet(f, Workers)
    BY <1>6, CounterKinds DEF Sums, SumFunction
  <2>2. \A w \in Workers : Counted(c)[w] \in Nat /\ Counted(c)[w] = f[w]
    BY <1>6, WorkerCounterTypes
  <2>3. SumFunctionOnSet(f, Workers) = rest
    <3> HIDE DEF f
    <3> QED
      BY <1>3, <2>2, LcoresFinite, SumSame
  <2>4. Counted(c)["dispatcher"] = 0
    BY <1>6, CounterKinds, LcoreKinds, CountedTypes
  <2>5. rest \in Nat
    BY <1>1, <1>3, LcoreKinds, LcoresFinite, SumType
  <2> QED
    BY <1>2, <1>4, <2>1, <2>3, <2>4, <2>5
<1> QED
  BY <1>5, <1>6, CounterKinds

\* The same of the next state.
SumsRight ==
    CounterTypes =>
        \A c \in Counters : /\ Sums[c] = SumFunctionOnSet(Counted(c), Lcores)
                            /\ Sums[c] \in Nat

\* It is the lemma above, of every state,
LEMMA SumsRightAlways == SumsRight
  BY SumsAreCounted DEF SumsRight

\* and so of the next one.
LEMMA SumsRightNext == SumsRight'
  BY SumsRightAlways, PTL

\* A packet step adds n to one counter of one lcore, and so to its sum.
LEMMA StepCounts ==
    ASSUME TypeOK, NEW l, NEW cs, NEW n, PacketStep(l, cs, n), NEW c \in Counters
    PROVE  /\ \A k \in Lcores : Counted(c)[k] <= Counted(c)'[k]
           /\ Sums'[c] = Sums[c] + (IF c \in cs THEN n ELSE 0)
<1>1. /\ l \in Lcores /\ cs \subseteq CountersOf(l) /\ n \in Nat
      /\ Count(l, cs, n)
  BY DEF PacketStep
<1>2. CounterTypes /\ CounterTypes'
  BY TypeParts, PacketStepTypes
<1>3. PICK f : f = Counted(c)
  OBVIOUS
<1>4. PICK g : g = Counted(c)'
  OBVIOUS
<1>5. /\ \A k \in Lcores : k # l => lcore_stats'[k] = lcore_stats[k]
      /\ \A d \in CountersOf(l) :
            lcore_stats'[l][d] = lcore_stats[l][d] + (IF d \in cs THEN n ELSE 0)
  BY <1>1, CountEffect
<1>6. \A k \in Lcores : f[k] \in Nat /\ g[k] \in Nat
  <2>1. \A k \in Lcores : f[k] \in Nat
    BY <1>2, <1>3, CountedTypes
  <2>2. \A k \in Lcores : g[k] \in Nat
    BY <1>2, <1>4 DEF Counted, CounterTypes
  <2> QED
    BY <2>1, <2>2
<1>7. \A k \in Lcores : k # l => g[k] = f[k]
  BY <1>3, <1>4, <1>5 DEF Counted
<1>8. g[l] = f[l] + (IF c \in cs THEN n ELSE 0)
  <2>1. CASE c \in CountersOf(l)
    BY <1>1, <1>3, <1>4, <1>5, <2>1 DEF Counted
  <2>2. CASE c \notin CountersOf(l)
    <3>1. f[l] = 0 /\ g[l] = 0 /\ c \notin cs
      BY <1>1, <1>3, <1>4, <2>2 DEF Counted
    <3> QED
      BY <3>1
  <2> QED
    BY <2>1, <2>2
<1>9. \A k \in Lcores : f[k] <= g[k]
  BY <1>1, <1>6, <1>7, <1>8
<1>10. SumFunctionOnSet(g, Lcores) = SumFunctionOnSet(f, Lcores) + (g[l] - f[l])
  BY <1>1, <1>6, <1>7, LcoresFinite, SumChange
<1>11. Sums[c] = SumFunctionOnSet(f, Lcores) /\ Sums[c] \in Nat
  BY <1>2, <1>3, SumsAreCounted
<1>12. Sums'[c] = SumFunctionOnSet(g, Lcores)
  BY <1>2, <1>4, SumsRightNext DEF SumsRight
<1>13. g[l] - f[l] = IF c \in cs THEN n ELSE 0
  BY <1>1, <1>6, <1>8
<1> QED
  BY <1>3, <1>4, <1>9, <1>10, <1>11, <1>12, <1>13

-----------------------------------------------------------------------------
(* Every packet is counted once.                                           *)

\* The figures of a report and their names.
LEMMA Figures ==
    /\ {"rx_pkts", "rx_filtered_pkts", "ring_drop_pkts", "hash_add_failures",
        "flow_add_retry_success", "worker_rx_pkts", "spi_pkts_forwarded",
        "spi_pkts_dropped", "spi_rule_checks"} \subseteq Counters
    /\ Protocols \subseteq Counters
    /\ "spi_rule_checks" \notin Protocols
  BY DEF Counters, DispatcherCounters, WorkerCounters, Protocols

\* There are finitely many protocol counters to sum over.
LEMMA ProtocolsFinite == IsFiniteSet(Protocols)
<1>1. Protocols = {"http_pkts"} \cup {"https_pkts"} \cup {"dns_pkts"} \cup {"tcp_pkts"}
                    \cup {"udp_pkts"} \cup {"other_pkts"}
  BY DEF Protocols
<1> QED
  BY <1>1, FS_Singleton, FS_Union

\* What the counters cs have in common when each of them grows by n.
Grown(c, cs, n) == IF c \in cs THEN n ELSE 0

\* What a step counts balances what it moves, and a packet that is checked has one
\* protocol.
Balanced(cs, n, atBurst, inBuffers, inRings, inHands) ==
    /\ Grown("rx_pkts", cs, n) - Grown("rx_filtered_pkts", cs, n)
         - Grown("ring_drop_pkts", cs, n)
         - (Grown("hash_add_failures", cs, n) - Grown("flow_add_retry_success", cs, n))
         - Grown("worker_rx_pkts", cs, n)
           = atBurst + inBuffers + inRings
    /\ Grown("worker_rx_pkts", cs, n) - Grown("spi_pkts_dropped", cs, n)
         - Grown("spi_pkts_forwarded", cs, n) = inHands
    /\ \/ cs \cap Protocols = {} /\ "spi_rule_checks" \notin cs
       \/ \E p \in Protocols : cs \cap Protocols = {p} /\ "spi_rule_checks" \in cs

\* Such a step keeps the account.
LEMMA AccountKept ==
    ASSUME TypeOK, PacketInv, EveryPacketCounted,
           NEW l, NEW cs, NEW n \in Nat, PacketStep(l, cs, n),
           NEW atBurst \in Int, NEW inBuffers \in Int, NEW inRings \in Int,
           NEW inHands \in Int, Moves(atBurst, inBuffers, inRings, inHands),
           Balanced(cs, n, atBurst, inBuffers, inRings, inHands)
    PROVE  EveryPacketCounted'
<1>1. PICK f : f = Sums
  OBVIOUS
<1>2. PICK g : g = Sums'
  OBVIOUS
<1>3. CounterTypes /\ PacketInv
  BY TypeParts
<1>4. \A c \in Counters : f[c] \in Nat
  BY <1>1, <1>3, SumsAreCounted
<1>5. \A c \in Counters : Grown(c, cs, n) \in Nat /\ g[c] = f[c] + Grown(c, cs, n)
  BY <1>1, <1>2, StepCounts DEF Grown
<1>6. \A c \in Counters : g[c] \in Nat
  BY <1>4, <1>5
<1>7. /\ Unaccounted(f) = Len(burst) + Packets(worker_buffers) + Packets(ring)
      /\ Unchecked(f) = Packets(hand)
      /\ f["spi_rule_checks"] = SumFunctionOnSet(f, Protocols)
  BY <1>1 DEF EveryPacketCounted
<1>8. Unaccounted(g) = Unaccounted(f) + (atBurst + inBuffers + inRings)
  BY <1>4, <1>5, Figures DEF Unaccounted, Balanced
<1>9. Unchecked(g) = Unchecked(f) + inHands
  BY <1>4, <1>5, Figures DEF Unchecked, Balanced
<1>10. /\ Len(burst') = Len(burst) + atBurst
       /\ Packets(worker_buffers') = Packets(worker_buffers) + inBuffers
       /\ Packets(ring') = Packets(ring) + inRings
       /\ Packets(hand') = Packets(hand) + inHands
  BY DEF Moves
<1>11. /\ Unaccounted(g) = Len(burst') + Packets(worker_buffers') + Packets(ring')
       /\ Unchecked(g) = Packets(hand')
  BY <1>7, <1>8, <1>9, <1>10, HeldTypes
<1>12. IsFiniteSet(Protocols)
  BY ProtocolsFinite
<1>13. g["spi_rule_checks"] = SumFunctionOnSet(g, Protocols)
  <2>1. CASE cs \cap Protocols = {} /\ "spi_rule_checks" \notin cs
    <3>1. \A c \in Protocols : f[c] \in Nat /\ f[c] = g[c]
      BY <1>4, <1>5, <2>1, Figures DEF Grown
    <3>2. SumFunctionOnSet(f, Protocols) = SumFunctionOnSet(g, Protocols)
      BY <1>12, <3>1, SumSame
    <3>3. g["spi_rule_checks"] = f["spi_rule_checks"]
      BY <1>4, <1>5, <2>1, Figures DEF Grown
    <3> QED
      BY <1>7, <3>2, <3>3
  <2>2. ASSUME NEW p \in Protocols, cs \cap Protocols = {p}, "spi_rule_checks" \in cs
        PROVE  g["spi_rule_checks"] = SumFunctionOnSet(g, Protocols)
    <3>1. \A c \in Protocols : f[c] \in Nat /\ g[c] \in Nat
      BY <1>4, <1>6, Figures
    <3>2. \A c \in Protocols : c # p => g[c] = f[c]
      BY <1>4, <1>5, <2>2, Figures DEF Grown
    <3>3. SumFunctionOnSet(g, Protocols) = SumFunctionOnSet(f, Protocols) + (g[p] - f[p])
      BY <1>12, <2>2, <3>1, <3>2, SumChange
    <3>4. p \in cs /\ p \in Counters
      BY <2>2, Figures
    <3>5. g[p] - f[p] = n
      BY <1>4, <1>5, <3>4 DEF Grown
    <3>6. g["spi_rule_checks"] = f["spi_rule_checks"] + n
      BY <1>5, <2>2, Figures DEF Grown
    <3> QED
      BY <1>7, <3>3, <3>5, <3>6
  <2> QED
    BY <2>1, <2>2 DEF Balanced
<1> QED
  BY <1>2, <1>11, <1>13 DEF EveryPacketCounted

\* The steps of the dispatcher and the workers keep what is claimed of packets, and
\* count in one lcore, but never under OTHER.
CountsSomewhere ==
    \E l \in Lcores, cs \in SUBSET (Counters \ {"other_pkts"}), n \in Nat :
       PacketStep(l, cs, n)

\* Each step of the dispatcher and of a worker keeps the account.
LEMMA PacketSteps ==
    ASSUME TypeOK, PacketInv, EveryPacketCounted,
           D_Rx \/ DispatcherStep \/ \E w \in Workers : WorkerStep(w)
    PROVE  PacketInv' /\ EveryPacketCounted' /\ CountsSomewhere
<1>1. ASSUME NEW l, NEW cs, NEW n \in Nat, PacketStep(l, cs, n),
             NEW a \in Int, NEW b \in Int, NEW r \in Int, NEW h \in Int,
             Moves(a, b, r, h), Balanced(cs, n, a, b, r, h), "other_pkts" \notin cs
      PROVE  EveryPacketCounted' /\ CountsSomewhere
  <2>1. EveryPacketCounted'
    BY <1>1, AccountKept
  <2>2. l \in Lcores /\ cs \subseteq CountersOf(l)
    BY <1>1 DEF PacketStep
  <2>3. CountersOf(l) \subseteq Counters
    BY <2>2, LcoreKinds, CounterKinds DEF CountersOf
  <2> QED
    BY <1>1, <2>1, <2>2, <2>3 DEF CountsSomewhere
<1>2. CASE D_Rx
  <2>1. PICK n \in Nat : PacketStep("dispatcher", {"rx_pkts"}, n) /\ Moves(n, 0, 0, 0)
    BY <1>2, RxPackets
  <2>2. Balanced({"rx_pkts"}, n, n, 0, 0, 0)
    BY DEF Balanced, Grown, Protocols
  <2> QED
    BY <1>1, <1>2, <2>1, <2>2, RxPackets
<1>3. CASE D_Filter
  <2>1. burst # <<>> /\ SteerHead({})
        /\ PacketStep("dispatcher", {"rx_filtered_pkts"}, 1)
    <3>1. {"rx_filtered_pkts"} \subseteq CountersOf("dispatcher")
      BY LcoreKinds DEF DispatcherCounters
    <3> QED
      BY <1>3, <3>1, LcoreKinds DEF PacketStep, D_Filter, SteerHead, DispatcherFrame
  <2>2. PacketInv' /\ Moves(-1, 0, 0, 0)
    BY <2>1, SteerPackets
  <2>3. Balanced({"rx_filtered_pkts"}, 1, -1, 0, 0, 0)
    BY DEF Balanced, Grown, Protocols
  <2> QED
    BY <1>1, <2>1, <2>2, <2>3
<1>4. CASE D_Steer
  <2>1. PICK cs \in {{}, {"hash_add_failures", "flow_add_retry_success"}} :
           Count("dispatcher", cs, 1)
    BY <1>4 DEF D_Steer
  <2>2. PacketStep("dispatcher", cs, 1)
    <3>1. cs \subseteq CountersOf("dispatcher")
      BY LcoreKinds DEF DispatcherCounters
    <3> QED
      BY <1>4, <2>1, <3>1, LcoreKinds DEF PacketStep, D_Steer, SteerHead, DispatcherFrame
  <2>3. burst # <<>> /\ Parses /\ SteerHead(Workers)
    BY <1>4 DEF D_Steer, Parses
  <2>4. PacketInv' /\ Moves(-1, IF Workers = {} THEN 0 ELSE 1, 0, 0)
    BY <2>3, SteerPackets
  <2>5. Workers # {}
    BY ReportAssumption
  <2>6. Balanced(cs, 1, -1, 1, 0, 0)
    BY <2>1 DEF Balanced, Grown, Protocols
  <2> QED
    BY <1>1, <2>1, <2>2, <2>4, <2>5, <2>6
<1>5. CASE D_NoFlow
  <2>1. burst # <<>> /\ SteerHead({})
        /\ PacketStep("dispatcher", {"hash_add_failures"}, 1)
    <3>1. {"hash_add_failures"} \subseteq CountersOf("dispatcher")
      BY LcoreKinds DEF DispatcherCounters
    <3> QED
      BY <1>5, <3>1, LcoreKinds
        DEF PacketStep, D_NoFlow, Parses, SteerHead, DispatcherFrame
  <2>2. PacketInv' /\ Moves(-1, 0, 0, 0)
    BY <2>1, SteerPackets
  <2>3. Balanced({"hash_add_failures"}, 1, -1, 0, 0, 0)
    BY DEF Balanced, Grown, Protocols
  <2> QED
    BY <1>1, <2>1, <2>2, <2>3
<1>6. ASSUME NEW w \in Workers, D_Enqueue(w)
      PROVE  PacketInv' /\ EveryPacketCounted' /\ CountsSomewhere
  <2>1. PICK len \in Nat, sent \in Nat :
           /\ sent <= len
           /\ PacketStep("dispatcher", {"ring_drop_pkts"}, len - sent)
           /\ Moves(0, -len, sent, 0)
    BY <1>6, EnqueuePackets
  <2>2. len - sent \in Nat /\ -len \in Int
    BY <2>1
  <2>3. Balanced({"ring_drop_pkts"}, len - sent, 0, -len, sent, 0)
    BY <2>2 DEF Balanced, Grown, Protocols
  <2>4. PacketInv'
    BY <1>6, EnqueuePackets
  <2> QED
    BY <1>1, <2>1, <2>2, <2>3, <2>4
<1>7. ASSUME NEW w \in Workers, W_Dequeue(w)
      PROVE  PacketInv' /\ EveryPacketCounted' /\ CountsSomewhere
  <2>1. PICK n \in Nat : PacketStep(w, {"worker_rx_pkts"}, n) /\ Moves(0, 0, -n, n)
    BY <1>7, DequeuePackets
  <2>2. Balanced({"worker_rx_pkts"}, n, 0, 0, -n, n)
    BY DEF Balanced, Grown, Protocols
  <2>3. PacketInv'
    BY <1>7, DequeuePackets
  <2> QED
    BY <1>1, <2>1, <2>2, <2>3
<1>8. ASSUME NEW w \in Workers, W_Check(w)
      PROVE  PacketInv' /\ EveryPacketCounted' /\ CountsSomewhere
  <2>1. PICK protocol \in Protocols \ {"other_pkts"},
             verdict \in {"spi_pkts_dropped", "spi_pkts_forwarded"} :
           /\ PacketStep(w, {"spi_rule_checks", protocol, verdict}, 1)
           /\ Moves(0, 0, 0, -1)
    BY <1>8, CheckPackets
  <2> DEFINE cs == {"spi_rule_checks", protocol, verdict}
  <2>2. cs \cap Protocols = {protocol} /\ "spi_rule_checks" \in cs
    BY DEF Protocols
  <2>3. /\ Grown("rx_pkts", cs, 1) = 0 /\ Grown("rx_filtered_pkts", cs, 1) = 0
        /\ Grown("ring_drop_pkts", cs, 1) = 0 /\ Grown("hash_add_failures", cs, 1) = 0
        /\ Grown("flow_add_retry_success", cs, 1) = 0
        /\ Grown("worker_rx_pkts", cs, 1) = 0
    BY DEF Grown, Protocols
  <2>4. Grown("spi_pkts_dropped", cs, 1) + Grown("spi_pkts_forwarded", cs, 1) = 1
        /\ Grown("spi_pkts_dropped", cs, 1) \in Nat
        /\ Grown("spi_pkts_forwarded", cs, 1) \in Nat
    BY DEF Grown, Protocols
  <2>5. "other_pkts" \notin cs
    OBVIOUS
  <2> HIDE DEF cs
  <2>6. Balanced(cs, 1, 0, 0, 0, -1)
    BY <2>2, <2>3, <2>4 DEF Balanced
  <2>7. PacketInv'
    BY <1>8, CheckPackets
  <2> QED
    BY <1>1, <2>1, <2>5, <2>6, <2>7 DEF cs
<1> QED
  BY <1>2, <1>3, <1>4, <1>5, <1>6, <1>7, <1>8 DEF DispatcherStep, WorkerStep

-----------------------------------------------------------------------------
(* What a packet step keeps of the report's invariants.                    *)

\* While the packets move on, the report stays and no counter falls.
LEMMA CountsGrow ==
    ASSUME TypeOK, CountsSomewhere
    PROVE  /\ CounterTypes /\ CounterTypes' /\ UNCHANGED reportVars
           /\ \A c \in Counters, k \in Lcores :
                 /\ Counted(c)[k] \in Nat /\ Counted(c)'[k] \in Nat
                 /\ Counted(c)[k] <= Counted(c)'[k]
           /\ \A w \in Workers : lcore_stats'[w]["other_pkts"] = lcore_stats[w]["other_pkts"]
<1>1. PICK l \in Lcores, cs \in SUBSET (Counters \ {"other_pkts"}), n \in Nat :
         PacketStep(l, cs, n)
  BY DEF CountsSomewhere
<1>2. CounterTypes /\ CounterTypes' /\ UNCHANGED reportVars
  BY <1>1, TypeParts, PacketStepTypes DEF PacketStep
<1>3. \A c \in Counters, k \in Lcores : Counted(c)[k] <= Counted(c)'[k]
  BY <1>1, StepCounts
<1>4. \A c \in Counters, k \in Lcores : Counted(c)[k] \in Nat
  BY <1>2, CountedTypes
<1>5. \A c \in Counters, k \in Lcores : Counted(c)'[k] \in Nat
  BY <1>2 DEF Counted, CounterTypes
<1>6. ASSUME NEW w \in Workers
      PROVE  lcore_stats'[w]["other_pkts"] = lcore_stats[w]["other_pkts"]
  <2>1. /\ \A k \in Lcores : k # l => lcore_stats'[k] = lcore_stats[k]
        /\ \A c \in CountersOf(l) :
              lcore_stats'[l][c] = lcore_stats[l][c] + (IF c \in cs THEN n ELSE 0)
    BY <1>1, CountEffect DEF PacketStep
  <2>2. w \in Lcores /\ "other_pkts" \in CountersOf(w) /\ "other_pkts" \in WorkerCounters
    BY LcoreKinds DEF WorkerCounters, Protocols
  <2>3. lcore_stats[w]["other_pkts"] \in Nat
    BY <1>2, <2>2, WorkerCounterTypes
  <2> QED
    BY <1>1, <2>1, <2>2, <2>3
<1> QED
  BY <1>2, <1>3, <1>4, <1>5, <1>6

\* Nor does the sum over any of the lcores.
LEMMA SumsGrow ==
    ASSUME TypeOK, CountsSomewhere, NEW c \in Counters, NEW S \in SUBSET Lcores
    PROVE  /\ SumFunctionOnSet(Counted(c), S) \in Nat
           /\ SumFunctionOnSet(Counted(c)', S) \in Nat
           /\ SumFunctionOnSet(Counted(c), S) <= SumFunctionOnSet(Counted(c)', S)
<1>1. IsFiniteSet(S)
  BY LcoresFinite, FS_Subset
<1>2. PICK f : f = Counted(c)
  OBVIOUS
<1>3. PICK g : g = Counted(c)'
  OBVIOUS
<1>4. \A k \in S : f[k] \in Nat /\ g[k] \in Nat /\ f[k] <= g[k]
  BY <1>2, <1>3, CountsGrow
<1>5. SumFunctionOnSet(f, S) <= SumFunctionOnSet(g, S)
  BY <1>1, <1>4, SumMonotonic
<1>6. SumFunctionOnSet(f, S) \in Nat /\ SumFunctionOnSet(g, S) \in Nat
  BY <1>1, <1>4, SumType
<1> QED
  BY <1>2, <1>3, <1>5, <1>6

\* OTHER is not counted by them.
LEMMA PacketStepsKeepParsed ==
    ASSUME TypeOK, ParsedInv, PacketInv', CountsSomewhere
    PROVE  ParsedInv'
  BY CountsGrow DEF ParsedInv, PacketInv

\* The totals in the making stay between the last report's and the sums.
LEMMA PacketStepsKeepTotals ==
    ASSUME TypeOK, TotalsInv, CountsSomewhere
    PROVE  TotalsInv'
<1>1. /\ spc' = spc /\ unread' = unread /\ totals' = totals
      /\ prev_totals' = prev_totals
  BY CountsGrow DEF reportVars
<1>2. totals \in [Counters -> Nat] /\ prev_totals \in [Counters -> Nat]
  BY DEF TypeOK
<1>3. ToSet(unread) \subseteq Lcores
  BY DEF TypeOK, ToSet
<1>4. ASSUME NEW c \in Counters
      PROVE  prev_totals[c] <= SumFunctionOnSet(Counted(c)', Lcores)
  <2>1. prev_totals[c] <= SumFunctionOnSet(Counted(c), Lcores)
    BY DEF TotalsInv
  <2>2. PICK m \in Nat : m = SumFunctionOnSet(Counted(c), Lcores)
    BY SumsGrow
  <2>3. PICK n \in Nat : n = SumFunctionOnSet(Counted(c)', Lcores)
    BY SumsGrow
  <2>4. m <= n
    BY <2>2, <2>3, SumsGrow
  <2> QED
    BY <1>2, <2>1, <2>2, <2>3, <2>4
<1>5. ASSUME spc \in {"totals", "workers"}, NEW c \in Counters
      PROVE  /\ prev_totals[c] <= totals[c] + SumFunctionOnSet(Counted(c)', ToSet(unread))
             /\ totals[c] <= SumFunctionOnSet(Counted(c)', Lcores \ ToSet(unread))
  <2>1. /\ prev_totals[c] <= totals[c] + SumFunctionOnSet(Counted(c), ToSet(unread))
        /\ totals[c] <= SumFunctionOnSet(Counted(c), Lcores \ ToSet(unread))
    BY <1>5 DEF TotalsInv
  <2>2. ToSet(unread) \in SUBSET Lcores /\ Lcores \ ToSet(unread) \in SUBSET Lcores
    BY <1>3
  <2>3. PICK R : R = ToSet(unread)
    OBVIOUS
  <2>4. PICK m1 \in Nat, n1 \in Nat :
           /\ m1 = SumFunctionOnSet(Counted(c), R)
           /\ n1 = SumFunctionOnSet(Counted(c)', R) /\ m1 <= n1
    BY <2>2, <2>3, SumsGrow
  <2>5. PICK m2 \in Nat, n2 \in Nat :
           /\ m2 = SumFunctionOnSet(Counted(c), Lcores \ R)
           /\ n2 = SumFunctionOnSet(Counted(c)', Lcores \ R) /\ m2 <= n2
    BY <2>2, <2>3, SumsGrow
  <2>6. totals[c] \in Nat /\ prev_totals[c] \in Nat
    BY <1>2
  <2>7. prev_totals[c] <= totals[c] + m1 /\ totals[c] <= m2
    BY <2>1, <2>3, <2>4, <2>5
  <2>8. prev_totals[c] <= totals[c] + n1 /\ totals[c] <= n2
    BY <2>4, <2>5, <2>6, <2>7
  <2> QED
    BY <2>3, <2>4, <2>5, <2>8
<1>6. /\ spc = "totals" => IsInjective(unread)
      /\ spc = "workers" => unread = <<>>
  BY DEF TotalsInv
<1> QED
  BY <1>1, <1>4, <1>5, <1>6 DEF TotalsInv

\* The counters of a worker line, their baselines and what is shown of them.
LEMMA BaselineTypes ==
    ASSUME TypeOK, NEW c \in WorkerBaselines, NEW w \in Workers
    PROVE  /\ lcore_stats[w][c] \in Nat /\ prev_worker[w][c] \in Nat
           /\ shown[w][c] \in Nat /\ c \in Counters /\ c \in WorkerCounters
           /\ w \in Lcores /\ Counted(c)[w] = lcore_stats[w][c]
<1>1. c \in Counters /\ c \in WorkerCounters /\ w \in Lcores
  BY CounterKinds, LcoreKinds
<1>2. lcore_stats[w][c] \in Nat /\ Counted(c)[w] = lcore_stats[w][c]
  BY <1>1, TypeParts, WorkerCounterTypes
<1>3. /\ prev_worker \in [Workers -> [WorkerBaselines -> Nat]]
      /\ shown \in [Workers -> [WorkerBaselines -> Nat]]
  BY DEF TypeOK
<1> QED
  BY <1>1, <1>2, <1>3

\* The counters may move ahead of their baselines, never behind.
LEMMA PacketStepsKeepBaselines ==
    ASSUME TypeOK, BaselineInv, CountsSomewhere
    PROVE  BaselineInv'
<1>1. /\ spc' = spc /\ totals' = totals /\ prev_totals' = prev_totals
      /\ to_show' = to_show /\ prev_worker' = prev_worker /\ shown' = shown
  BY CountsGrow DEF reportVars
<1>2. ASSUME NEW w \in Workers, NEW c \in WorkerBaselines
      PROVE  /\ lcore_stats'[w][c] \in Nat
             /\ lcore_stats[w][c] <= lcore_stats'[w][c]
  <2>1. c \in CountersOf(w) /\ w \in Lcores /\ c \in Counters
    BY LcoreKinds, CounterKinds, BaselineTypes
  <2>2. Counted(c)[w] = lcore_stats[w][c] /\ Counted(c)'[w] = lcore_stats'[w][c]
    BY <2>1 DEF Counted
  <2> QED
    BY <2>1, <2>2, CountsGrow
<1>3. \A w \in Workers, c \in WorkerBaselines : prev_worker[w][c] <= lcore_stats'[w][c]
  <2> SUFFICES ASSUME NEW w \in Workers, NEW c \in WorkerBaselines
               PROVE  prev_worker[w][c] <= lcore_stats'[w][c]
    OBVIOUS
  <2>1. prev_worker[w][c] <= lcore_stats[w][c]
    BY DEF BaselineInv
  <2> QED
    BY <1>2, <2>1, BaselineTypes
<1>4. ASSUME spc = "workers", NEW c \in WorkerBaselines
      PROVE  totals[c] <= SumFunctionOnSet(NextBaseline(c)', Workers)
  <2>1. PICK f : f = NextBaseline(c)
    OBVIOUS
  <2>2. PICK g : g = NextBaseline(c)'
    OBVIOUS
  <2>3. \A w \in Workers : f[w] \in Nat /\ g[w] \in Nat /\ f[w] <= g[w]
    BY <1>1, <1>2, <2>1, <2>2, BaselineTypes DEF NextBaseline
  <2>4. PICK m \in Nat, n \in Nat :
           /\ m = SumFunctionOnSet(f, Workers) /\ n = SumFunctionOnSet(g, Workers)
           /\ m <= n
    BY <2>3, LcoresFinite, SumMonotonic, SumType
  <2>5. totals[c] <= m
    BY <1>4, <2>1, <2>4 DEF BaselineInv
  <2>6. totals[c] \in Nat
    BY BaselineTypes, CounterKinds DEF TypeOK
  <2> QED
    BY <2>2, <2>4, <2>5, <2>6
<1>5. /\ \A w \in Workers : (spc # "workers" \/ w \in to_show) =>
            \A c \in WorkerBaselines : shown[w][c] = 0
      /\ \A c \in WorkerBaselines :
            prev_totals[c] + SumFunctionOnSet([w \in Workers |-> shown[w][c]], Workers)
               <= SumFunctionOnSet([w \in Workers |-> prev_worker[w][c]], Workers)
  BY DEF BaselineInv
<1> QED
  BY <1>1, <1>3, <1>4, <1>5 DEF BaselineInv

-----------------------------------------------------------------------------
(* What a report step keeps.                                               *)

\* The stats thread counts nothing: the sums stay.
LEMMA ReportCountsNothing ==
    ASSUME TypeOK, PacketInv, ParsedInv, EveryPacketCounted, ReportFrame
    PROVE  /\ PacketInv' /\ ParsedInv' /\ EveryPacketCounted'
           /\ \A c : Counted(c)' = Counted(c)
           /\ lcore_stats' = lcore_stats
<1>1. UNCHANGED <<lcore_stats, burst, worker_buffers, ring, hand>>
  BY DEF ReportFrame, packetVars
<1>2. PacketInv'
  BY TypeParts, ReportLeavesPackets
<1>3. ParsedInv'
  BY <1>1, <1>2 DEF ParsedInv, PacketInv
<1>4. Sums' = Sums
  BY <1>1 DEF Sums
<1>5. EveryPacketCounted'
  BY <1>1, <1>4 DEF EveryPacketCounted, Packets
<1>6. \A c : Counted(c)' = Counted(c)
  BY <1>1 DEF Counted
<1> QED
  BY <1>1, <1>2, <1>3, <1>5, <1>6

\* What has been read of an lcore leaves what is to be read.
LEMMA UnreadHead ==
    ASSUME TypeOK, spc = "totals", unread # <<>>, IsInjective(unread)
    PROVE  /\ Head(unread) \in ToSet(unread) /\ Head(unread) \in Lcores
           /\ Tail(unread) \in Seq(Lcores) /\ IsInjective(Tail(unread))
           /\ ToSet(Tail(unread)) = ToSet(unread) \ {Head(unread)}
<1>1. unread \in Seq(Lcores)
  BY DEF TypeOK
<1>2. \A i, j \in DOMAIN unread : unread[i] = unread[j] => i = j
  BY DEF IsInjective
<1>3. PICK t : t = Tail(unread)
  OBVIOUS
<1>4. PICK n \in Nat : n = Len(unread) /\ n >= 1
  BY <1>1, LenType
<1>5. /\ t \in Seq(Lcores) /\ Len(t) = n - 1 /\ DOMAIN t = 1 .. n - 1
      /\ \A i \in 1 .. n - 1 : t[i] = unread[i + 1]
      /\ DOMAIN unread = 1 .. n /\ Head(unread) = unread[1]
  BY <1>1, <1>3, <1>4
<1>6. ToSet(t) = ToSet(unread) \ {unread[1]}
  <2>1. ASSUME NEW i \in DOMAIN t
        PROVE  t[i] \in ToSet(unread) /\ t[i] # unread[1]
    <3>1. i + 1 \in DOMAIN unread /\ 1 \in DOMAIN unread /\ i + 1 # 1
      BY <1>4, <1>5, <2>1
    <3>2. t[i] = unread[i + 1]
      BY <1>5, <2>1
    <3> QED
      BY <1>2, <3>1, <3>2 DEF ToSet
  <2>2. ASSUME NEW i \in DOMAIN unread, unread[i] # unread[1]
        PROVE  unread[i] \in ToSet(t)
    <3>1. i - 1 \in DOMAIN t /\ t[i - 1] = unread[(i - 1) + 1] /\ (i - 1) + 1 = i
      BY <1>4, <1>5, <2>2
    <3> QED
      BY <3>1 DEF ToSet
  <2> QED
    BY <2>1, <2>2 DEF ToSet
<1>7. IsInjective(t)
  <2> SUFFICES ASSUME NEW i \in DOMAIN t, NEW j \in DOMAIN t, t[i] = t[j]
               PROVE  i = j
    BY DEF IsInjective
  <2>1. /\ i + 1 \in DOMAIN unread /\ j + 1 \in DOMAIN unread
        /\ unread[i + 1] = unread[j + 1] /\ i \in Int /\ j \in Int
    BY <1>4, <1>5
  <2>2. i + 1 = j + 1
    BY <1>2, <2>1
  <2> QED
    BY <2>1, <2>2
<1>8. unread[1] \in ToSet(unread) /\ unread[1] \in Lcores
  BY <1>1, <1>4, <1>5 DEF ToSet
<1> QED
  BY <1>3, <1>5, <1>6, <1>7, <1>8

\* stats_collect_totals reads one lcore after the other.
LEMMA ReadKeepsTotals ==
    ASSUME TypeOK, PacketInv, ParsedInv, EveryPacketCounted, TotalsInv, R_Read
    PROVE  TotalsInv'
<1>1. /\ spc = "totals" /\ unread # <<>> /\ spc' = spc /\ unread' = Tail(unread)
      /\ prev_totals' = prev_totals /\ ReportFrame
  BY DEF R_Read
<1>2. IsInjective(unread)
  BY <1>1 DEF TotalsInv
<1>3. PICK U, l : U = ToSet(unread) /\ l = Head(unread)
  OBVIOUS
<1>4. /\ l \in U /\ l \in Lcores /\ IsInjective(Tail(unread))
      /\ ToSet(Tail(unread)) = U \ {l}
  BY <1>1, <1>2, <1>3, UnreadHead
<1>5. U \subseteq Lcores
  BY <1>3 DEF TypeOK, ToSet
<1>6. /\ IsFiniteSet(U) /\ IsFiniteSet(U \ {l}) /\ IsFiniteSet(Lcores \ U)
      /\ IsFiniteSet(Lcores \ (U \ {l}))
  BY <1>5, LcoresFinite, FS_Subset, FS_Difference
<1>7. CounterTypes
  BY TypeParts
<1>8. ASSUME NEW c \in Counters
      PROVE  /\ prev_totals[c] <= totals'[c] + SumFunctionOnSet(Counted(c), U \ {l})
             /\ totals'[c] <= SumFunctionOnSet(Counted(c), Lcores \ (U \ {l}))
  <2>1. PICK f : f = Counted(c)
    OBVIOUS
  <2>2. \A k \in Lcores : f[k] \in Nat
    BY <1>7, <2>1, CountedTypes
  <2>3. PICK toRead \in Nat, left \in Nat, done \in Nat, both \in Nat :
           /\ toRead = SumFunctionOnSet(f, U)
           /\ left = SumFunctionOnSet(f, U \ {l})
           /\ done = SumFunctionOnSet(f, Lcores \ U)
           /\ both = SumFunctionOnSet(f, Lcores \ (U \ {l}))
    BY <1>5, <1>6, <2>2, SumType
  <2>4. toRead = f[l] + left
    BY <1>4, <1>5, <1>6, <2>2, <2>3, SumTakesOut
  <2>5. both = f[l] + done
    <3>1. (Lcores \ (U \ {l})) \ {l} = Lcores \ U /\ l \in Lcores \ (U \ {l})
      BY <1>4
    <3>2. \A k \in Lcores \ (U \ {l}) : f[k] \in Nat
      BY <2>2
    <3>3. SumFunctionOnSet(f, Lcores \ (U \ {l}))
            = f[l] + SumFunctionOnSet(f, (Lcores \ (U \ {l})) \ {l})
      BY <1>6, <3>1, <3>2, SumTakesOut
    <3> QED
      BY <2>3, <3>1, <3>3
  <2>6. totals'[c] = totals[c] + f[l]
    <3>1. lcore_stats[l] \in [CountersOf(l) -> Nat]
      BY <1>4, <1>7 DEF CounterTypes
    <3>2. totals'[c] = IF c \in CountersOf(l) THEN totals[c] + lcore_stats[l][c]
                       ELSE totals[c]
      <4>1. totals' = [d \in Counters |->
                         IF d \in DOMAIN lcore_stats[Head(unread)]
                         THEN totals[d] + lcore_stats[Head(unread)][d] ELSE totals[d]]
        BY DEF R_Read
      <4> QED
        BY <1>3, <3>1, <4>1
    <3>3. f[l] = IF c \in CountersOf(l) THEN lcore_stats[l][c] ELSE 0
      BY <1>4, <1>7, <2>1, CountedTypes
    <3>4. totals[c] \in Nat
      BY DEF TypeOK
    <3> QED
      BY <3>2, <3>3, <3>4
  <2>7. prev_totals[c] <= totals[c] + toRead /\ totals[c] <= done
    BY <1>1, <1>3, <2>1, <2>3 DEF TotalsInv
  <2>8. f[l] \in Nat /\ totals[c] \in Nat /\ prev_totals[c] \in Nat
    BY <1>4, <2>2 DEF TypeOK
  <2>9. prev_totals[c] <= totals'[c] + left /\ totals'[c] <= both
    BY <2>3, <2>4, <2>5, <2>6, <2>7, <2>8
  <2> QED
    BY <2>1, <2>3, <2>9
<1>9. \A c : Counted(c)' = Counted(c)
  BY <1>1, ReportCountsNothing
<1>10. ToSet(unread') = U \ {l}
  BY <1>1, <1>4
<1>11. \A c \in Counters : prev_totals[c] <= SumFunctionOnSet(Counted(c), Lcores)
  BY DEF TotalsInv
<1> QED
  BY <1>1, <1>4, <1>8, <1>9, <1>10, <1>11 DEF TotalsInv

\* The reports as far as the totals go.
LEMMA ReportKeepsTotals ==
    ASSUME TypeOK, PacketInv, ParsedInv, EveryPacketCounted, TotalsInv,
           R_Command \/ R_Tick \/ R_Read \/ R_Totals \/ R_Worker \/ R_End
    PROVE  TotalsInv'
<1>1. /\ \A c : Counted(c)' = Counted(c)
      /\ \A c \in Counters : prev_totals[c] <= SumFunctionOnSet(Counted(c), Lcores)
  BY ReportTypesKept, ReportCountsNothing DEF TotalsInv
<1>2. CounterTypes /\ \A c : SumFunctionOnSet(Counted(c), {}) = 0
  BY TypeParts, SumEmpty
<1>3. totals \in [Counters -> Nat] /\ prev_totals \in [Counters -> Nat]
  BY DEF TypeOK
<1>4. CASE R_Command
  <2>1. spc = "tick" /\ spc' = "tick" /\ prev_totals' = prev_totals
    BY <1>4 DEF R_Command
  <2> QED
    BY <1>1, <2>1 DEF TotalsInv
<1>5. CASE R_Tick
  <2>1. spc = "tick" /\ prev_totals' = prev_totals
    BY <1>5 DEF R_Tick
  <2>2. CASE spc' = "tick"
    BY <1>1, <2>1, <2>2 DEF TotalsInv
  <2>3. CASE spc' # "tick"
    <3>1. spc' = "totals" /\ unread' = LcoreOrder /\ totals' = Zero
      BY <1>5, <2>1, <2>3 DEF R_Tick
    <3>2. ToSet(unread') = Lcores /\ IsInjective(unread') /\ Lcores \ Lcores = {}
      BY <3>1, ReportAssumption DEF Lcores
    <3>3. ASSUME NEW c \in Counters
          PROVE  /\ prev_totals[c] <= totals'[c] + SumFunctionOnSet(Counted(c), Lcores)
                 /\ totals'[c] <= SumFunctionOnSet(Counted(c), {})
      <4>1. totals'[c] = 0
        BY <3>1 DEF Zero
      <4>2. PICK n : n = SumFunctionOnSet(Counted(c), Lcores)
        OBVIOUS
      <4>3. n \in Nat /\ prev_totals[c] <= n
        BY <1>1, <1>2, <4>2, SumsAreCounted
      <4>4. prev_totals[c] <= totals'[c] + n
        BY <1>3, <4>1, <4>3
      <4>5. totals'[c] <= SumFunctionOnSet(Counted(c), {})
        BY <1>2, <4>1
      <4> QED
        BY <4>2, <4>4, <4>5
    <3> QED
      BY <1>1, <2>1, <3>1, <3>2, <3>3 DEF TotalsInv
  <2> QED
    BY <2>2, <2>3
<1>6. CASE R_Read
  BY <1>6, ReadKeepsTotals
<1>7. CASE R_Totals
  <2>1. /\ spc = "totals" /\ spc' = "workers" /\ unread = <<>> /\ unread' = unread
        /\ prev_totals' = prev_totals /\ totals' = totals
    BY <1>7 DEF R_Totals
  <2>2. \A c \in Counters :
           /\ prev_totals[c] <= totals[c] + SumFunctionOnSet(Counted(c), ToSet(unread))
           /\ totals[c] <= SumFunctionOnSet(Counted(c), Lcores \ ToSet(unread))
    BY <2>1 DEF TotalsInv
  <2> QED
    BY <1>1, <2>1, <2>2 DEF TotalsInv
<1>8. CASE R_Worker
  <2>1. /\ spc = "workers" /\ spc' = spc /\ unread' = unread
        /\ prev_totals' = prev_totals /\ totals' = totals
    BY <1>8 DEF R_Worker
  <2>2. /\ unread = <<>>
        /\ \A c \in Counters :
           /\ prev_totals[c] <= totals[c] + SumFunctionOnSet(Counted(c), ToSet(unread))
           /\ totals[c] <= SumFunctionOnSet(Counted(c), Lcores \ ToSet(unread))
    BY <2>1 DEF TotalsInv
  <2> QED
    BY <1>1, <2>1, <2>2 DEF TotalsInv
<1>9. CASE R_End
  <2>1. spc = "workers" /\ spc' = "tick" /\ prev_totals' = totals
    BY <1>9 DEF R_End
  <2>2. unread = <<>> /\ Lcores \ ToSet(unread) = Lcores
    <3>1. unread = <<>>
      BY <2>1 DEF TotalsInv
    <3> QED
      BY <3>1 DEF ToSet
  <2>3. \A c \in Counters : totals[c] <= SumFunctionOnSet(Counted(c), Lcores)
    <3> SUFFICES ASSUME NEW c \in Counters
                 PROVE  totals[c] <= SumFunctionOnSet(Counted(c), Lcores)
      OBVIOUS
    <3>1. totals[c] <= SumFunctionOnSet(Counted(c), Lcores \ ToSet(unread))
      BY <2>1 DEF TotalsInv
    <3> QED
      BY <2>2, <3>1
  <2> QED
    BY <1>1, <2>1, <2>3 DEF TotalsInv
<1> QED
  BY <1>4, <1>5, <1>6, <1>7, <1>8, <1>9

\* The totals that have been collected are at most the true sums.
LEMMA TotalsAreBehind ==
    ASSUME TypeOK, TotalsInv, spc \in {"totals", "workers"}, unread = <<>>,
           NEW c \in Counters
    PROVE  prev_totals[c] <= totals[c] /\ totals[c] <= Sums[c]
<1>1. ToSet(unread) = {}
  BY DEF ToSet
<1>2. Lcores \ ToSet(unread) = Lcores /\ SumFunctionOnSet(Counted(c), ToSet(unread)) = 0
  BY <1>1, SumEmpty
<1>3. /\ prev_totals[c] <= totals[c] + SumFunctionOnSet(Counted(c), ToSet(unread))
      /\ totals[c] <= SumFunctionOnSet(Counted(c), Lcores \ ToSet(unread))
  BY DEF TotalsInv
<1>4. totals[c] \in Nat
  BY DEF TypeOK
<1>5. Sums[c] = SumFunctionOnSet(Counted(c), Lcores)
  BY TypeParts, SumsAreCounted
<1>6. totals[c] <= Sums[c]
  <2>1. PICK S : S = Lcores \ ToSet(unread)
    OBVIOUS
  <2>2. totals[c] <= SumFunctionOnSet(Counted(c), S) /\ S = Lcores
    BY <1>2, <1>3, <2>1
  <2> QED
    BY <1>5, <2>2
<1>7. prev_totals[c] <= totals[c]
  <2>1. PICK n : n = SumFunctionOnSet(Counted(c), ToSet(unread))
    OBVIOUS
  <2>2. n = 0 /\ prev_totals[c] <= totals[c] + n
    BY <1>2, <1>3, <2>1
  <2> QED
    BY <1>4, <2>2
<1> QED
  BY <1>6, <1>7

\* A worker line shows no more than its baseline moves.
LEMMA WorkerLineKeepsBaselines ==
    ASSUME TypeOK, PacketInv, ParsedInv, EveryPacketCounted, BaselineInv, R_Worker
    PROVE  BaselineInv'
<1>1. PICK w \in to_show :
         /\ to_show' = to_show \ {w}
         /\ shown' = IF view = "WORKERS"
                     THEN [shown EXCEPT ![w] =
                             [c \in WorkerBaselines |->
                                Growth(lcore_stats[w][c], prev_worker[w][c])]]
                     ELSE shown
         /\ prev_worker' = [prev_worker EXCEPT ![w] =
                              [c \in WorkerBaselines |-> lcore_stats[w][c]]]
  BY DEF R_Worker, Refresh
<1>2. /\ spc = "workers" /\ spc' = spc /\ totals' = totals /\ prev_totals' = prev_totals
      /\ lcore_stats' = lcore_stats /\ w \in Workers
  BY ReportTypesKept, ReportCountsNothing DEF R_Worker, TypeOK
<1>3. /\ shown \in [Workers -> [WorkerBaselines -> Nat]]
      /\ prev_worker \in [Workers -> [WorkerBaselines -> Nat]]
  BY DEF TypeOK
<1>4. ASSUME NEW v \in Workers, v # w
      PROVE  shown'[v] = shown[v] /\ prev_worker'[v] = prev_worker[v]
  BY <1>1, <1>2, <1>3, <1>4
<1>5. ASSUME NEW c \in WorkerBaselines
      PROVE  /\ prev_worker'[w][c] = lcore_stats[w][c]
             /\ prev_worker[w][c] <= lcore_stats[w][c]
             /\ shown[w][c] = 0
             /\ shown'[w][c] \in Nat
             /\ shown'[w][c] <= lcore_stats[w][c] - prev_worker[w][c]
  <2>1. prev_worker'[w][c] = lcore_stats[w][c]
    BY <1>1, <1>2, <1>3
  <2>2. prev_worker[w][c] <= lcore_stats[w][c] /\ shown[w][c] = 0
    BY <1>1, <1>2 DEF BaselineInv
  <2>3. lcore_stats[w][c] \in Nat /\ prev_worker[w][c] \in Nat
    BY <1>2, BaselineTypes
  <2>4. \/ shown'[w][c] = Growth(lcore_stats[w][c], prev_worker[w][c])
        \/ shown'[w][c] = 0
    BY <1>1, <1>2, <1>3, <2>2
  <2>5. /\ Growth(lcore_stats[w][c], prev_worker[w][c]) \in Nat
        /\ Growth(lcore_stats[w][c], prev_worker[w][c])
              <= lcore_stats[w][c] - prev_worker[w][c]
    BY <2>2, <2>3 DEF Growth
  <2> QED
    BY <2>1, <2>2, <2>3, <2>4, <2>5
<1>6. \A v \in Workers, c \in WorkerBaselines : prev_worker'[v][c] <= lcore_stats[v][c]
  <2> SUFFICES ASSUME NEW v \in Workers, NEW c \in WorkerBaselines
               PROVE  prev_worker'[v][c] <= lcore_stats[v][c]
    OBVIOUS
  <2>1. CASE v = w
    <3>1. lcore_stats[w][c] \in Nat
      BY <1>2, BaselineTypes
    <3> QED
      BY <1>5, <2>1, <3>1
  <2>2. CASE v # w
    BY <1>4, <2>2 DEF BaselineInv
  <2> QED
    BY <2>1, <2>2
<1>7. \A v \in Workers : v \in to_show' => \A c \in WorkerBaselines : shown'[v][c] = 0
  BY <1>1, <1>2, <1>4 DEF BaselineInv
<1>8. ASSUME NEW c \in WorkerBaselines
      PROVE  /\ prev_totals[c] + SumFunctionOnSet([v \in Workers |-> shown'[v][c]], Workers)
                   <= SumFunctionOnSet([v \in Workers |-> prev_worker'[v][c]], Workers)
             /\ NextBaseline(c)' = NextBaseline(c)
  <2>1. PICK s : s = [v \in Workers |-> shown[v][c]]
    OBVIOUS
  <2>2. PICK p : p = [v \in Workers |-> prev_worker[v][c]]
    OBVIOUS
  <2>3. PICK t : t = [v \in Workers |-> shown'[v][c]]
    OBVIOUS
  <2>4. PICK q : q = [v \in Workers |-> prev_worker'[v][c]]
    OBVIOUS
  <2>5. \A v \in Workers : s[v] \in Nat /\ p[v] \in Nat
    BY <1>3, <2>1, <2>2
  <2>6. \A v \in Workers : v # w => t[v] = s[v] /\ q[v] = p[v]
    BY <1>4, <2>1, <2>2, <2>3, <2>4
  <2>7. /\ t[w] \in Nat /\ q[w] \in Nat /\ s[w] = 0 /\ p[w] \in Nat
        /\ t[w] <= q[w] - p[w]
    <3>1. lcore_stats[w][c] \in Nat /\ prev_worker[w][c] \in Nat
      BY <1>2, BaselineTypes
    <3> QED
      BY <1>2, <1>5, <2>1, <2>2, <2>3, <2>4, <3>1
  <2>8. \A v \in Workers : t[v] \in Nat /\ q[v] \in Nat
    BY <2>5, <2>6, <2>7
  <2>9. PICK S \in Nat, P \in Nat :
           S = SumFunctionOnSet(s, Workers) /\ P = SumFunctionOnSet(p, Workers)
    BY <2>5, LcoresFinite, SumType
  <2>10. SumFunctionOnSet(t, Workers) = S + (t[w] - s[w])
    BY <1>2, <2>5, <2>6, <2>8, <2>9, LcoresFinite, SumChange
  <2>11. SumFunctionOnSet(q, Workers) = P + (q[w] - p[w])
    BY <1>2, <2>5, <2>6, <2>8, <2>9, LcoresFinite, SumChange
  <2>12. prev_totals[c] + S <= P
    BY <2>1, <2>2, <2>9 DEF BaselineInv
  <2>13. prev_totals[c] \in Nat
    BY BaselineTypes, CounterKinds DEF TypeOK
  <2>14. prev_totals[c] + SumFunctionOnSet(t, Workers) <= SumFunctionOnSet(q, Workers)
    BY <2>7, <2>9, <2>10, <2>11, <2>12, <2>13
  <2>15. NextBaseline(c)' = NextBaseline(c)
    <3>1. \A v \in Workers :
             (IF v \in to_show' THEN lcore_stats[v][c] ELSE prev_worker'[v][c])
           = (IF v \in to_show THEN lcore_stats[v][c] ELSE prev_worker[v][c])
      BY <1>1, <1>4, <1>5
    <3> QED
      BY <1>2, <3>1 DEF NextBaseline
  <2> QED
    BY <2>3, <2>4, <2>14, <2>15
<1>9. \A c \in WorkerBaselines : totals[c] <= SumFunctionOnSet(NextBaseline(c)', Workers)
  BY <1>2, <1>8 DEF BaselineInv
<1> QED
  BY <1>2, <1>6, <1>7, <1>8, <1>9 DEF BaselineInv

\* The reports as far as the worker lines go.
LEMMA ReportKeepsBaselines ==
    ASSUME TypeOK, PacketInv, ParsedInv, EveryPacketCounted, TotalsInv, BaselineInv,
           R_Command \/ R_Tick \/ R_Read \/ R_Totals \/ R_Worker \/ R_End
    PROVE  BaselineInv'
<1>1. lcore_stats' = lcore_stats
  BY ReportTypesKept, ReportCountsNothing
<1>2. /\ \A w \in Workers, c \in WorkerBaselines : prev_worker[w][c] <= lcore_stats[w][c]
      /\ \A w \in Workers : (spc # "workers" \/ w \in to_show) =>
            \A c \in WorkerBaselines : shown[w][c] = 0
      /\ \A c \in WorkerBaselines :
            prev_totals[c] + SumFunctionOnSet([w \in Workers |-> shown[w][c]], Workers)
               <= SumFunctionOnSet([w \in Workers |-> prev_worker[w][c]], Workers)
  BY DEF BaselineInv
<1>3. CASE R_Command \/ R_Tick \/ R_Read
  <2>1. /\ spc # "workers" /\ spc' # "workers" /\ prev_totals' = prev_totals
        /\ prev_worker' = prev_worker /\ shown' = shown
    BY <1>3 DEF R_Command, R_Tick, R_Read
  <2> QED
    BY <1>1, <1>2, <2>1 DEF BaselineInv
<1>4. CASE R_Totals
  <2>1. /\ spc = "totals" /\ unread = <<>> /\ to_show' = Workers /\ totals' = totals
        /\ prev_totals' = prev_totals /\ prev_worker' = prev_worker /\ shown' = shown
    BY <1>4 DEF R_Totals
  <2>2. ASSUME NEW c \in WorkerBaselines
        PROVE  totals[c] <= SumFunctionOnSet(NextBaseline(c)', Workers)
    <3>1. c \in Counters /\ c \in WorkerCounters
      BY CounterKinds
    <3>2. NextBaseline(c)' = [w \in Workers |-> lcore_stats[w][c]]
      BY <1>1, <2>1 DEF NextBaseline
    <3>3. Sums[c] = SumFunctionOnSet([w \in Workers |-> lcore_stats[w][c]], Workers)
      BY <3>1, TypeParts, SumsAreCounted
    <3>4. totals[c] <= Sums[c]
      BY <2>1, <3>1, TotalsAreBehind
    <3> QED
      BY <3>2, <3>3, <3>4
  <2> QED
    BY <1>1, <1>2, <2>1, <2>2 DEF BaselineInv
<1>5. CASE R_Worker
  BY <1>5, WorkerLineKeepsBaselines
<1>6. CASE R_End
  <2>1. /\ spc = "workers" /\ to_show = {} /\ spc' = "tick" /\ prev_totals' = totals
        /\ prev_worker' = prev_worker /\ shown' = NoBaselines
    BY <1>6 DEF R_End
  <2>2. \A w \in Workers, c \in WorkerBaselines : shown'[w][c] = 0
    BY <2>1 DEF NoBaselines
  <2>3. ASSUME NEW c \in WorkerBaselines
        PROVE  totals[c] + SumFunctionOnSet([w \in Workers |-> shown'[w][c]], Workers)
                  <= SumFunctionOnSet([w \in Workers |-> prev_worker[w][c]], Workers)
    <3>1. PICK t : t = [w \in Workers |-> shown'[w][c]]
      OBVIOUS
    <3>2. SumFunctionOnSet(t, Workers) = 0
      BY <2>2, <3>1, LcoresFinite, SumZero
    <3>3. NextBaseline(c) = [w \in Workers |-> prev_worker[w][c]]
      BY <2>1 DEF NextBaseline
    <3>4. totals[c] <= SumFunctionOnSet(NextBaseline(c), Workers)
      BY <2>1 DEF BaselineInv
    <3>5. totals[c] \in Nat
      BY CounterKinds DEF TypeOK
    <3>6. totals[c] + SumFunctionOnSet(t, Workers)
            <= SumFunctionOnSet([w \in Workers |-> prev_worker[w][c]], Workers)
      BY <3>2, <3>3, <3>4, <3>5
    <3> QED
      BY <3>1, <3>6
  <2> QED
    BY <1>1, <1>2, <2>1, <2>2, <2>3 DEF BaselineInv
<1> QED
  BY <1>3, <1>4, <1>5, <1>6

-----------------------------------------------------------------------------
(* The inductive invariant.                                                *)

Inv ==
    /\ TypeOK /\ PacketInv /\ ParsedInv /\ EveryPacketCounted
    /\ TotalsInv /\ BaselineInv

\* It holds at the start,
LEMMA InitHolds == Init => Inv
<1> SUFFICES ASSUME Init
             PROVE  Inv
  OBVIOUS
<1>1. TypeOK /\ PacketTypes /\ CounterTypes
  BY InitTypes, TypeParts
<1>2. Len(burst) = 0 /\ worker_buffers = Empty /\ ring = Empty /\ hand = Empty
  BY DEF Init
<1>3. \A w \in Workers : Empty[w] = <<>> /\ Len(Empty[w]) = 0 /\ Passed(Empty[w])
  BY DEF Empty, Passed
<1>4. PacketInv
  BY <1>1, <1>2, <1>3, ReportAssumption DEF PacketInv, RoomInv, AllPassed
<1>5. \A l \in Lcores, c \in Counters :
         c \in CountersOf(l) => lcore_stats[l][c] = 0
  BY DEF Init
<1>6. ParsedInv
  <2>1. \A w \in Workers : w \in Lcores /\ "other_pkts" \in CountersOf(w)
                           /\ "other_pkts" \in Counters
    BY LcoreKinds, CounterKinds DEF WorkerCounters, Protocols
  <2> QED
    BY <1>4, <1>5, <2>1 DEF ParsedInv, PacketInv
<1>7. \A c \in Counters : SumFunctionOnSet(Counted(c), Lcores) = 0
  <2> SUFFICES ASSUME NEW c \in Counters
               PROVE  SumFunctionOnSet(Counted(c), Lcores) = 0
    OBVIOUS
  <2>1. PICK f : f = Counted(c)
    OBVIOUS
  <2>2. \A l \in Lcores : f[l] = 0
    BY <1>5, <2>1 DEF Counted
  <2> QED
    BY <2>1, <2>2, LcoresFinite, SumZero
<1>8. \A c \in Counters : Sums[c] = 0
  BY <1>1, <1>7, SumsAreCounted
<1>9. EveryPacketCounted
  <2>1. PICK f : f = Sums
    OBVIOUS
  <2>2. \A c \in Counters : f[c] = 0
    BY <1>8, <2>1
  <2>3. Unaccounted(f) = 0 /\ Unchecked(f) = 0 /\ f["spi_rule_checks"] = 0
    BY <2>2, Figures DEF Unaccounted, Unchecked
  <2>4. Packets(Empty) = 0
    <3>1. PICK n : n = [w \in Workers |-> Len(Empty[w])]
      OBVIOUS
    <3>2. \A w \in Workers : n[w] = 0
      BY <1>3, <3>1
    <3>3. SumFunctionOnSet(n, Workers) = 0
      BY <3>2, LcoresFinite, SumZero
    <3> QED
      BY <3>1, <3>3 DEF Packets, SumFunction
  <2>5. SumFunctionOnSet(f, Protocols) = 0
    <3>1. \A c \in Protocols : f[c] = 0
      BY <2>2, Figures
    <3> QED
      BY <3>1, ProtocolsFinite, SumZero
  <2> QED
    BY <1>2, <2>1, <2>3, <2>4, <2>5 DEF EveryPacketCounted
<1>10. /\ \A c \in Counters : prev_totals[c] = 0
       /\ spc = "tick" /\ prev_worker = NoBaselines /\ shown = NoBaselines
  BY DEF Init, Zero
<1>11. TotalsInv
  BY <1>7, <1>10 DEF TotalsInv
<1>12. BaselineInv
  <2>1. \A w \in Workers, c \in WorkerBaselines :
           lcore_stats[w][c] = 0 /\ prev_worker[w][c] = 0 /\ shown[w][c] = 0
    BY <1>5, <1>10, LcoreKinds, CounterKinds DEF NoBaselines
  <2>2. ASSUME NEW c \in WorkerBaselines
        PROVE  prev_totals[c] + SumFunctionOnSet([w \in Workers |-> shown[w][c]], Workers)
                  <= SumFunctionOnSet([w \in Workers |-> prev_worker[w][c]], Workers)
    <3>1. PICK s : s = [w \in Workers |-> shown[w][c]]
      OBVIOUS
    <3>2. PICK p : p = [w \in Workers |-> prev_worker[w][c]]
      OBVIOUS
    <3>3. \A w \in Workers : s[w] = 0 /\ p[w] = 0
      BY <2>1, <3>1, <3>2
    <3>4. SumFunctionOnSet(s, Workers) = 0 /\ SumFunctionOnSet(p, Workers) = 0
      BY <3>3, LcoresFinite, SumZero
    <3>5. prev_totals[c] = 0
      BY <1>10, CounterKinds
    <3>6. prev_totals[c] + SumFunctionOnSet(s, Workers) <= SumFunctionOnSet(p, Workers)
      BY <3>4, <3>5
    <3> QED
      BY <3>1, <3>2, <3>6
  <2>3. \A w \in Workers, c \in WorkerBaselines : prev_worker[w][c] <= lcore_stats[w][c]
    BY <2>1
  <2> QED
    BY <1>10, <2>1, <2>2, <2>3 DEF BaselineInv
<1> QED
  BY <1>1, <1>4, <1>6, <1>9, <1>11, <1>12 DEF Inv

\* every step keeps it,
LEMMA StepHolds == Inv /\ [Next]_vars => Inv'
<1> SUFFICES ASSUME Inv, [Next]_vars
             PROVE  Inv'
  OBVIOUS
<1>1. /\ TypeOK /\ PacketInv /\ ParsedInv /\ EveryPacketCounted
      /\ TotalsInv /\ BaselineInv
  BY DEF Inv
<1>2. CASE D_Rx \/ DispatcherStep \/ \E w \in Workers : WorkerStep(w)
  <2>1. PacketInv' /\ EveryPacketCounted' /\ CountsSomewhere
    BY <1>1, <1>2, PacketSteps
  <2>2. TypeOK'
    <3>1. PICK l \in Lcores, cs \in SUBSET (Counters \ {"other_pkts"}), n \in Nat :
             PacketStep(l, cs, n)
      BY <2>1 DEF CountsSomewhere
    <3>2. CounterTypes' /\ ReportTypes'
      BY <1>1, <3>1, PacketStepTypes
    <3> QED
      BY <2>1, <3>2, TypePartsPrimed DEF PacketInv
  <2>3. ParsedInv' /\ TotalsInv' /\ BaselineInv'
    BY <1>1, <2>1, PacketStepsKeepParsed, PacketStepsKeepTotals,
       PacketStepsKeepBaselines
  <2> QED
    BY <2>1, <2>2, <2>3 DEF Inv
<1>3. CASE R_Command \/ StatsStep
  <2>1. R_Command \/ R_Tick \/ R_Read \/ R_Totals \/ R_Worker \/ R_End
    BY <1>3 DEF StatsStep
  <2>2. ReportTypes' /\ ReportFrame
    BY <1>1, <2>1, ReportTypesKept
  <2>3. PacketInv' /\ CounterTypes' /\ ParsedInv' /\ EveryPacketCounted'
    BY <1>1, <2>2, TypeParts, ReportLeavesPackets, ReportCountsNothing
  <2>4. TypeOK'
    BY <2>2, <2>3, TypePartsPrimed DEF PacketInv
  <2>5. TotalsInv' /\ BaselineInv'
    BY <1>1, <2>1, ReportKeepsTotals, ReportKeepsBaselines
  <2> QED
    BY <2>3, <2>4, <2>5 DEF Inv
<1>4. CASE UNCHANGED vars
  <2>1. UNCHANGED <<lcore_stats, burst, worker_buffers, ring, hand>>
    BY <1>4 DEF vars, packetVars
  <2>2. UNCHANGED <<spc, tick_counter, view, unread, totals, prev_totals, to_show,
                    prev_worker, shown>>
    BY <1>4 DEF vars, reportVars
  <2>3. ReportFrame
    BY <2>1 DEF ReportFrame, packetVars
  <2>4. PacketInv' /\ CounterTypes' /\ ParsedInv' /\ EveryPacketCounted'
        /\ \A c : Counted(c)' = Counted(c)
    BY <1>1, <2>3, TypeParts, ReportLeavesPackets, ReportCountsNothing
  <2>5. ReportTypes'
    <3>1. ReportTypes
      BY <1>1, TypeParts
    <3> QED
      BY <2>2, <3>1 DEF ReportTypes
  <2>6. TypeOK'
    BY <2>4, <2>5, TypePartsPrimed DEF PacketInv
  <2>7. TotalsInv'
    BY <1>1, <2>2, <2>4 DEF TotalsInv
  <2>8. BaselineInv'
    <3>1. \A c : NextBaseline(c)' = NextBaseline(c)
      BY <2>1, <2>2 DEF NextBaseline
    <3> QED
      BY <1>1, <2>1, <2>2, <3>1 DEF BaselineInv
  <2> QED
    BY <2>4, <2>6, <2>7, <2>8 DEF Inv
<1> QED
  BY <1>2, <1>3, <1>4 DEF Next

\* and so it holds always.
LEMMA InvHolds == Spec => []Inv
  BY InitHolds, StepHolds, PTL DEF Spec

-----------------------------------------------------------------------------
(* The theorems.                                                           *)

\* The counters, the queues and the report keep their types: no queue outgrows its
\* ring or buffer, no total is ever negative (stats.c, stats_core.c).
THEOREM ReportWellTyped == Spec => []TypeOK
<1>1. Inv => TypeOK
  BY DEF Inv
<1> QED
  BY <1>1, InvHolds, PTL

\* Every packet of the pipeline is counted once, at the stage it has reached
\* (dispatcher.c:118-235, worker.c:147-201), whatever the number of workers, the size
\* of the rings and the packets that arrive.
THEOREM PacketsCountedOnce == Spec => []EveryPacketCounted
<1>1. Inv => EveryPacketCounted
  BY DEF Inv
<1> QED
  BY <1>1, InvHolds, PTL

\* A packet that reaches a worker has passed the parser, and OTHER
\* (flow_packet.c:106) never counts one.
THEOREM WorkersSeeTcpUdp == Spec => []OnlyTcpUdpReachWorkers
<1>1. Inv => OnlyTcpUdpReachWorkers
  <2> SUFFICES ASSUME Inv
               PROVE  OnlyTcpUdpReachWorkers
    OBVIOUS
  <2>1. ParsedInv /\ AllPassed
    BY DEF Inv, ParsedInv
  <2>2. ASSUME NEW w \in Workers, NEW h \in ToSet(ring[w]) \cup ToSet(hand[w])
        PROVE  extract_key(h) = "OK"
    <3>1. Passed(ring[w]) /\ Passed(hand[w])
      BY <2>1 DEF AllPassed
    <3> QED
      BY <2>2, <3>1 DEF Passed, ToSet
  <2> QED
    BY <2>1, <2>2 DEF OnlyTcpUdpReachWorkers, ParsedInv
<1> QED
  BY <1>1, InvHolds, PTL

\* Of every packet received the parser takes what it should and reads only what
\* is there (flow_packet.c:42).
THEOREM BurstParses == Spec => []ParsesWhatIsThere
<1>1. Inv => ParsesWhatIsThere
  <2> SUFFICES ASSUME Inv, NEW h \in ToSet(burst)
               PROVE  ParsesExactly(h) /\ ReadsInside(h)
    BY DEF ParsesWhatIsThere
  <2>1. burst \in Seq(Headers)
    BY DEF Inv, TypeOK
  <2>2. PICK i \in DOMAIN burst : h = burst[i]
    BY DEF ToSet
  <2>3. h \in Header
    BY <2>1, <2>2, ElementType, ReportAssumption
  <2> QED
    BY <2>3, ParserIsExact, ParserReadsInside
<1> QED
  BY <1>1, InvHolds, PTL

\* The totals of a report lie between those of the last report and the true sums,
\* although the lcores count on while they are collected (stats.c:304).
THEOREM ReportBetween == Spec => []TotalsBetween
<1>1. Inv => TotalsBetween
  <2> SUFFICES ASSUME Inv, spc = "workers", NEW c \in Counters
               PROVE  prev_totals[c] <= totals[c] /\ totals[c] <= Sums[c]
    BY DEF TotalsBetween
  <2>1. TypeOK /\ TotalsInv /\ unread = <<>>
    BY DEF Inv, TotalsInv
  <2> QED
    BY <2>1, TotalsAreBehind
<1> QED
  BY <1>1, InvHolds, PTL

\* What the worker lines of a report show together is at most what was counted
\* since the last report's totals were collected (stats.c:302), whatever the views
\* in between were (stats.c:449-461).
THEOREM RatesOfOnePeriod == Spec => []WorkerRatesCoverOnePeriod
<1>1. Inv => WorkerRatesCoverOnePeriod
  <2> SUFFICES ASSUME Inv, spc = "workers", NEW c \in WorkerBaselines
               PROVE  SumFunction([w \in Workers |-> shown[w][c]])
                         <= Sums[c] - prev_totals[c]
    BY DEF WorkerRatesCoverOnePeriod
  <2>1. TypeOK /\ BaselineInv /\ CounterTypes
    BY TypeParts DEF Inv
  <2>2. c \in Counters /\ c \in WorkerCounters
    BY CounterKinds
  <2>3. PICK s : s = [w \in Workers |-> shown[w][c]]
    OBVIOUS
  <2>4. PICK p : p = [w \in Workers |-> prev_worker[w][c]]
    OBVIOUS
  <2>5. PICK f : f = [w \in Workers |-> lcore_stats[w][c]]
    OBVIOUS
  <2>6. \A w \in Workers : /\ s[w] \in Nat /\ p[w] \in Nat /\ f[w] \in Nat
                           /\ p[w] <= f[w]
    BY <2>1, <2>3, <2>4, <2>5, BaselineTypes DEF BaselineInv
  <2>7. PICK S \in Nat, P \in Nat, F \in Nat :
           /\ S = SumFunctionOnSet(s, Workers) /\ P = SumFunctionOnSet(p, Workers)
           /\ F = SumFunctionOnSet(f, Workers) /\ P <= F
    BY <2>6, LcoresFinite, SumMonotonic, SumType
  <2>8. prev_totals[c] + S <= P
    BY <2>1, <2>3, <2>4, <2>7 DEF BaselineInv
  <2>9. Sums[c] = F
    BY <2>1, <2>2, <2>5, <2>7, SumsAreCounted
  <2>10. prev_totals[c] \in Nat
    BY <2>1, <2>2 DEF TypeOK
  <2>11. S <= Sums[c] - prev_totals[c]
    BY <2>7, <2>8, <2>9, <2>10
  <2> QED
    BY <2>3, <2>7, <2>11 DEF SumFunction
<1> QED
  BY <1>1, InvHolds, PTL
=============================================================================
