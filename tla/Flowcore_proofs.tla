---------------------------- MODULE Flowcore_proofs ----------------------------
(***************************************************************************)
(* ClassificationInv is inductive.  A generation read by a worker names a  *)
(* publication (GenerationInv, StampOK); as long as that publication is    *)
(* the last of its position, cold[] holds the packet's tuple; RCU keeps    *)
(* the positions of a bulk lookup from being published again (LookupInv).  *)
(***************************************************************************)
EXTENDS FlowcoreTypes_proofs

\* Stamps that were right before a step are right after it.
StampsKept ==
    \A k \in Keys, st \in Stamp : StampOK(k, st) => StampOK(k, st)'

\* No position that an add may take is pinned.
LEMMA AvailableNotPinned ==
    ASSUME TypeOK, NEW s \in Available
    PROVE  s \in Slots /\ ~Pinned(s)
BY DEF Available, Free, Ready, Pinned

\* A step that rewrites no published position keeps every stamp.
LEMMA QuietStamps ==
    ASSUME UNCHANGED <<pubs, cold>>,
           \A s \in Slots : Rewriting(s)' => Rewriting(s)
    PROVE  StampsKept
<1> SUFFICES ASSUME NEW k \in Keys, NEW st \in Stamp, StampOK(k, st)
             PROVE  StampOK(k, st)'
  BY DEF StampsKept
<1>1. st.slot \in Slots
  BY StampFields
<1> QED BY <1>1 DEF StampOK

\* So does a step that keeps what the stamps of each queue say.
LEMMA QueueKept ==
    ASSUME StampsKept, NEW w \in Workers, NEW q \in Seq(Packet), QueueOK(w, q)
    PROVE  QueueOK(w, q)'
<1> SUFFICES ASSUME NEW j \in DOMAIN q
             PROVE  StampOK(q[j].key, q[j].stamp)' /\ q[j].stamp.worker = w
  BY DEF QueueOK
<1>1. q[j] \in Packet
  OBVIOUS
<1>2. q[j].key \in Keys /\ q[j].stamp \in Stamp
  BY <1>1, PacketFields
<1>3. StampOK(q[j].key, q[j].stamp) /\ q[j].stamp.worker = w
  BY DEF QueueOK
<1> QED BY <1>2, <1>3 DEF StampsKept

\* Parts of good queues are good queues.
LEMMA QueuePrefix ==
    ASSUME NEW w, NEW q \in Seq(Packet), NEW n \in Nat, n <= Len(q), QueueOK(w, q)
    PROVE  QueueOK(w, SubSeq(q, 1, n))
BY PrefixElements DEF QueueOK

\* What is left behind a prefix of a good queue is a good queue.
LEMMA QueueSuffix ==
    ASSUME NEW w, NEW q \in Seq(Packet), NEW n \in Nat, n <= Len(q), QueueOK(w, q)
    PROVE  QueueOK(w, SubSeq(q, n + 1, Len(q)))
BY SuffixElements DEF QueueOK

\* Two good queues make a good queue.
LEMMA QueueConcat ==
    ASSUME NEW w, NEW q \in Seq(Packet), NEW r \in Seq(Packet),
           QueueOK(w, q), QueueOK(w, r)
    PROVE  QueueOK(w, q \o r)
BY ConcatElements DEF QueueOK

\* A good queue and a packet with a good stamp make a good queue.
LEMMA QueueAppend ==
    ASSUME NEW w, NEW q \in Seq(Packet), NEW p \in Packet,
           QueueOK(w, q), StampOK(p.key, p.stamp), p.stamp.worker = w
    PROVE  QueueOK(w, Append(q, p))
BY AppendElements DEF QueueOK

\* The tail of a good queue is a good queue.
LEMMA QueueTail ==
    ASSUME NEW w, NEW q \in Seq(Packet), q # <<>>, QueueOK(w, q)
    PROVE  QueueOK(w, Tail(q)) /\ StampOK(Head(q).key, Head(q).stamp)
BY TailElements DEF QueueOK

\* Queues that no step touches stay good.
LEMMA PacketsKept ==
    ASSUME TypeOK, PacketInv, StampsKept,
           UNCHANGED <<resolved, worker_buffers, worker_rings, hand>>
    PROVE  PacketInv'
<1>1. ASSUME NEW k \in Keys, resolved'[k] # Unresolved
      PROVE  StampOK(k, resolved[k])'
  <2>1. PICK st \in Stamp : st = resolved[k] /\ st = resolved'[k]
    BY <1>1 DEF TypeOK, DispatcherTypeOK
  <2>2. StampOK(k, st)
    BY <1>1, <2>1 DEF PacketInv
  <2>3. StampOK(k, st)'
    BY <2>2 DEF StampsKept
  <2> QED BY <2>1, <2>3 DEF StampOK
<1>2. ASSUME NEW w \in Workers
      PROVE  /\ QueueOK(w, worker_buffers[w])' /\ QueueOK(w, worker_rings[w])'
             /\ QueueOK(w, hand[w])'
  <2>1. PICK b \in Seq(Packet), r \in Seq(Packet), h \in Seq(Packet) :
           b = worker_buffers[w] /\ r = worker_rings[w] /\ h = hand[w]
    BY DEF TypeOK, DispatcherTypeOK, RingsTypeOK, WorkerTypeOK, Packet
  <2>2. QueueOK(w, b) /\ QueueOK(w, r) /\ QueueOK(w, h)
    BY <2>1 DEF PacketInv
  <2>3. QueueOK(w, b)' /\ QueueOK(w, r)' /\ QueueOK(w, h)'
    BY <2>2, QueueKept
  <2>4. b = worker_buffers'[w] /\ r = worker_rings'[w] /\ h = hand'[w]
    BY <2>1
  <2> QED BY <2>3, <2>4 DEF QueueOK
<1> QED BY <1>1, <1>2 DEF PacketInv

\* Stamping the packet at the head of todo puts a good stamp in one queue.
LEMMA SteerPackets ==
    ASSUME TypeOK, PacketInv, StampsKept, NEW k \in Keys, NEW st \in Stamp,
           Steer(k, st), StampOK(k, st)', UNCHANGED <<worker_rings, hand>>
    PROVE  PacketInv'
<1> DEFINE p == [key |-> k, stamp |-> st]
<1>0. st.worker \in Workers /\ p \in Packet
  BY StampFields, PacketMake
<1>1. ASSUME NEW i \in Keys, resolved'[i] # Unresolved
      PROVE  StampOK(i, resolved[i])'
  <2>1. CASE i = k
    <3>1. resolved'[i] = st
      BY <2>1 DEF Steer, TypeOK, DispatcherTypeOK
    <3> QED BY <2>1, <3>1 DEF StampOK
  <2>2. CASE i # k
    <3>1. PICK si \in Stamp : si = resolved[i] /\ si = resolved'[i]
      BY <1>1, <2>2 DEF Steer, TypeOK, DispatcherTypeOK
    <3>2. StampOK(i, si)'
      BY <1>1, <3>1 DEF PacketInv, StampsKept
    <3> QED BY <3>1, <3>2 DEF StampOK
  <2> QED BY <2>1, <2>2
<1>2. ASSUME NEW w \in Workers
      PROVE  /\ QueueOK(w, worker_buffers[w])' /\ QueueOK(w, worker_rings[w])'
             /\ QueueOK(w, hand[w])'
  <2>1. PICK b \in Seq(Packet), r \in Seq(Packet), h \in Seq(Packet) :
           b = worker_buffers[w] /\ r = worker_rings[w] /\ h = hand[w]
    BY DEF TypeOK, DispatcherTypeOK, RingsTypeOK, WorkerTypeOK, Packet
  <2>2. QueueOK(w, b)' /\ QueueOK(w, r)' /\ QueueOK(w, h)'
    <3>1. QueueOK(w, b) /\ QueueOK(w, r) /\ QueueOK(w, h)
      BY <2>1 DEF PacketInv
    <3> QED BY <3>1, QueueKept
  <2>3. r = worker_rings'[w] /\ h = hand'[w]
    BY <2>1
  <2>4. QueueOK(w, worker_buffers[w])'
    <3>1. CASE w = st.worker
      <4>1. worker_buffers'[w] = Append(b, p)
        BY <2>1, <3>1 DEF Steer, TypeOK, DispatcherTypeOK
      <4>2. \A j \in DOMAIN Append(b, p) :
               Append(b, p)[j] = p \/ (j \in DOMAIN b /\ Append(b, p)[j] = b[j])
        BY <1>0, AppendElements
      <4> QED BY <2>2, <3>1, <4>1, <4>2 DEF QueueOK, StampOK
    <3>2. CASE w # st.worker
      <4>1. worker_buffers'[w] = b
        BY <2>1, <3>2 DEF Steer, TypeOK, DispatcherTypeOK
      <4> QED BY <2>2, <4>1 DEF QueueOK
    <3> QED BY <3>1, <3>2
  <2> QED BY <2>2, <2>3, <2>4 DEF QueueOK
<1> QED BY <1>1, <1>2 DEF PacketInv

-----------------------------------------------------------------------------
(* The table.  A position the dispatcher is publishing is its own business. *)

Claimed(s) == Publishing /\ pslot = s

Unchanged(s) == /\ keyAt'[s] = keyAt[s] /\ cold'[s] = cold[s]
                /\ worker_id'[s] = worker_id[s]

\* A step that leaves the live positions alone and makes no new one.
LEMMA LiveKept ==
    ASSUME LiveInv,
           \A s \in Slots : status'[s] = "live" /\ ~Claimed(s)'
                               => status[s] = "live" /\ ~Claimed(s) /\ Unchanged(s)
    PROVE  LiveInv'
BY DEF LiveInv, Claimed, Unchanged, Describes

\* A step that leaves the pinned positions alone and looks nothing up.
LEMMA LookupKept ==
    ASSUME TypeOK, LookupInv, replaced' = replaced,
           \A j \in DOMAIN todo' : \E i \in DOMAIN todo : todo'[j] = todo[i],
           \A s \in Slots : Pinned(s) /\ ~Claimed(s)
                               => Pinned(s)' /\ ~Claimed(s)' /\ Unchanged(s)
    PROVE  LookupInv'
<1> SUFFICES ASSUME ~replaced, NEW j \in DOMAIN todo', todo'[j].pos # Miss
             PROVE  /\ Pinned(todo[j].pos)'
                    /\ keyAt'[todo'[j].pos] = todo'[j].key
                    /\ Describes(todo[j].pos, todo[j].key)'
                    /\ ~Claimed(todo[j].pos)'
  BY DEF LookupInv, Claimed
<1>1. PICK i \in DOMAIN todo : todo'[j] = todo[i]
  OBVIOUS
<1>2. PICK s \in Slots, k \in Keys : s = todo[i].pos /\ k = todo[i].key
  <2>1. todo[i] \in [key : Keys, pos : Slots \cup {Miss}]
    <3>1. todo \in Seq([key : Keys, pos : Slots \cup {Miss}])
      BY DEF TypeOK, DispatcherTypeOK
    <3> QED BY <3>1, ElementType
  <2> QED BY <1>1, <2>1
<1>3. Pinned(s) /\ keyAt[s] = k /\ Describes(s, k) /\ ~Claimed(s)
  BY <1>1, <1>2 DEF LookupInv, Claimed
<1>4. Pinned(s)' /\ ~Claimed(s)' /\ Unchanged(s)
  BY <1>3
<1> QED BY <1>1, <1>2, <1>3, <1>4 DEF Unchanged, Describes, Pinned, Claimed

\* The first element of a sequence removed.
LEMMA TodoTail ==
    ASSUME TypeOK, todo # <<>>, todo' = Tail(todo)
    PROVE  \A j \in DOMAIN todo' : \E i \in DOMAIN todo : todo'[j] = todo[i]
BY TailElements DEF TypeOK, DispatcherTypeOK

\* RCU: a quiescent report of the stats thread and a delete by any thread keep
\* every pinned position pinned.
LEMMA RetirePins ==
    ASSUME TypeOK, NEW S, Retire(S)
    PROVE  /\ \A s \in Slots : Pinned(s) => Pinned(s)'
           /\ \A s \in Slots : status'[s] = "live" => status[s] = "live"
<1>1. "dispatcher" \in OnlineThreads
  BY DEF OnlineThreads
<1> QED BY <1>1 DEF Retire, Pinned, TypeOK, FlowTableTypeOK

\* The quiescent report of the stats thread unpins no position: only the
\* dispatcher's lookups pin.
LEMMA StatsRestPins ==
    ASSUME TypeOK, QuiescentAndReclaim("stats")
    PROVE  /\ \A s \in Slots : Pinned(s) => Pinned(s)'
           /\ \A s \in Slots : status'[s] = "live" => status[s] = "live"
BY DEF QuiescentAndReclaim, Quiescent, Pinned, TypeOK, FlowTableTypeOK

\* A worker's copy is judged by the last publication: publications only move on.
LEMMA CopyKept ==
    ASSUME TypeOK, PacketInv, CopyInv, UNCHANGED workerVars,
           \A s \in Slots : pubs'[s] \in Nat /\ pubs[s] <= pubs'[s]
    PROVE  CopyInv'
<1> SUFFICES ASSUME NEW w \in Workers, wpc[w] \in {"copy", "recheck"},
                    ~Pkt(w).stamp.dirty, Pkt(w).stamp.pub = pubs'[Pkt(w).stamp.slot]
             PROVE  \A x \in Words \ uncopied[w] : tuple[w][x] = Pkt(w).key
  BY DEF CopyInv, workerVars, Pkt
<1>1. hand[w] # <<>> /\ hand[w] \in Seq(Packet)
  BY DEF TypeOK, WorkerTypeOK, Packet
<1>2. PICK p \in Packet : p = Pkt(w) /\ StampOK(p.key, p.stamp)
  <2>1. QueueOK(w, hand[w])
    BY DEF PacketInv
  <2>2. Pkt(w) \in Packet /\ StampOK(Pkt(w).key, Pkt(w).stamp)
    BY <1>1, <2>1, TailElements DEF QueueOK, Pkt
  <2> QED BY <2>2
<1>3. p.stamp.slot \in Slots /\ p.stamp.pub \in Nat
  BY PacketFields, StampFields
<1>4. pubs[p.stamp.slot] \in Nat
  BY <1>3 DEF TypeOK, FlowTableTypeOK
<1>5. p.stamp.pub <= pubs[p.stamp.slot]
  BY <1>2 DEF StampOK
<1>6. p.stamp.pub = pubs[p.stamp.slot]
  BY <1>2, <1>3, <1>4, <1>5
<1> QED BY <1>2, <1>6 DEF CopyInv

\* flow_hot_generation_next steps from the generation of n to that of n + 1.
LEMMA GenerationNextOfNext ==
    ASSUME NEW n \in Nat
    PROVE  GenerationNext(GenOf(n)) = GenOf(n + 1)
<1>1. GenMod \in Nat /\ GenMod > 2 /\ Period \in Nat \ {0} /\ Period = GenMod - 1 /\ Period > 1
  BY FlowTableAssumption DEF FlowTableAssumption, Period
<1> HIDE DEF Period
<1>2. CASE n = 0
  <2>1. 0 % Period = 0
    BY <1>1
  <2>2. GenOf(n) = 0 /\ GenOf(n + 1) = 1
    BY <1>2, <2>1 DEF GenOf
  <2> QED BY <1>1, <2>2 DEF GenerationNext
<1>3. CASE n # 0
  <2> DEFINE r == (n - 1) % Period
             q == n % Period
  <2>1. n - 1 \in Nat /\ r \in 0 .. Period - 1
    BY <1>1, <1>3, DivMod
  <2>2. q = IF r = Period - 1 THEN 0 ELSE r + 1
    <3>1. (n - 1) + 1 = n
      OBVIOUS
    <3> QED BY <1>1, <2>1, <3>1, NextRemainder
  <2>3. GenOf(n) = 1 + r /\ GenOf(n + 1) = 1 + q
    <3>1. (n + 1) - 1 = n /\ n + 1 # 0
      OBVIOUS
    <3> QED BY <1>3, <3>1 DEF GenOf
  <2> HIDE DEF r, q
  <2> QED BY <1>1, <2>1, <2>2, <2>3 DEF GenerationNext
<1> QED BY <1>2, <1>3

\* Two publications of a position less than a period apart have different
\* generations, and no publication has the generation 0 of an unused position.
LEMMA GenOfSame ==
    ASSUME NEW a \in Nat, NEW b \in Nat, a <= b, b - a < Period, GenOf(a) = GenOf(b)
    PROVE  a = b
<1>1. Period \in Nat \ {0}
  BY FlowTableAssumption DEF FlowTableAssumption, Period
<1> HIDE DEF Period
<1>2. CASE a = 0 \/ b = 0
  <2>1. \A n \in Nat \ {0} : (n - 1) % Period \in Nat
    BY <1>1, DivMod
  <2> QED BY <1>2, <2>1 DEF GenOf
<1>3. CASE a # 0 /\ b # 0
  <2> DEFINE x == (a - 1) % Period
             y == (b - 1) % Period
  <2>1. a - 1 \in Nat /\ b - 1 \in Nat /\ x \in Int /\ y \in Int
    BY <1>1, <1>3, DivMod
  <2>2. GenOf(a) = 1 + x /\ GenOf(b) = 1 + y
    BY <1>3 DEF GenOf
  <2> HIDE DEF x, y
  <2>3. x = y
    <3>1. 1 + x = 1 + y
      BY <2>2
    <3> QED BY <2>1, <3>1
  <2>4. a - 1 <= b - 1 /\ (b - 1) - (a - 1) < Period
    <3>1. (b - 1) - (a - 1) = b - a
      OBVIOUS
    <3>2. a - 1 <= b - 1
      OBVIOUS
    <3> QED BY <3>1, <3>2
  <2>5. a - 1 = b - 1
    BY <1>1, <2>1, <2>3, <2>4, SameRemainder DEF x, y
  <2> QED BY <2>5
<1> QED BY <1>2, <1>3

-----------------------------------------------------------------------------
(* The steps of the dispatcher.                                            *)

TableInv == GenerationInv /\ LiveInv /\ PublishInv /\ LookupInv

\* A step outside a publication that makes no position live.
LEMMA NoPublication ==
    ASSUME TypeOK, GenerationInv, LiveInv, ~Publishing, ~Publishing',
           UNCHANGED <<flow_gen, pubs, worker_id, cold, keyAt>>,
           \A s \in Slots : status'[s] = "live" => status[s] = "live"
    PROVE  StampsKept /\ GenerationInv' /\ LiveInv' /\ PublishInv'
<1>1. StampsKept
  BY QuietStamps DEF Rewriting, Publishing
<1>2. GenerationInv' /\ PublishInv'
  BY DEF GenerationInv, PublishInv
<1>3. LiveInv'
  BY LiveKept DEF Claimed, Unchanged
<1> QED BY <1>1, <1>2, <1>3

\* Outside a publication, what the bulk lookup found stays if it stays pinned.
LEMMA LookupOutside ==
    ASSUME TypeOK, LookupInv, ~Publishing', replaced' = replaced,
           UNCHANGED <<worker_id, cold, keyAt>>,
           \A j \in DOMAIN todo' : \E i \in DOMAIN todo : todo'[j] = todo[i],
           \A s \in Slots : Pinned(s) => Pinned(s)'
    PROVE  LookupInv'
BY LookupKept DEF Claimed, Unchanged

\* rte_hash_add_key gives the key a position that nobody relies on.
LEMMA AddHeadStep ==
    ASSUME ClassificationInv, AddHead, dpc \in {"resolve", "retry"}, todo # <<>>,
           UNCHANGED hand
    PROVE  PacketInv' /\ TableInv'
<1>0. TypeOK /\ PacketInv /\ GenerationInv /\ LiveInv /\ LookupInv /\ ~Publishing
  BY DEF ClassificationInv, Publishing
<1>1. PICK s \in Slots : AddKey(Head(todo).key, s) /\ pslot' = s
  BY DEF AddHead
<1>2. /\ dpc' = "generation" /\ Publishing'
      /\ UNCHANGED <<flow_gen, worker_id, pubs, cold, todo, resolved,
                     worker_buffers, replaced, worker_rings>>
  BY DEF AddHead, hotVars, Publishing
<1>3. s \in Available /\ ~Pinned(s) /\ status[s] # "live"
  BY <1>0, <1>1, AvailableNotPinned DEF AddKey, Pinned
<1>4. /\ status'[s] = "live" /\ keyAt'[s] = Head(todo).key /\ waiting' = waiting
      /\ \A r \in Slots : r # s => keyAt'[r] = keyAt[r]
      /\ \A r \in Slots : r # s /\ status'[r] = "live" => status[r] = "live"
  BY <1>0, <1>1 DEF AddKey, TypeOK, FlowTableTypeOK
<1>5. \A r \in Slots : Pinned(r) => Pinned(r)'
  <2>1. SUFFICES ASSUME NEW r \in Slots, Pinned(r) PROVE Pinned(r)'
    OBVIOUS
  <2>2. r # s
    BY <1>3, <2>1
  <2>3. r \notin Ready
    BY <2>1 DEF Pinned, Ready
  <2>4. status'[r] = status[r]
    BY <1>1, <2>2, <2>3 DEF AddKey
  <2> QED BY <1>4, <2>1, <2>4 DEF Pinned
<1>6. StampsKept
  BY <1>2, QuietStamps DEF Rewriting
<1>7. PacketInv'
  BY <1>0, <1>2, <1>6, PacketsKept
<1>8. GenerationInv'
  BY <1>0, <1>2 DEF GenerationInv
<1>9. LiveInv'
  <2>1. ASSUME NEW r \in Slots, status'[r] = "live", ~Claimed(r)'
        PROVE  status[r] = "live" /\ ~Claimed(r) /\ Unchanged(r)
    <3>1. r # s
      BY <1>1, <1>2, <2>1 DEF Claimed
    <3> QED BY <1>0, <1>2, <1>4, <2>1, <3>1 DEF Claimed, Unchanged
  <2> QED BY <1>0, <2>1, LiveKept
<1>10. PublishInv'
  BY <1>1, <1>2, <1>4 DEF PublishInv, Pinned
<1>11. LookupInv'
  <2>1. ASSUME NEW r \in Slots, Pinned(r)
        PROVE  Pinned(r)' /\ ~Claimed(r)' /\ Unchanged(r)
    <3>1. r # s
      BY <1>3, <2>1
    <3> QED BY <1>1, <1>2, <1>4, <1>5, <2>1, <3>1 DEF Claimed, Unchanged
  <2> QED BY <1>0, <1>2, <2>1, LookupKept
<1> QED BY <1>7, <1>8, <1>9, <1>10, <1>11 DEF TableInv

\* The three steps of publish_new_flow before the store of last_seen.
LEMMA NextGenerationStep ==
    ASSUME ClassificationInv, D_NextGeneration, UNCHANGED hand
    PROVE  /\ PacketInv' /\ TableInv'
           /\ \A s \in Slots : pubs'[s] \in Nat /\ pubs[s] <= pubs'[s]
<1>0. TypeOK /\ PacketInv /\ GenerationInv /\ LiveInv /\ PublishInv /\ LookupInv
  BY DEF ClassificationInv
<1>1. /\ Publishing /\ Publishing' /\ pslot \in Slots /\ dpc = "generation"
      /\ dpc' = "cold" /\ pslot' = pslot
  BY <1>0 DEF D_NextGeneration, Publishing, TypeOK, DispatcherTypeOK
<1>2. /\ UNCHANGED <<status, keyAt, waiting, worker_id, cold, todo, resolved,
                     worker_buffers, replaced, worker_rings>>
      /\ unwritten' = Words
      /\ flow_gen' = [flow_gen EXCEPT ![pslot] = GenerationNext(@)]
      /\ pubs' = [pubs EXCEPT ![pslot] = @ + 1]
  BY DEF D_NextGeneration, hashVars
<1>3. pubs \in [Slots -> Nat] /\ flow_gen \in [Slots -> 0 .. GenMod - 1]
  BY <1>0 DEF TypeOK, FlowTableTypeOK
<1>4. /\ pubs'[pslot] = pubs[pslot] + 1 /\ flow_gen'[pslot] = GenerationNext(flow_gen[pslot])
      /\ \A s \in Slots : s # pslot => pubs'[s] = pubs[s] /\ flow_gen'[s] = flow_gen[s]
  BY <1>1, <1>2, <1>3
<1>5. \A s \in Slots : pubs'[s] \in Nat /\ pubs[s] <= pubs'[s]
  <2>1. ASSUME NEW s \in Slots PROVE pubs'[s] \in Nat /\ pubs[s] <= pubs'[s]
    <3>1. pubs[s] \in Nat
      BY <1>3
    <3> QED BY <1>4, <3>1
  <2> QED BY <2>1
<1>6. StampsKept
  <2> SUFFICES ASSUME NEW k \in Keys, NEW st \in Stamp, StampOK(k, st)
               PROVE  StampOK(k, st)'
    BY DEF StampsKept
  <2>1. st.slot \in Slots /\ st.pub \in Nat /\ pubs[st.slot] \in Nat
    BY <1>3, StampFields
  <2>2. st.pub <= pubs[st.slot]
    BY DEF StampOK
  <2>3. CASE st.slot = pslot
    <3>1. st.pub <= pubs'[st.slot] /\ st.pub # pubs'[st.slot]
      BY <1>4, <2>1, <2>2, <2>3
    <3> QED BY <3>1 DEF StampOK
  <2>4. CASE st.slot # pslot
    BY <1>1, <1>2, <1>4, <2>1, <2>4 DEF StampOK, Rewriting
  <2> QED BY <2>3, <2>4
<1>7. PacketInv'
  BY <1>0, <1>2, <1>6, PacketsKept
<1>8. GenerationInv'
  <2>1. ASSUME NEW s \in Slots PROVE flow_gen'[s] = GenOf(pubs'[s])
    <3>1. CASE s = pslot
      BY <1>0, <1>1, <1>3, <1>4, <3>1, GenerationNextOfNext DEF GenerationInv
    <3>2. CASE s # pslot
      BY <1>0, <1>4, <3>2 DEF GenerationInv
    <3> QED BY <3>1, <3>2
  <2> QED BY <2>1 DEF GenerationInv
<1>9. LiveInv'
  BY <1>0, <1>1, <1>2, LiveKept DEF Claimed, Unchanged
<1>10. PublishInv'
  BY <1>0, <1>1, <1>2 DEF PublishInv, Pinned
<1>11. LookupInv'
  BY <1>0, <1>1, <1>2, LookupKept DEF Claimed, Unchanged, Pinned
<1> QED BY <1>5, <1>7, <1>8, <1>9, <1>10, <1>11 DEF TableInv

\* A word of the claimed position is cleared or written: it belongs to no stamp
\* that is still believed, and to no other position.
LEMMA ColdWordStep ==
    ASSUME ClassificationInv, NEW x \in unwritten, NEW v \in Keys \cup {NoKey},
           dpc = "cold", dpc' \in {"cold", "last_seen"},
           cold' = [cold EXCEPT ![pslot][x] = v],
           UNCHANGED <<hashVars, hotVars, todo, resolved, worker_buffers, pslot,
                       replaced, worker_rings, hand>>,
           /\ dpc' = "cold" => \A y \in Words \ unwritten' :
                                  cold'[pslot][y] = Head(todo).key
           /\ dpc' = "last_seen" => cold'[pslot] = Whole(Head(todo).key)
    PROVE  PacketInv' /\ TableInv'
<1>0. TypeOK /\ PacketInv /\ GenerationInv /\ LiveInv /\ PublishInv /\ LookupInv
  BY DEF ClassificationInv
<1>1. /\ Publishing /\ Publishing' /\ pslot \in Slots /\ pslot' = pslot
      /\ UNCHANGED <<status, keyAt, waiting, flow_gen, pubs, worker_id, todo,
                     replaced>>
  BY <1>0 DEF Publishing, TypeOK, DispatcherTypeOK, hashVars, hotVars
<1>2. \A s \in Slots : s # pslot => cold'[s] = cold[s]
  BY <1>0 DEF TypeOK, FlowTableTypeOK
<1>3. StampsKept
  <2> SUFFICES ASSUME NEW k \in Keys, NEW st \in Stamp, StampOK(k, st)
               PROVE  StampOK(k, st)'
    BY DEF StampsKept
  <2>1. st.slot \in Slots
    BY StampFields
  <2>2. CASE st.slot = pslot
    <3>1. Rewriting(st.slot)
      BY <2>2 DEF Rewriting
    <3> QED BY <1>1, <3>1 DEF StampOK
  <2>3. CASE st.slot # pslot
    BY <1>1, <1>2, <2>1, <2>3 DEF StampOK, Rewriting
  <2> QED BY <2>2, <2>3
<1>4. PacketInv'
  BY <1>0, <1>3, PacketsKept
<1>5. GenerationInv'
  BY <1>0, <1>1 DEF GenerationInv
<1>6. LiveInv'
  BY <1>0, <1>1, <1>2, LiveKept DEF Claimed, Unchanged
<1>7. PublishInv'
  <2>1. Pinned(pslot) /\ keyAt[pslot] = Head(todo).key
    BY <1>0, <1>1 DEF PublishInv
  <2> QED BY <1>1, <2>1 DEF PublishInv, Pinned
<1>8. LookupInv'
  BY <1>0, <1>1, <1>2, LookupKept DEF Claimed, Unchanged, Pinned
<1> QED BY <1>4, <1>5, <1>6, <1>7, <1>8 DEF TableInv

\* The zeroing of a word of cold[] by flow_cold_from_key.
LEMMA ClearColdStep ==
    ASSUME ClassificationInv, D_ClearCold, UNCHANGED hand
    PROVE  PacketInv' /\ TableInv'
<1>0. TypeOK /\ PublishInv /\ pslot \in Slots /\ cold[pslot] \in [Words -> Keys \cup {NoKey}]
  BY DEF ClassificationInv, D_ClearCold, TypeOK, DispatcherTypeOK, Publishing,
         FlowTableTypeOK
<1>1. PICK x \in unwritten : cold' = [cold EXCEPT ![pslot][x] = NoKey]
  BY DEF D_ClearCold
<1>2. /\ dpc = "cold" /\ dpc' = "cold"
      /\ UNCHANGED <<hashVars, hotVars, todo, resolved, worker_buffers, pslot,
                     unwritten, replaced, worker_rings>>
  BY DEF D_ClearCold, dispatcherVars
<1>3. \A y \in Words \ unwritten' : cold'[pslot][y] = Head(todo).key
  <2>1. \A y \in Words \ unwritten : cold[pslot][y] = Head(todo).key
    BY <1>0, <1>2 DEF PublishInv, Publishing
  <2>2. \A y \in Words : y # x => cold'[pslot][y] = cold[pslot][y]
    BY <1>0, <1>1 DEF TypeOK, FlowTableTypeOK
  <2> QED BY <1>1, <1>2, <2>1, <2>2
<1> QED BY <1>1, <1>2, <1>3, ColdWordStep

\* The store of a word of cold[] by flow_cold_from_key.
LEMMA WriteColdStep ==
    ASSUME ClassificationInv, D_WriteCold, UNCHANGED hand
    PROVE  PacketInv' /\ TableInv'
<1>0. /\ TypeOK /\ PublishInv /\ pslot \in Slots /\ Head(todo).key \in Keys
      /\ cold[pslot] \in [Words -> Keys \cup {NoKey}] /\ unwritten \subseteq Words
  <2>1. TypeOK /\ PublishInv
    BY DEF ClassificationInv
  <2>2. todo # <<>> /\ pslot \in Slots
    BY <2>1 DEF D_WriteCold, TypeOK, DispatcherTypeOK, Publishing
  <2> QED BY <2>1, <2>2, HeadTypes DEF TypeOK, DispatcherTypeOK, FlowTableTypeOK
<1> DEFINE k == Head(todo).key
<1>1. PICK x \in unwritten : /\ cold' = [cold EXCEPT ![pslot][x] = k]
                             /\ unwritten' = unwritten \ {x}
  BY DEF D_WriteCold
<1>2. /\ dpc = "cold" /\ dpc' = IF unwritten' = {} THEN "last_seen" ELSE "cold"
      /\ UNCHANGED <<hashVars, hotVars, todo, resolved, worker_buffers, pslot,
                     replaced, worker_rings>>
  BY DEF D_WriteCold
<1>3. cold'[pslot] = [cold[pslot] EXCEPT ![x] = k]
  BY <1>0, <1>1 DEF TypeOK, FlowTableTypeOK
<1>4. \A y \in Words \ unwritten' : cold'[pslot][y] = k
  <2>1. \A y \in Words \ unwritten : cold[pslot][y] = k
    BY <1>0, <1>2 DEF PublishInv, Publishing
  <2> HIDE DEF k
  <2> QED BY <1>0, <1>1, <1>3, <2>1
<1>5. unwritten' = {} => cold'[pslot] = Whole(k)
  <2> HIDE DEF k
  <2>1. SUFFICES ASSUME unwritten' = {} PROVE cold'[pslot] = Whole(k)
    OBVIOUS
  <2>2. \A y \in Words : cold'[pslot][y] = k
    BY <1>4, <2>1
  <2>3. cold'[pslot] = [y \in Words |-> cold'[pslot][y]]
    BY <1>0, <1>3
  <2>4. cold'[pslot] = [y \in Words |-> k]
    BY <2>2, <2>3
  <2> QED BY <2>4 DEF Whole
<1> QED BY <1>0, <1>1, <1>2, <1>4, <1>5, ColdWordStep

\* The store of last_seen: from now on the position describes its key, and the
\* first packet of the flow is stamped with its last publication.
LEMMA PublishStep ==
    ASSUME ClassificationInv, D_Publish, UNCHANGED hand
    PROVE  PacketInv' /\ TableInv'
<1>0. TypeOK /\ PacketInv /\ GenerationInv /\ LiveInv /\ PublishInv /\ LookupInv
  BY DEF ClassificationInv
<1>1. /\ Publishing /\ pslot \in Slots /\ todo # <<>> /\ dpc = "last_seen"
      /\ Head(todo).key \in Keys
  <2>1. Publishing /\ pslot \in Slots /\ todo # <<>> /\ dpc = "last_seen"
    BY <1>0 DEF D_Publish, Publishing, TypeOK, DispatcherTypeOK
  <2> QED BY <1>0, <2>1, HeadTypes
<1>2. PICK k \in Keys : k = Head(todo).key
  BY <1>1
<1>3. PICK st : /\ st = [slot |-> pslot, gen |-> flow_gen[pslot],
                         worker |-> HashWorker[k], pub |-> pubs[pslot],
                         dirty |-> FALSE]
                /\ Steer(k, st)
  BY <1>2 DEF D_Publish
<1>4. st \in Stamp
  <2>1. HashWorker[k] \in Workers
    BY FlowTableAssumption DEF FlowTableAssumption
  <2> QED BY <1>0, <1>1, <1>3, <2>1, StampMake DEF TypeOK, FlowTableTypeOK
<1>5. /\ worker_id' = [worker_id EXCEPT ![pslot] = HashWorker[k]]
      /\ dpc' = "resolve" /\ ~Publishing' /\ todo' = Tail(todo)
      /\ UNCHANGED <<status, keyAt, waiting, flow_gen, pubs, cold, replaced,
                     worker_rings>>
  BY <1>2, <1>3 DEF D_Publish, Steer, hashVars, Publishing
<1>6. \A s \in Slots : ~Rewriting(s)'
  BY <1>5 DEF Rewriting
<1>7. StampsKept
  BY <1>5, <1>6, QuietStamps
<1>8. cold[pslot] = Whole(k) /\ keyAt[pslot] = k
  BY <1>0, <1>1, <1>2 DEF PublishInv
<1>9. StampOK(k, st)'
  <2>1. pubs[pslot] \in Nat /\ flow_gen[pslot] = GenOf(pubs[pslot])
    BY <1>0, <1>1 DEF TypeOK, FlowTableTypeOK, GenerationInv
  <2> QED BY <1>1, <1>3, <1>5, <1>6, <1>8, <2>1 DEF StampOK
<1>10. PacketInv'
  BY <1>0, <1>3, <1>4, <1>5, <1>7, <1>9, SteerPackets
<1>11. GenerationInv' /\ PublishInv'
  BY <1>0, <1>5 DEF GenerationInv, PublishInv
<1>12. \A s \in Slots : s # pslot => worker_id'[s] = worker_id[s]
  BY <1>0, <1>5 DEF TypeOK, FlowTableTypeOK
<1>13. LiveInv'
  <2>1. SUFFICES ASSUME NEW s \in Slots, status[s] = "live"
                 PROVE  Describes(s, keyAt[s])'
    BY <1>5 DEF LiveInv
  <2>2. CASE s = pslot
    BY <1>0, <1>1, <1>5, <1>8, <2>2 DEF Describes, TypeOK, FlowTableTypeOK
  <2>3. CASE s # pslot
    BY <1>0, <1>5, <1>12, <2>1, <2>3 DEF LiveInv, Describes
  <2> QED BY <2>2, <2>3
<1>14. LookupInv'
  <2>1. \A s \in Slots : Pinned(s) /\ ~Claimed(s)
                            => Pinned(s)' /\ ~Claimed(s)' /\ Unchanged(s)
    BY <1>1, <1>5, <1>12 DEF Claimed, Unchanged, Pinned
  <2> QED BY <1>0, <1>1, <1>5, <2>1, TodoTail, LookupKept
<1> QED BY <1>10, <1>11, <1>13, <1>14 DEF TableInv

\* A hit of the bulk lookup is still the packet's flow, unless an eviction of
\* this burst came between (then the stamp is dirty and claims nothing).
LEMMA HitStep ==
    ASSUME ClassificationInv, D_Hit, UNCHANGED hand
    PROVE  PacketInv' /\ TableInv'
<1>0. TypeOK /\ PacketInv /\ GenerationInv /\ LiveInv /\ LookupInv
  BY DEF ClassificationInv
<1>1. todo # <<>> /\ dpc = "resolve" /\ Head(todo).key \in Keys /\ Head(todo).pos \in Slots
  BY <1>0, HeadTypes DEF D_Hit
<1>2. PICK k \in Keys, s \in Slots : k = Head(todo).key /\ s = Head(todo).pos
  BY <1>1
<1>3. PICK st : /\ st = [slot |-> s, gen |-> flow_gen[s], worker |-> worker_id[s],
                         pub |-> pubs[s], dirty |-> replaced]
                /\ Steer(k, st)
  BY <1>2 DEF D_Hit
<1>4. st \in Stamp
  BY <1>0, <1>3, StampMake DEF TypeOK, FlowTableTypeOK, DispatcherTypeOK
<1>5. /\ dpc' = "resolve" /\ ~Publishing /\ ~Publishing' /\ todo' = Tail(todo)
      /\ UNCHANGED <<status, keyAt, waiting, flow_gen, worker_id, pubs, cold,
                     replaced, worker_rings>>
  BY <1>1, <1>3 DEF D_Hit, Steer, hashVars, Publishing
<1>6. StampsKept /\ GenerationInv' /\ LiveInv' /\ PublishInv'
  BY <1>0, <1>5, NoPublication
<1>7. StampOK(k, st)'
  <2>1. pubs[s] \in Nat /\ flow_gen[s] = GenOf(pubs[s])
    BY <1>0 DEF TypeOK, FlowTableTypeOK, GenerationInv
  <2>2. ~replaced => cold[s] = Whole(k) /\ worker_id[s] = HashWorker[k]
    <3>1. 1 \in DOMAIN todo /\ todo[1] = Head(todo)
      BY <1>0, <1>1, TailElements DEF TypeOK, DispatcherTypeOK
    <3>2. s # Miss
      BY DispatcherAssumption DEF DispatcherAssumption
    <3> QED BY <1>0, <1>2, <3>1, <3>2 DEF LookupInv, Describes
  <2>3. ~Rewriting(s)'
    BY <1>5 DEF Rewriting
  <2> QED BY <1>3, <1>5, <2>1, <2>2, <2>3 DEF StampOK
<1>8. PacketInv'
  BY <1>0, <1>3, <1>4, <1>5, <1>6, <1>7, SteerPackets
<1>9. LookupInv'
  <2>1. \A r \in Slots : Pinned(r) => Pinned(r)'
    BY <1>5 DEF Pinned
  <2> QED BY <1>0, <1>1, <1>5, <2>1, TodoTail, LookupOutside
<1> QED BY <1>6, <1>8, <1>9 DEF TableInv

\* A duplicate takes over the stamp of the packet before it.
LEMMA DuplicateStep ==
    ASSUME ClassificationInv, D_Duplicate, UNCHANGED hand
    PROVE  PacketInv' /\ TableInv'
<1>0. TypeOK /\ PacketInv /\ GenerationInv /\ LiveInv /\ LookupInv
  BY DEF ClassificationInv
<1>1. todo # <<>> /\ dpc = "resolve" /\ Head(todo).key \in Keys
  BY <1>0, HeadTypes DEF D_Duplicate
<1>2. PICK k \in Keys, st \in Stamp :
         k = Head(todo).key /\ st = resolved[k] /\ resolved[k] # Unresolved
  BY <1>0, <1>1 DEF D_Duplicate, TypeOK, DispatcherTypeOK
<1>3. /\ Steer(k, st) /\ dpc' = "resolve" /\ ~Publishing /\ ~Publishing'
      /\ todo' = Tail(todo)
      /\ UNCHANGED <<status, keyAt, waiting, flow_gen, worker_id, pubs, cold,
                     replaced, worker_rings>>
  BY <1>1, <1>2 DEF D_Duplicate, Steer, hashVars, Publishing
<1>4. StampsKept /\ GenerationInv' /\ LiveInv' /\ PublishInv'
  BY <1>0, <1>3, NoPublication
<1>5. StampOK(k, st)'
  BY <1>0, <1>2, <1>4 DEF PacketInv, StampsKept
<1>6. PacketInv'
  BY <1>0, <1>3, <1>4, <1>5, SteerPackets
<1>7. LookupInv'
  <2>1. \A r \in Slots : Pinned(r) => Pinned(r)'
    BY <1>3 DEF Pinned
  <2> QED BY <1>0, <1>1, <1>3, <2>1, TodoTail, LookupOutside
<1> QED BY <1>4, <1>6, <1>7 DEF TableInv

\* A hit of the bulk lookup is a live position that describes the packet's key.
LEMMA LookupStep ==
    ASSUME ClassificationInv, D_Lookup, UNCHANGED hand
    PROVE  PacketInv' /\ TableInv'
<1>0. TypeOK /\ PacketInv /\ GenerationInv /\ LiveInv /\ LookupInv
  BY DEF ClassificationInv
<1>1. /\ dpc = "lookup" /\ ~Publishing /\ ~Publishing'
      /\ UNCHANGED <<status, keyAt, waiting, flow_gen, worker_id, pubs, cold,
                     resolved, worker_buffers, replaced, worker_rings>>
  BY DEF D_Lookup, tableVars, hashVars, hotVars, Publishing
<1>2. StampsKept /\ GenerationInv' /\ LiveInv' /\ PublishInv'
  BY <1>0, <1>1, NoPublication
<1>3. PacketInv'
  BY <1>0, <1>1, <1>2, PacketsKept
<1>4. PICK p \in Slots \cup {Miss} :
         /\ IF p = Miss THEN ~Present(Head(burst)) ELSE Holds(p, Head(burst))
         /\ todo' = Append(todo, [key |-> Head(burst), pos |-> p])
  BY DEF D_Lookup
<1>5. LookupInv'
  <2> DEFINE e == [key |-> Head(burst), pos |-> p]
             S == [key : Keys, pos : Slots \cup {Miss}]
  <2>1. todo \in Seq(S) /\ e \in S
    <3>1. burst \in Seq(Keys) /\ burst # <<>> /\ todo \in Seq(S)
      BY <1>0, <1>1 DEF TypeOK, DispatcherTypeOK
    <3> QED BY <3>1, TailElements
  <2>2. ASSUME NEW j \in DOMAIN todo'
        PROVE  todo'[j] = e \/ (j \in DOMAIN todo /\ todo'[j] = todo[j])
    BY <1>4, <2>1, AppendElements
  <2>3. p # Miss => /\ status[p] = "live" /\ keyAt[p] = Head(burst)
                    /\ Describes(p, Head(burst))
    BY <1>0, <1>1, <1>4 DEF Holds, LiveInv
  <2>4. SUFFICES ASSUME ~replaced, NEW j \in DOMAIN todo', todo'[j].pos # Miss
                 PROVE  /\ Pinned(todo[j].pos)'
                        /\ keyAt'[todo'[j].pos] = todo'[j].key
                        /\ Describes(todo[j].pos, todo[j].key)'
                        /\ ~(Publishing /\ pslot = todo[j].pos)'
    BY <1>1 DEF LookupInv
  <2>5. CASE todo'[j] = e
    <3>1. todo'[j].pos = p /\ todo'[j].key = Head(burst)
      BY <2>5
    <3> QED BY <1>1, <2>3, <2>4, <3>1 DEF Pinned, Describes
  <2>6. CASE j \in DOMAIN todo /\ todo'[j] = todo[j]
    BY <1>0, <1>1, <2>4, <2>6 DEF LookupInv, Pinned, Describes
  <2> QED BY <2>2, <2>5, <2>6
<1> QED BY <1>2, <1>3, <1>5 DEF TableInv

\* Steps outside a publication that drop packets, evict, reclaim or do nothing.
LEMMA QuietSteps ==
    ASSUME ClassificationInv, UNCHANGED hand,
           \/ D_Poll \/ D_Rx \/ D_AddFails \/ D_Evict \/ D_Reclaim \/ D_RetryFails
    PROVE  PacketInv' /\ TableInv' /\ UNCHANGED pubs
<1>0. TypeOK /\ PacketInv /\ GenerationInv /\ LiveInv /\ LookupInv
  BY DEF ClassificationInv
<1>e. D_Evict => \/ \E E \in SUBSET Slots : EvictAll(E)
                 \/ DropPacket /\ UNCHANGED hashVars
  BY DEF D_Evict, CachedVictims, EmergencyVictims
<1>1. /\ ~Publishing /\ ~Publishing'
      /\ UNCHANGED <<flow_gen, worker_id, pubs, cold, keyAt, resolved,
                     worker_buffers, worker_rings>>
  <2>1. CASE D_Poll \/ D_Rx
    BY <2>1 DEF D_Poll, D_Rx, Publishing, tableVars, hashVars, hotVars, dispatcherVars
  <2>2. CASE D_AddFails \/ D_RetryFails
    BY <2>2 DEF D_AddFails, D_RetryFails, Missed, DropPacket, Publishing, tableVars,
                hashVars, hotVars
  <2>3. CASE D_Reclaim
    BY <2>3 DEF D_Reclaim, Publishing, hotVars
  <2>4. CASE D_Evict
    BY <1>e, <2>4 DEF D_Evict, EvictAll, Retire, DropPacket, Publishing, hotVars,
                      hashVars
  <2> QED BY <2>1, <2>2, <2>3, <2>4
<1>2. \A s \in Slots : status'[s] = "live" => status[s] = "live"
  <2>1. CASE D_Poll \/ D_Rx \/ D_AddFails \/ D_RetryFails
    BY <2>1 DEF D_Poll, D_Rx, D_AddFails, D_RetryFails, tableVars, hashVars
  <2>2. CASE D_Reclaim
    BY <2>2 DEF D_Reclaim, QuiescentAndReclaim
  <2>3. CASE D_Evict
    BY <1>0, <1>e, <2>3, RetirePins DEF EvictAll, hashVars
  <2> QED BY <2>1, <2>2, <2>3
<1>3. StampsKept /\ GenerationInv' /\ LiveInv' /\ PublishInv'
  BY <1>0, <1>1, <1>2, NoPublication
<1>4. PacketInv'
  BY <1>0, <1>1, <1>3, PacketsKept
<1>5. LookupInv'
  <2>1. CASE D_Poll \/ D_Rx
    <3>1. todo' = <<>>
      BY <1>0, <2>1 DEF D_Poll, D_Rx, dispatcherVars, TypeOK, DispatcherTypeOK
    <3> QED BY <3>1 DEF LookupInv
  <2>2. CASE D_Reclaim
    BY <2>2 DEF D_Reclaim, LookupInv
  <2>3. CASE D_AddFails \/ D_RetryFails
    <3>1. \A j \in DOMAIN todo' : \E i \in DOMAIN todo : todo'[j] = todo[i]
      <4>1. CASE D_AddFails
        BY <4>1 DEF D_AddFails
      <4>2. CASE D_RetryFails
        BY <1>0, <4>2, TodoTail DEF D_RetryFails, DropPacket, TypeOK, DispatcherTypeOK
      <4> QED BY <2>3, <4>1, <4>2
    <3>2. UNCHANGED <<status, waiting, replaced>>
      BY <2>3 DEF D_AddFails, D_RetryFails, tableVars, hashVars
    <3> QED BY <1>0, <1>1, <3>1, <3>2, LookupOutside DEF Pinned
  <2>4. CASE D_Evict
    <3>1. todo # <<>> /\ replaced' = replaced
      BY <1>0, <2>4 DEF D_Evict, TypeOK, DispatcherTypeOK
    <3>2. \A j \in DOMAIN todo' : \E i \in DOMAIN todo : todo'[j] = todo[i]
      BY <1>0, <1>e, <2>4, <3>1, TodoTail DEF EvictAll, DropPacket
    <3>3. \A s \in Slots : Pinned(s) => Pinned(s)'
      BY <1>0, <1>e, <2>4, RetirePins DEF EvictAll, hashVars, Pinned
    <3> QED BY <1>0, <1>1, <3>1, <3>2, <3>3, LookupOutside
  <2> QED BY <2>1, <2>2, <2>3, <2>4
<1> QED BY <1>1, <1>3, <1>4, <1>5 DEF TableInv

\* The buffers go to the rings, as far as they fit, and the burst is over.
LEMMA EnqueueStep ==
    ASSUME ClassificationInv, D_Enqueue, UNCHANGED hand
    PROVE  PacketInv' /\ TableInv'
<1>0. TypeOK /\ PacketInv /\ GenerationInv /\ LiveInv /\ LookupInv
  BY DEF ClassificationInv
<1>1. /\ ~Publishing /\ ~Publishing' /\ todo' = <<>>
      /\ UNCHANGED <<status, keyAt, flow_gen, worker_id, pubs, cold>>
      /\ resolved' = [k \in Keys |-> Unresolved]
      /\ worker_buffers' = [w \in Workers |-> <<>>]
      /\ worker_rings' = [w \in Workers |->
                            EnqueueBurst(worker_rings[w], worker_buffers[w])]
  BY DEF D_Enqueue, Publishing, hotVars
<1>2. StampsKept /\ GenerationInv' /\ LiveInv' /\ PublishInv'
  BY <1>0, <1>1, NoPublication
<1>3. LookupInv'
  BY <1>1 DEF LookupInv
<1>4. ASSUME NEW w \in Workers
      PROVE  /\ QueueOK(w, worker_buffers[w])' /\ QueueOK(w, worker_rings[w])'
             /\ QueueOK(w, hand[w])'
  <2>1. PICK b \in Seq(Packet), r \in Seq(Packet), h \in Seq(Packet) :
           b = worker_buffers[w] /\ r = worker_rings[w] /\ h = hand[w]
    BY <1>0 DEF TypeOK, DispatcherTypeOK, RingsTypeOK, WorkerTypeOK, Packet
  <2>2. QueueOK(w, b)' /\ QueueOK(w, r)' /\ QueueOK(w, h)'
    <3>1. QueueOK(w, b) /\ QueueOK(w, r) /\ QueueOK(w, h)
      BY <1>0, <2>1 DEF PacketInv
    <3> QED BY <1>2, <3>1, QueueKept
  <2>3. QueueOK(w, worker_buffers[w])' /\ QueueOK(w, hand[w])'
    BY <1>1, <2>1, <2>2 DEF QueueOK
  <2>4. QueueOK(w, worker_rings[w])'
    <3>1. Len(r) <= RingSize /\ RingSize \in Nat
      BY <1>0, <2>1, PacketRingsAssumption
         DEF TypeOK, RingsTypeOK, PacketRingsAssumption
    <3>2. PICK n \in Nat : n <= Len(b) /\ n = Fits(r, b)
      <4>1. Len(r) \in Nat /\ Len(b) \in Nat
        OBVIOUS
      <4>2. Fits(r, b) \in Nat /\ Fits(r, b) <= Len(b)
        BY <3>1, <4>1 DEF Fits
      <4> QED BY <4>2
    <3>3. worker_rings'[w] = r \o SubSeq(b, 1, n)
      BY <1>1, <2>1, <3>2 DEF EnqueueBurst
    <3>4. /\ SubSeq(b, 1, n) \in Seq(Packet)
          /\ \A j \in DOMAIN SubSeq(b, 1, n) :
                j \in DOMAIN b /\ SubSeq(b, 1, n)[j] = b[j]
      BY <3>2, PrefixElements
    <3>5. PICK c \in Seq(Packet) : c = SubSeq(b, 1, n)
      BY <3>4
    <3>6. QueueOK(w, c)'
      BY <2>2, <3>4, <3>5 DEF QueueOK
    <3>7. \A j \in DOMAIN (r \o c) :
             \/ j \in DOMAIN r /\ (r \o c)[j] = r[j]
             \/ j - Len(r) \in DOMAIN c /\ (r \o c)[j] = c[j - Len(r)]
      BY ConcatElements
    <3>8. worker_rings'[w] = r \o c
      BY <3>3, <3>5
    <3> QED BY <2>2, <3>6, <3>7, <3>8 DEF QueueOK
  <2> QED BY <2>3, <2>4
<1>5. PacketInv'
  BY <1>1, <1>4 DEF PacketInv
<1> QED BY <1>2, <1>3, <1>5 DEF TableInv

\* Every step of the dispatcher.
LEMMA DispatcherInv ==
    ASSUME ClassificationInv, DispatcherNext
    PROVE  /\ PacketInv' /\ TableInv'
           /\ \A s \in Slots : pubs'[s] \in Nat /\ pubs[s] <= pubs'[s]
<1>0. UNCHANGED hand
  BY DEF DispatcherNext, DispatcherFrame, workerVars
<1>1. UNCHANGED pubs => \A s \in Slots : pubs'[s] \in Nat /\ pubs[s] <= pubs'[s]
  <2>1. SUFFICES ASSUME UNCHANGED pubs, NEW s \in Slots
                 PROVE  pubs'[s] \in Nat /\ pubs[s] <= pubs'[s]
    OBVIOUS
  <2>2. pubs[s] \in Nat
    BY DEF ClassificationInv, TypeOK, FlowTableTypeOK
  <2> QED BY <2>1, <2>2
<1>2. CASE D_Poll \/ D_Rx \/ D_AddFails \/ D_Evict \/ D_Reclaim \/ D_RetryFails
  BY <1>0, <1>1, <1>2, QuietSteps
<1>3. CASE D_Lookup
  BY <1>0, <1>1, <1>3, LookupStep DEF D_Lookup, tableVars, hotVars
<1>4. CASE D_Duplicate
  BY <1>0, <1>1, <1>4, DuplicateStep DEF D_Duplicate
<1>5. CASE D_Hit
  BY <1>0, <1>1, <1>5, HitStep DEF D_Hit
<1>6. CASE D_Add \/ D_Retry
  <2>1. AddHead /\ dpc \in {"resolve", "retry"} /\ todo # <<>>
    BY <1>6 DEF D_Add, D_Retry, Missed, ClassificationInv, TypeOK, DispatcherTypeOK
  <2>2. UNCHANGED pubs
    BY <2>1 DEF AddHead, hotVars
  <2> QED BY <1>0, <1>1, <2>1, <2>2, AddHeadStep
<1>7. CASE D_NextGeneration
  BY <1>0, <1>7, NextGenerationStep
<1>8. CASE D_ClearCold
  BY <1>0, <1>1, <1>8, ClearColdStep DEF D_ClearCold, hotVars
<1>9. CASE D_WriteCold
  BY <1>0, <1>1, <1>9, WriteColdStep DEF D_WriteCold, hotVars
<1>10. CASE D_Publish
  BY <1>0, <1>1, <1>10, PublishStep DEF D_Publish
<1>11. CASE D_Enqueue
  BY <1>0, <1>1, <1>11, EnqueueStep DEF D_Enqueue, hotVars
<1> QED BY <1>2, <1>3, <1>4, <1>5, <1>6, <1>7, <1>8, <1>9, <1>10, <1>11
           DEF DispatcherNext

-----------------------------------------------------------------------------
(* The steps of the stats thread, of the clock and of the workers.         *)

\* Aging and pressure delete keys and report quiescent states: neither touches a
\* pinned position, and none of it concerns the packets.
LEMMA StatsInv ==
    ASSUME ClassificationInv, StatsNext
    PROVE  PacketInv' /\ TableInv' /\ UNCHANGED <<pubs, workerVars>>
<1>0. TypeOK /\ PacketInv /\ GenerationInv /\ LiveInv /\ PublishInv /\ LookupInv
  BY DEF ClassificationInv
<1>1. UNCHANGED <<worker_rings, dispatcherVars, workerVars>>
  BY DEF StatsNext, StatsFrame
<1>2. UNCHANGED <<keyAt, hotVars, cold>>
  BY DEF StatsNext, S_Wake, S_Collect, S_EndScan, S_Recheck, S_Delete, S_EndFlush,
         S_Sample, S_Candidate, S_Validate, S_Evict, S_Stash, S_Skip, S_EndPressure,
         S_Rest,
         DeleteKey, Retire, tableVars, hashVars, sideVars
<1>3. /\ \A s \in Slots : Pinned(s) => Pinned(s)'
      /\ \A s \in Slots : status'[s] = "live" => status[s] = "live"
  <2>1. CASE S_Delete \/ S_Evict
    <3>1. \E S : Retire(S)
      BY <2>1 DEF S_Delete, S_Evict, DeleteKey
    <3> QED BY <1>0, <3>1, RetirePins
  <2>2. CASE S_Rest
    BY <1>0, <2>2, StatsRestPins DEF S_Rest
  <2>3. CASE ~(S_Delete \/ S_Evict \/ S_Rest)
    <3>1. UNCHANGED <<status, waiting>>
      BY <2>3 DEF StatsNext, S_Wake, S_Collect, S_EndScan, S_Recheck, S_EndFlush,
             S_Sample, S_Candidate, S_Validate, S_Stash, S_Skip, S_EndPressure, tableVars,
             hashVars
    <3> QED BY <3>1 DEF Pinned
  <2> QED BY <2>1, <2>2, <2>3
<1>4. /\ UNCHANGED <<flow_gen, worker_id, pubs, dpc, todo, resolved, worker_buffers,
                     pslot, unwritten, replaced, hand>>
      /\ (Publishing' <=> Publishing)
  BY <1>1, <1>2 DEF hotVars, dispatcherVars, workerVars, Publishing
<1>5. StampsKept
  BY <1>2, <1>4, QuietStamps DEF Rewriting
<1>6. PacketInv'
  BY <1>0, <1>1, <1>4, <1>5, PacketsKept
<1>7. GenerationInv'
  BY <1>0, <1>4 DEF GenerationInv
<1>8. LiveInv'
  BY <1>0, <1>2, <1>3, <1>4, LiveKept DEF Claimed, Unchanged
<1>9. PublishInv'
  <2>1. SUFFICES ASSUME Publishing PROVE PublishInv'
    BY <1>4 DEF PublishInv
  <2>2. pslot \in Slots
    BY <1>0, <2>1 DEF TypeOK, DispatcherTypeOK
  <2>3. Pinned(pslot)'
    BY <1>0, <1>3, <1>4, <2>1, <2>2 DEF PublishInv, Pinned
  <2> QED BY <1>0, <1>2, <1>4, <2>1, <2>3 DEF PublishInv
<1>10. LookupInv'
  BY <1>0, <1>2, <1>3, <1>4, LookupKept DEF Claimed, Unchanged
<1> QED BY <1>1, <1>4, <1>6, <1>7, <1>8, <1>9, <1>10 DEF TableInv

\* A step that changes nothing but the clock, the rings and the workers.
LEMMA TableUntouched ==
    ASSUME ClassificationInv,
           UNCHANGED <<hashVars, hotVars, cold, dispatcherVars>>
    PROVE  StampsKept /\ TableInv'
<1>1. UNCHANGED <<status, keyAt, waiting, flow_gen, worker_id, pubs, cold, dpc,
                  todo, pslot, unwritten, replaced>>
  BY DEF hashVars, hotVars, dispatcherVars
<1>2. StampsKept
  BY <1>1, QuietStamps DEF Rewriting
<1>3. GenerationInv' /\ LiveInv'
  BY <1>1 DEF ClassificationInv, GenerationInv, LiveInv, Publishing, Describes
<1>4. PublishInv' /\ LookupInv'
  BY <1>1 DEF ClassificationInv, PublishInv, LookupInv, Publishing, Describes, Pinned
<1> QED BY <1>2, <1>3, <1>4 DEF TableInv

\* The packet in a worker's hand carries a stamp of a real publication.
LEMMA PktStamp ==
    ASSUME ClassificationInv, NEW w \in Workers, hand[w] # <<>>
    PROVE  \E p \in Packet :
              /\ p = Pkt(w) /\ StampOK(p.key, p.stamp)
              /\ p.key \in Keys /\ p.stamp.slot \in Slots /\ p.stamp.pub \in Nat
              /\ p.stamp.dirty \in BOOLEAN
<1>1. hand[w] \in Seq(Packet) /\ QueueOK(w, hand[w])
  BY DEF ClassificationInv, TypeOK, WorkerTypeOK, Packet, PacketInv
<1>2. Pkt(w) \in Packet /\ StampOK(Pkt(w).key, Pkt(w).stamp)
  BY <1>1, TailElements DEF QueueOK, Pkt
<1>3. \A p \in Packet : /\ p.key \in Keys /\ p.stamp.slot \in Slots
                        /\ p.stamp.pub \in Nat /\ p.stamp.dirty \in BOOLEAN
  BY PacketFields, StampFields
<1> QED BY <1>2, <1>3

\* Taking packets from the ring and finishing one keep the queues good.
LEMMA HandPackets ==
    ASSUME ClassificationInv, NEW w \in Workers, W_Dequeue(w) \/ W_Match(w),
           StampsKept, UNCHANGED <<resolved, worker_buffers>>
    PROVE  PacketInv'
<1>0. TypeOK /\ PacketInv
  BY DEF ClassificationInv
<1>1. ASSUME NEW k \in Keys, resolved'[k] # Unresolved
      PROVE  StampOK(k, resolved[k])'
  <2>1. PICK st \in Stamp : st = resolved[k] /\ st = resolved'[k]
    BY <1>0, <1>1 DEF TypeOK, DispatcherTypeOK
  <2>2. StampOK(k, st)'
    BY <1>0, <1>1, <2>1 DEF PacketInv, StampsKept
  <2> QED BY <2>1, <2>2 DEF StampOK
<1>2. ASSUME NEW v \in Workers
      PROVE  /\ QueueOK(v, worker_buffers[v])' /\ QueueOK(v, worker_rings[v])'
             /\ QueueOK(v, hand[v])'
  <2>1. PICK b \in Seq(Packet), r \in Seq(Packet), h \in Seq(Packet) :
           b = worker_buffers[v] /\ r = worker_rings[v] /\ h = hand[v]
    BY <1>0 DEF TypeOK, DispatcherTypeOK, RingsTypeOK, WorkerTypeOK, Packet
  <2>2. QueueOK(v, b) /\ QueueOK(v, r) /\ QueueOK(v, h)
    BY <1>0, <2>1 DEF PacketInv
  <2>3. QueueOK(v, b)' /\ QueueOK(v, r)' /\ QueueOK(v, h)'
    BY <2>2, QueueKept
  <2>4. QueueOK(v, worker_buffers[v])'
    BY <2>1, <2>3 DEF QueueOK
  <2>5. CASE v # w
    <3>1. worker_rings'[v] = r /\ hand'[v] = h
      BY <1>0, <2>1, <2>5 DEF W_Dequeue, W_Match, TypeOK, WorkerTypeOK, RingsTypeOK
    <3> QED BY <2>3, <2>4, <3>1 DEF QueueOK
  <2>6. CASE v = w /\ W_Dequeue(w)
    <3> DEFINE n == IF Len(r) <= WORKER_BURST THEN Len(r) ELSE WORKER_BURST
    <3>1. n \in Nat /\ n <= Len(r)
      BY WorkerAssumption DEF WorkerAssumption
    <3>2. Dequeued(r, WORKER_BURST) = SubSeq(r, 1, n)
      BY DEF Dequeued
    <3> HIDE DEF n
    <3>3. /\ SubSeq(r, 1, n) \in Seq(Packet) /\ Len(SubSeq(r, 1, n)) = n
          /\ SubSeq(r, n + 1, Len(r)) \in Seq(Packet)
      BY <3>1, PrefixElements, SuffixElements
    <3>4. Remaining(r, WORKER_BURST) = SubSeq(r, n + 1, Len(r))
      BY <3>2, <3>3 DEF Remaining
    <3>5. PICK d \in Seq(Packet), e \in Seq(Packet) :
             d = SubSeq(r, 1, n) /\ e = SubSeq(r, n + 1, Len(r))
      BY <3>3
    <3>6. QueueOK(w, d) /\ QueueOK(w, e)
      BY <2>2, <2>6, <3>1, <3>5, QueuePrefix, QueueSuffix
    <3>7. QueueOK(w, d)' /\ QueueOK(w, e)'
      BY <3>6, QueueKept
    <3>8. hand'[w] = d /\ worker_rings'[w] = e
      BY <1>0, <2>1, <2>6, <3>2, <3>4, <3>5
         DEF W_Dequeue, TypeOK, WorkerTypeOK, RingsTypeOK
    <3> QED BY <2>4, <2>6, <3>7, <3>8 DEF QueueOK
  <2>7. CASE v = w /\ W_Match(w)
    <3>1. h # <<>>
      BY <1>0, <2>1, <2>7 DEF W_Match, TypeOK, WorkerTypeOK
    <3>2. PICK t \in Seq(Packet) : t = Tail(h)
      BY <3>1, TailElements
    <3>3. QueueOK(w, t)'
      BY <2>2, <2>7, <3>1, <3>2, QueueTail, QueueKept
    <3>4. hand'[w] = t /\ worker_rings'[w] = r
      BY <1>0, <2>1, <2>7, <3>2 DEF W_Match, TypeOK, WorkerTypeOK
    <3> QED BY <2>3, <2>4, <2>7, <3>3, <3>4 DEF QueueOK
  <2> QED BY <2>5, <2>6, <2>7
<1> QED BY <1>1, <1>2 DEF PacketInv

\* The word a worker copies is the packet's unless the position was republished.
LEMMA CopyStep ==
    ASSUME ClassificationInv, NEW w \in Workers, W_Copy(w), WorkerFrame
    PROVE  CopyInv' /\ ClassifiedByOwnTuple'
<1>0. TypeOK /\ CopyInv /\ ClassifiedByOwnTuple
  BY DEF ClassificationInv
<1>1. wpc[w] = "copy" /\ hand[w] # <<>> /\ UNCHANGED <<hand, lapped, pubs>>
  BY <1>0 DEF W_Copy, TypeOK, WorkerTypeOK, WorkerFrame, tableVars, hotVars
<1>2. PICK p \in Packet :
         /\ p = Pkt(w) /\ StampOK(p.key, p.stamp)
         /\ p.key \in Keys /\ p.stamp.slot \in Slots /\ p.stamp.pub \in Nat
         /\ p.stamp.dirty \in BOOLEAN
  BY <1>1, PktStamp
<1>3. PICK x \in uncopied[w] :
         /\ tuple' = [tuple EXCEPT ![w][x] = cold[p.stamp.slot][x]]
         /\ uncopied' = [uncopied EXCEPT ![w] = @ \ {x}]
  BY <1>2 DEF W_Copy
<1>4. /\ tuple \in [Workers -> [Words -> Keys \cup {NoKey}]]
      /\ uncopied \in [Workers -> SUBSET Words]
      /\ wpc \in [Workers -> {"next", "copy", "recheck", "match"}]
  BY <1>0 DEF TypeOK, WorkerTypeOK
<1>5. /\ wpc'[w] = IF uncopied'[w] = {} THEN "recheck" ELSE "copy"
      /\ uncopied'[w] = uncopied[w] \ {x} /\ x \in Words
      /\ tuple'[w] = [tuple[w] EXCEPT ![x] = cold[p.stamp.slot][x]]
      /\ \A v \in Workers : v # w => /\ wpc'[v] = wpc[v] /\ tuple'[v] = tuple[v]
                                     /\ uncopied'[v] = uncopied[v]
  BY <1>3, <1>4 DEF W_Copy
<1>6. ASSUME ~p.stamp.dirty, p.stamp.pub = pubs[p.stamp.slot],
             NEW y \in Words \ uncopied'[w]
      PROVE  tuple'[w][y] = p.key
  <2>1. CASE y = x
    <3>1. cold[p.stamp.slot] = Whole(p.key)
      BY <1>2, <1>6 DEF StampOK
    <3> QED BY <1>4, <1>5, <2>1, <3>1 DEF Whole
  <2>2. CASE y # x
    <3>1. y \in Words \ uncopied[w]
      BY <1>5, <1>6, <2>2
    <3>2. tuple[w][y] = p.key
      BY <1>0, <1>1, <1>2, <1>6, <3>1 DEF CopyInv
    <3> QED BY <1>4, <1>5, <2>2, <3>2
  <2> QED BY <2>1, <2>2
<1>7. CopyInv'
  <2>1. SUFFICES ASSUME NEW v \in Workers
                 PROVE  /\ wpc'[v] = "recheck" => uncopied'[v] = {}
                        /\ /\ wpc'[v] \in {"copy", "recheck"}
                           /\ ~Pkt(v).stamp.dirty
                           /\ Pkt(v).stamp.pub = pubs[Pkt(v).stamp.slot]
                           => \A y \in Words \ uncopied'[v] : tuple'[v][y] = Pkt(v).key
    BY <1>1 DEF CopyInv, Pkt
  <2>2. CASE v = w
    BY <1>2, <1>5, <1>6, <2>2
  <2>3. CASE v # w
    BY <1>0, <1>5, <2>3 DEF CopyInv
  <2> QED BY <2>2, <2>3
<1>8. ClassifiedByOwnTuple'
  <2>1. \A v \in Workers : wpc'[v] = "match" => v # w
    BY <1>5
  <2> QED BY <1>0, <1>1, <1>5, <2>1 DEF ClassifiedByOwnTuple, Pkt
<1> QED BY <1>7, <1>8

\* The second generation check: a copy that passes it is the packet's own tuple,
\* because a generation less than a period away names only one publication.
LEMMA RecheckStep ==
    ASSUME ClassificationInv, NEW w \in Workers, W_Recheck(w), WorkerFrame
    PROVE  CopyInv' /\ ClassifiedByOwnTuple'
<1>0. TypeOK /\ GenerationInv /\ CopyInv /\ ClassifiedByOwnTuple
  BY DEF ClassificationInv
<1>1. /\ wpc[w] = "recheck" /\ hand[w] # <<>>
      /\ UNCHANGED <<hand, uncopied, pubs>>
  BY <1>0 DEF W_Recheck, TypeOK, WorkerTypeOK, WorkerFrame, tableVars, hotVars
<1>2. PICK p \in Packet :
         /\ p = Pkt(w) /\ StampOK(p.key, p.stamp)
         /\ p.key \in Keys /\ p.stamp.slot \in Slots /\ p.stamp.pub \in Nat
         /\ p.stamp.dirty \in BOOLEAN
  BY <1>1, PktStamp
<1>3. /\ tuple \in [Workers -> [Words -> Keys \cup {NoKey}]]
      /\ wpc \in [Workers -> {"next", "copy", "recheck", "match"}]
      /\ lapped \in [Workers -> BOOLEAN]
      /\ pubs[p.stamp.slot] \in Nat
  BY <1>0, <1>2 DEF TypeOK, WorkerTypeOK, FlowTableTypeOK
<1>4. /\ wpc'[w] = "match"
      /\ lapped'[w] = (pubs[p.stamp.slot] - p.stamp.pub >= Period)
      /\ \A v \in Workers : v # w => /\ wpc'[v] = wpc[v] /\ tuple'[v] = tuple[v]
                                     /\ lapped'[v] = lapped[v]
  BY <1>2, <1>3 DEF W_Recheck, UseOwnTuple
<1>5. ASSUME ~lapped'[w], ~p.stamp.dirty
      PROVE  tuple'[w] = Whole(p.key)
  <2>1. CASE ~Current(w)
    BY <1>2, <1>3, <2>1 DEF W_Recheck, UseOwnTuple
  <2>2. CASE Current(w)
    <3>1. flow_gen[p.stamp.slot] = p.stamp.gen /\ tuple' = tuple
      BY <1>2, <2>2 DEF W_Recheck, Current
    <3>2. /\ GenOf(p.stamp.pub) = GenOf(pubs[p.stamp.slot])
          /\ p.stamp.pub <= pubs[p.stamp.slot]
      BY <1>0, <1>2, <3>1 DEF GenerationInv, StampOK
    <3>3. pubs[p.stamp.slot] - p.stamp.pub < Period
      <4>1. Period \in Nat
        BY FlowTableAssumption DEF FlowTableAssumption, Period
      <4>2. ~(pubs[p.stamp.slot] - p.stamp.pub >= Period)
        BY <1>4, <1>5
      <4> QED BY <1>2, <1>3, <4>1, <4>2
    <3>4. p.stamp.pub = pubs[p.stamp.slot]
      BY <1>2, <1>3, <3>2, <3>3, GenOfSame
    <3>5. \A x \in Words : tuple[w][x] = p.key
      BY <1>0, <1>1, <1>2, <1>5, <3>4 DEF CopyInv
    <3>6. tuple[w] = [x \in Words |-> tuple[w][x]]
      BY <1>3
    <3> QED BY <3>1, <3>5, <3>6 DEF Whole
  <2> QED BY <2>1, <2>2
<1>6. CopyInv'
  <2>1. \A v \in Workers : wpc'[v] \in {"copy", "recheck"} => v # w
    BY <1>4
  <2> QED BY <1>0, <1>1, <1>4, <2>1 DEF CopyInv, Pkt
<1>7. ClassifiedByOwnTuple'
  <2>1. SUFFICES ASSUME NEW v \in Workers, wpc'[v] = "match", ~lapped'[v],
                        ~Pkt(v).stamp.dirty
                 PROVE  tuple'[v] = Whole(Pkt(v).key)
    BY <1>1 DEF ClassifiedByOwnTuple, Pkt
  <2>2. CASE v = w
    BY <1>2, <1>5, <2>1, <2>2
  <2>3. CASE v # w
    BY <1>0, <1>4, <2>1, <2>3 DEF ClassifiedByOwnTuple
  <2> QED BY <2>2, <2>3
<1> QED BY <1>6, <1>7

\* The other steps of a worker start a packet, fall back to its headers or end it.
LEMMA OtherWorkerStep ==
    ASSUME ClassificationInv, NEW w \in Workers, WorkerFrame,
           W_Dequeue(w) \/ W_Fresh(w) \/ W_Stale(w) \/ W_Match(w)
    PROVE  CopyInv' /\ ClassifiedByOwnTuple'
<1>0. TypeOK /\ CopyInv /\ ClassifiedByOwnTuple
  BY DEF ClassificationInv
<1>1. /\ tuple \in [Workers -> [Words -> Keys \cup {NoKey}]]
      /\ uncopied \in [Workers -> SUBSET Words]
      /\ wpc \in [Workers -> {"next", "copy", "recheck", "match"}]
      /\ lapped \in [Workers -> BOOLEAN]
      /\ hand \in [Workers -> Seq(Packet)]
  BY <1>0 DEF TypeOK, WorkerTypeOK, Packet
<1>2. \A v \in Workers : v # w => /\ wpc'[v] = wpc[v] /\ tuple'[v] = tuple[v]
                                  /\ uncopied'[v] = uncopied[v]
                                  /\ lapped'[v] = lapped[v] /\ hand'[v] = hand[v]
  BY <1>1 DEF W_Dequeue, W_Fresh, W_Stale, W_Match, UseOwnTuple
<1>3. /\ wpc'[w] \in {"next", "copy", "match"}
      /\ wpc'[w] = "copy" => uncopied'[w] = Words
      /\ wpc'[w] = "match" => /\ tuple'[w] = Whole(Pkt(w).key) /\ UNCHANGED hand
  BY <1>1 DEF W_Dequeue, W_Fresh, W_Stale, W_Match, UseOwnTuple
<1>4. UNCHANGED pubs
  BY DEF WorkerFrame, tableVars, hotVars
<1>5. CopyInv'
  <2>1. SUFFICES ASSUME NEW v \in Workers
                 PROVE  /\ wpc'[v] = "recheck" => uncopied'[v] = {}
                        /\ /\ wpc'[v] \in {"copy", "recheck"}
                           /\ ~Head(hand'[v]).stamp.dirty
                           /\ Head(hand'[v]).stamp.pub = pubs[Head(hand'[v]).stamp.slot]
                           => \A y \in Words \ uncopied'[v] :
                                 tuple'[v][y] = Head(hand'[v]).key
    BY <1>4 DEF CopyInv, Pkt
  <2>2. CASE v = w
    BY <1>3, <2>2
  <2>3. CASE v # w
    BY <1>0, <1>2, <2>3 DEF CopyInv, Pkt
  <2> QED BY <2>2, <2>3
<1>6. ClassifiedByOwnTuple'
  <2>1. SUFFICES ASSUME NEW v \in Workers, wpc'[v] = "match", ~lapped'[v],
                        ~Head(hand'[v]).stamp.dirty
                 PROVE  tuple'[v] = Whole(Head(hand'[v]).key)
    BY DEF ClassifiedByOwnTuple, Pkt
  <2>2. CASE v = w
    BY <1>3, <2>1, <2>2 DEF Pkt
  <2>3. CASE v # w
    BY <1>0, <1>2, <2>1, <2>3 DEF ClassifiedByOwnTuple, Pkt
  <2> QED BY <2>2, <2>3
<1> QED BY <1>5, <1>6

\* Every step of a worker.
LEMMA WorkerInv ==
    ASSUME ClassificationInv, NEW w \in Workers, WorkerNext(w)
    PROVE  PacketInv' /\ TableInv' /\ CopyInv' /\ ClassifiedByOwnTuple'
<1>0. TypeOK /\ PacketInv /\ WorkerFrame
  BY DEF ClassificationInv, WorkerNext
<1>1. /\ StampsKept /\ TableInv' /\ UNCHANGED <<resolved, worker_buffers>>
  BY <1>0, TableUntouched DEF WorkerFrame, tableVars, dispatcherVars
<1>2. PacketInv'
  <2>1. CASE W_Dequeue(w) \/ W_Match(w)
    BY <1>1, <2>1, HandPackets
  <2>2. CASE W_Fresh(w) \/ W_Stale(w) \/ W_Copy(w) \/ W_Recheck(w)
    <3>1. UNCHANGED <<hand, worker_rings>>
      BY <2>2 DEF W_Fresh, W_Stale, W_Copy, W_Recheck
    <3> QED BY <1>0, <1>1, <3>1, PacketsKept
  <2> QED BY <2>1, <2>2 DEF WorkerNext
<1>3. CopyInv' /\ ClassifiedByOwnTuple'
  BY <1>0, CopyStep, RecheckStep, OtherWorkerStep DEF WorkerNext
<1> QED BY <1>1, <1>2, <1>3

-----------------------------------------------------------------------------
(* The theorems.                                                           *)

\* A step that is not a worker's keeps what the workers have in hand.
LEMMA WorkersUntouched ==
    ASSUME ClassificationInv, UNCHANGED workerVars,
           \A s \in Slots : pubs'[s] \in Nat /\ pubs[s] <= pubs'[s]
    PROVE  CopyInv' /\ ClassifiedByOwnTuple'
<1>1. CopyInv'
  BY CopyKept DEF ClassificationInv
<1>2. ClassifiedByOwnTuple'
  BY DEF ClassificationInv, ClassifiedByOwnTuple, workerVars, Pkt
<1> QED BY <1>1, <1>2

\* The initial states satisfy the inductive invariant.
LEMMA InitClassification == Init => ClassificationInv
<1> SUFFICES ASSUME Init PROVE ClassificationInv
  OBVIOUS
<1>1. TypeOK
  BY InitTypes
<1>2. /\ dpc = "poll" /\ todo = <<>> /\ resolved = [k \in Keys |-> Unresolved]
      /\ worker_buffers = [w \in Workers |-> <<>>]
      /\ worker_rings = [w \in Workers |-> <<>>]
      /\ hand = [w \in Workers |-> <<>>] /\ wpc = [w \in Workers |-> "next"]
  BY DEF Init, DispatcherInit, WorkerInit
<1>3. /\ flow_gen = [s \in Slots |-> 0] /\ pubs = [s \in Slots |-> 0]
      /\ status = [s \in Slots |-> "free"]
  BY DEF Init, FlowTableInit
<1>4. GenerationInv /\ LiveInv
  BY <1>3 DEF GenerationInv, GenOf, LiveInv
<1>5. PacketInv
  BY <1>2 DEF PacketInv, QueueOK
<1>6. PublishInv /\ LookupInv
  BY <1>2 DEF PublishInv, Publishing, LookupInv
<1>7. CopyInv /\ ClassifiedByOwnTuple
  BY <1>2 DEF CopyInv, ClassifiedByOwnTuple
<1> QED BY <1>1, <1>4, <1>5, <1>6, <1>7 DEF ClassificationInv

\* Every step keeps the inductive invariant.
LEMMA NextClassification == ClassificationInv /\ [Next]_vars => ClassificationInv'
<1> SUFFICES ASSUME ClassificationInv, [Next]_vars PROVE ClassificationInv'
  OBVIOUS
<1>0. TypeOK'
  BY NextTypes DEF ClassificationInv
<1>s. UNCHANGED pubs => \A s \in Slots : pubs'[s] \in Nat /\ pubs[s] <= pubs'[s]
  <2>1. SUFFICES ASSUME UNCHANGED pubs, NEW s \in Slots
                 PROVE  pubs'[s] \in Nat /\ pubs[s] <= pubs'[s]
    OBVIOUS
  <2>2. pubs[s] \in Nat
    BY DEF ClassificationInv, TypeOK, FlowTableTypeOK
  <2> QED BY <2>1, <2>2
<1>1. CASE DispatcherNext
  <2>1. UNCHANGED workerVars
    BY <1>1 DEF DispatcherNext, DispatcherFrame
  <2> QED BY <1>0, <1>1, <2>1, DispatcherInv, WorkersUntouched
             DEF ClassificationInv, TableInv
<1>2. CASE \E w \in Workers : WorkerNext(w)
  BY <1>0, <1>2, WorkerInv DEF ClassificationInv, TableInv
<1>3. CASE StatsNext
  BY <1>0, <1>s, <1>3, StatsInv, WorkersUntouched DEF ClassificationInv, TableInv
<1>4. CASE Tick \/ UNCHANGED vars
  <2>1. UNCHANGED <<hashVars, hotVars, cold, worker_rings, dispatcherVars, workerVars>>
    BY <1>4 DEF Tick, vars, tableVars
  <2>2. UNCHANGED <<pubs, resolved, worker_buffers, hand>>
    BY <2>1 DEF hotVars, dispatcherVars, workerVars
  <2>3. PacketInv' /\ TableInv'
    BY <2>1, <2>2, TableUntouched, PacketsKept DEF ClassificationInv
  <2> QED BY <1>0, <1>s, <2>1, <2>2, <2>3, WorkersUntouched DEF ClassificationInv, TableInv
<1> QED BY <1>1, <1>2, <1>3, <1>4, NextByThread

\* The inductive invariant holds in every behaviour.
THEOREM ClassificationInvariant == Spec => []ClassificationInv
BY InitClassification, NextClassification, PTL DEF Spec

\* Every packet whose stamp no mid-burst eviction spoiled is matched against its
\* own tuple, as long as its position does not go through a whole period of
\* generations while it waits (worker.c:158-174).
THEOREM OwnTuple == Spec => []ClassifiedByOwnTuple
<1>1. ClassificationInv => ClassifiedByOwnTuple
  BY DEF ClassificationInv
<1> QED BY <1>1, ClassificationInvariant, PTL

\* The positions a bulk lookup found are not given to other keys before the
\* burst's first quiescent report (dispatcher.c:149-238).
THEOREM PositionsPinned == Spec => []LookupPinned
<1>1. ClassificationInv => LookupPinned
  BY DEF ClassificationInv, LookupInv, LookupPinned, Pinned
<1> QED BY <1>1, ClassificationInvariant, PTL

\* Every packet that waits for a worker or is in its hands belongs to a flow that
\* hashes to it, but for the stamps a mid-burst eviction spoiled.
THEOREM Affinity == Spec => []FlowAffinity
<1>1. ClassificationInv => FlowAffinity
  BY DEF ClassificationInv, PacketInv, QueueOK, StampOK, FlowAffinity
<1> QED BY <1>1, ClassificationInvariant, PTL
=============================================================================
