------------------------- MODULE FlowcoreTypes_proofs -------------------------
(***************************************************************************)
(* TypeOK is an invariant of Flowcore: the types of every variable and the *)
(* few facts about the program counters that make each action well typed.  *)
(***************************************************************************)
EXTENDS Flowcore, DataLemmas

\* The fields of a stamp and of a packet, and how one is made.
LEMMA StampFields ==
    ASSUME NEW st \in Stamp
    PROVE  /\ st.slot \in Slots /\ st.gen \in 0 .. GenMod - 1
           /\ st.worker \in Workers /\ st.pub \in Nat /\ st.dirty \in BOOLEAN
BY DEF Stamp, Stamps

\* A record with fields of the right types is a stamp.
LEMMA StampMake ==
    ASSUME NEW s \in Slots, NEW g \in 0 .. GenMod - 1, NEW w \in Workers,
           NEW p \in Nat, NEW d \in BOOLEAN
    PROVE  [slot |-> s, gen |-> g, worker |-> w, pub |-> p, dirty |-> d] \in Stamp
BY DEF Stamp, Stamps

\* The fields of a packet.
LEMMA PacketFields ==
    ASSUME NEW p \in Packet
    PROVE  p.key \in Keys /\ p.stamp \in Stamp
BY DEF Packet, Packets, Stamp

\* A key and a stamp make a packet.
LEMMA PacketMake ==
    ASSUME NEW k \in Keys, NEW st \in Stamp
    PROVE  [key |-> k, stamp |-> st] \in Packet
BY DEF Packet, Packets, Stamp

\* The packet being resolved.
LEMMA HeadTypes ==
    ASSUME TypeOK, todo # <<>>
    PROVE  /\ Head(todo).key \in Keys
           /\ Head(todo).pos \in Slots \cup {Miss}
           /\ Tail(todo) \in Seq([key : Keys, pos : Slots \cup {Miss}])
<1>1. todo \in Seq([key : Keys, pos : Slots \cup {Miss}])
  BY DEF TypeOK, DispatcherTypeOK
<1>2. Head(todo) \in [key : Keys, pos : Slots \cup {Miss}]
  BY <1>1, TailElements
<1> QED BY <1>1, <1>2, TailElements

\* Any set of positions has a size, a deletion count stays a number.
LEMMA SlotSetSize ==
    ASSUME NEW S \in SUBSET Slots
    PROVE  Cardinality(S) \in Nat
BY FlowTableAssumption, FS_Subset, FS_CardinalityType DEF FlowTableAssumption

\* The next generation is a generation.
LEMMA GenerationNextType ==
    ASSUME NEW g \in 0 .. GenMod - 1
    PROVE  GenerationNext(g) \in 0 .. GenMod - 1
BY FlowTableAssumption DEF FlowTableAssumption, GenerationNext

\* Retire keeps the hash well typed.
LEMMA RetireTypes ==
    ASSUME TypeOK, NEW S, Retire(S)
    PROVE  /\ status' \in [Slots -> {"free", "live", "retired"}]
           /\ keyAt' \in [Slots -> Keys \cup {NoKey}]
           /\ waiting' \in [Slots -> SUBSET Threads]
           /\ statsOnline' = statsOnline
<1>1. OnlineThreads \subseteq Threads
  BY DEF OnlineThreads, Threads
<1> QED BY <1>1 DEF TypeOK, FlowTableTypeOK, Retire

\* What the frames of the threads keep well typed.
LEMMA DispatcherFrameTypes ==
    ASSUME TypeOK, DispatcherFrame, statsOnline' = statsOnline
    PROVE  WorkerTypeOK' /\ MaintenanceTypeOK'
BY DEF TypeOK, DispatcherFrame, WorkerTypeOK, workerVars, MaintenanceTypeOK, statsVars,
   cursorVars, passVars

\* The same for a step of the stats thread.
LEMMA StatsFrameTypes ==
    ASSUME TypeOK, StatsFrame
    PROVE  RingsTypeOK' /\ DispatcherTypeOK' /\ WorkerTypeOK'
<1>1. RingsTypeOK'
  BY DEF TypeOK, StatsFrame, RingsTypeOK
<1>2. DispatcherTypeOK'
  BY DEF TypeOK, StatsFrame, DispatcherTypeOK, dispatcherVars, Publishing
<1>3. WorkerTypeOK'
  BY DEF TypeOK, StatsFrame, WorkerTypeOK, workerVars
<1> QED BY <1>1, <1>2, <1>3

\* The packet at the head of todo is stamped: the buffers stay well typed.
LEMMA SteerTypes ==
    ASSUME TypeOK, todo # <<>>, NEW st \in Stamp, Steer(Head(todo).key, st)
    PROVE  /\ resolved' \in [Keys -> Stamp \cup {Unresolved}]
           /\ worker_buffers' \in [Workers -> Seq(Packet)]
           /\ todo' \in Seq([key : Keys, pos : Slots \cup {Miss}])
           /\ dpc' = "resolve"
<1>1. st.worker \in Workers /\ Head(todo).key \in Keys
  BY StampFields, HeadTypes
<1>2. worker_buffers \in [Workers -> Seq(Packet)]
  BY DEF TypeOK, DispatcherTypeOK
<1>3. Append(worker_buffers[st.worker], [key |-> Head(todo).key, stamp |-> st])
         \in Seq(Packet)
  BY <1>1, <1>2, PacketMake, AppendElements
<1>4. worker_buffers' \in [Workers -> Seq(Packet)]
  BY <1>2, <1>3 DEF Steer
<1>5. resolved' \in [Keys -> Stamp \cup {Unresolved}]
  BY <1>1 DEF TypeOK, DispatcherTypeOK, Steer
<1> QED BY <1>4, <1>5, HeadTypes DEF Steer

\* Popping victims leaves a sequence of victims.
LEMMA VictimsRemain ==
    ASSUME TypeOK
    PROVE  /\ Remaining(victims, FLOW_REPLACEMENT_RETRIES)
                 \in Seq([slot : Slots, gen : 0 .. GenMod - 1])
           /\ Len(Remaining(victims, FLOW_REPLACEMENT_RETRIES)) <= VictimCap
<1> DEFINE S == [slot : Slots, gen : 0 .. GenMod - 1]
           n == IF Len(victims) <= FLOW_REPLACEMENT_RETRIES
                THEN Len(victims) ELSE FLOW_REPLACEMENT_RETRIES
<1>1. victims \in Seq(S) /\ Len(victims) <= VictimCap /\ VictimCap \in Nat
  BY FlowTableAssumption DEF TypeOK, FlowTableTypeOK, FlowTableAssumption
<1>2. n \in Nat /\ n <= Len(victims)
  BY <1>1, FlowTableAssumption DEF FlowTableAssumption
<1> HIDE DEF S, n
<1>3. Len(SubSeq(victims, 1, n)) = n
  BY <1>1, <1>2, PrefixElements
<1>4. /\ SubSeq(victims, n + 1, Len(victims)) \in Seq(S)
      /\ Len(SubSeq(victims, n + 1, Len(victims))) <= VictimCap
  BY <1>1, <1>2, SuffixElements
<1> QED BY <1>3, <1>4 DEF Remaining, Dequeued, S, n

\* Every step of the dispatcher.
LEMMA DispatcherTypes ==
    ASSUME TypeOK, DispatcherFrame,
           \/ D_Poll \/ D_Rx \/ D_Lookup \/ D_Duplicate
           \/ D_Hit \/ D_Add \/ D_AddFails \/ D_NextGeneration
           \/ D_ClearCold \/ D_WriteCold \/ D_Publish \/ D_Reclaim
           \/ D_Retry \/ D_RetryFails \/ D_Enqueue \/ D_Evict
    PROVE  TypeOK'
<1>1. CASE D_Poll
  <2>1. FlowTableTypeOK'
    BY <1>1 DEF D_Poll, TypeOK, FlowTableTypeOK, hotVars, countVars, Quiescent
  <2>2. RingsTypeOK' /\ statsOnline' = statsOnline
    BY <1>1 DEF D_Poll, TypeOK, RingsTypeOK
  <2>3. DispatcherTypeOK'
    BY <1>1 DEF D_Poll, TypeOK, DispatcherTypeOK, dispatcherVars, Publishing,
       hotVars, countVars, Quiescent
  <2> QED BY <2>1, <2>2, <2>3, DispatcherFrameTypes DEF TypeOK
<1>2. CASE D_Rx
  <2>0. burst' \in Seq(Keys) /\ burst' # <<>>
    <3>1. PICK n \in 1 .. BURST_SIZE : burst' \in [1 .. n -> Keys]
      BY <1>2 DEF D_Rx
    <3>2. n \in Nat \ {0}
      BY <3>1, DispatcherAssumption DEF DispatcherAssumption
    <3> QED BY <3>1, <3>2
  <2>a. dtsc' \in 0 .. MaxNow
    BY <1>2 DEF D_Rx, TypeOK, FlowTableTypeOK
  <2>1. FlowTableTypeOK'
    BY <1>2 DEF D_Rx, TypeOK, FlowTableTypeOK, tableVars, hashVars, hotVars,
       countVars
  <2>2. RingsTypeOK' /\ statsOnline' = statsOnline
    BY <1>2 DEF D_Rx, TypeOK, RingsTypeOK, tableVars, hashVars
  <2>3. DispatcherTypeOK'
    BY <1>2, <2>0, <2>a DEF D_Rx, TypeOK, DispatcherTypeOK, Publishing
  <2> QED BY <2>1, <2>2, <2>3, DispatcherFrameTypes DEF TypeOK
<1>3. CASE D_Lookup
  <2>0. /\ burst \in Seq(Keys) /\ burst # <<>>
        /\ todo \in Seq([key : Keys, pos : Slots \cup {Miss}])
    BY <1>3 DEF D_Lookup, TypeOK, DispatcherTypeOK
  <2>a. Head(burst) \in Keys /\ Tail(burst) \in Seq(Keys)
    BY <2>0, TailElements
  <2>b. todo' \in Seq([key : Keys, pos : Slots \cup {Miss}])
    BY <1>3, <2>0, <2>a, AppendElements DEF D_Lookup
  <2>1. FlowTableTypeOK'
    BY <1>3 DEF D_Lookup, TypeOK, FlowTableTypeOK, tableVars, hashVars,
       hotVars, countVars
  <2>2. RingsTypeOK' /\ statsOnline' = statsOnline
    BY <1>3 DEF D_Lookup, TypeOK, RingsTypeOK, tableVars, hashVars
  <2>3. DispatcherTypeOK'
    BY <1>3, <2>0, <2>a, <2>b DEF D_Lookup, TypeOK, DispatcherTypeOK,
       Publishing
  <2> QED BY <2>1, <2>2, <2>3, DispatcherFrameTypes DEF TypeOK
<1>4. CASE D_Duplicate
  <2> DEFINE st == resolved[Head(todo).key]
  <2>0. todo # <<>> /\ st \in Stamp /\ st.slot \in Slots /\ Steer(Head(todo).key, st)
    <3>1. todo # <<>> /\ Head(todo).key \in Keys
      BY <1>4, HeadTypes DEF D_Duplicate
    <3>2. st \in Stamp
      BY <1>4, <3>1 DEF D_Duplicate, TypeOK, DispatcherTypeOK
    <3> QED BY <1>4, <3>1, <3>2, StampFields DEF D_Duplicate
  <2>1. FlowTableTypeOK'
    BY <1>4, <2>0 DEF D_Duplicate, TypeOK, FlowTableTypeOK, hashVars,
       countVars, DispatcherTypeOK
  <2>2. RingsTypeOK' /\ statsOnline' = statsOnline
    BY <1>4 DEF D_Duplicate, TypeOK, RingsTypeOK, hashVars
  <2>3. DispatcherTypeOK'
    BY <1>4, <2>0, SteerTypes DEF D_Duplicate, TypeOK, DispatcherTypeOK,
       Publishing
  <2> QED BY <2>1, <2>2, <2>3, DispatcherFrameTypes DEF TypeOK
<1>5. CASE D_Hit
  <2> DEFINE s == Head(todo).pos
             st == [slot |-> s, gen |-> flow_gen[s], worker |-> worker_id[s],
                    pub |-> pubs[s], dirty |-> replaced]
  <2>0. todo # <<>> /\ st \in Stamp /\ s \in Slots /\ Steer(Head(todo).key, st)
    <3>1. todo # <<>> /\ s \in Slots
      BY <1>5, HeadTypes DEF D_Hit
    <3>2. st \in Stamp
      BY <3>1, StampMake DEF TypeOK, FlowTableTypeOK, DispatcherTypeOK
    <3> QED BY <1>5, <3>1, <3>2 DEF D_Hit
  <2>1. FlowTableTypeOK'
    BY <1>5, <2>0 DEF D_Hit, TypeOK, FlowTableTypeOK, hashVars, countVars,
       DispatcherTypeOK
  <2>2. RingsTypeOK' /\ statsOnline' = statsOnline
    BY <1>5 DEF D_Hit, TypeOK, RingsTypeOK, hashVars
  <2>3. DispatcherTypeOK'
    BY <1>5, <2>0, SteerTypes DEF D_Hit, TypeOK, DispatcherTypeOK, Publishing
  <2> QED BY <2>1, <2>2, <2>3, DispatcherFrameTypes DEF TypeOK
<1>6. CASE D_Add
  <2>0. todo # <<>> /\ Head(todo).key \in Keys
    BY <1>6, HeadTypes DEF D_Add, Missed
  <2>1. FlowTableTypeOK'
    BY <1>6, <2>0 DEF D_Add, TypeOK, FlowTableTypeOK, AddHead, AddKey,
       Available, Free, Ready, hotVars, countVars
  <2>2. RingsTypeOK' /\ statsOnline' = statsOnline
    BY <1>6 DEF D_Add, TypeOK, RingsTypeOK, AddHead, AddKey
  <2>3. DispatcherTypeOK'
    BY <1>6, <2>0 DEF D_Add, AddHead, TypeOK, DispatcherTypeOK, Publishing
  <2> QED BY <2>1, <2>2, <2>3, DispatcherFrameTypes DEF TypeOK
<1>7. CASE D_AddFails
  <2>1. FlowTableTypeOK'
    BY <1>7 DEF D_AddFails, TypeOK, FlowTableTypeOK, Missed, tableVars,
       hashVars, hotVars, countVars
  <2>2. RingsTypeOK' /\ statsOnline' = statsOnline
    BY <1>7 DEF D_AddFails, TypeOK, RingsTypeOK, tableVars, hashVars
  <2>3. DispatcherTypeOK'
    BY <1>7 DEF D_AddFails, TypeOK, DispatcherTypeOK, dispatcherVars,
       Publishing, Missed, tableVars, hashVars, hotVars, countVars
  <2> QED BY <2>1, <2>2, <2>3, DispatcherFrameTypes DEF TypeOK
<1>8. CASE D_NextGeneration
  <2>0. pslot \in Slots
    BY <1>8 DEF D_NextGeneration, TypeOK, DispatcherTypeOK, Publishing
  <2>a. GenerationNext(flow_gen[pslot]) \in 0 .. GenMod - 1
    BY <2>0, GenerationNextType DEF TypeOK, FlowTableTypeOK
  <2>1. FlowTableTypeOK'
    BY <1>8, <2>0, <2>a DEF D_NextGeneration, TypeOK, FlowTableTypeOK,
       hashVars, countVars
  <2>2. RingsTypeOK' /\ statsOnline' = statsOnline
    BY <1>8 DEF D_NextGeneration, TypeOK, RingsTypeOK, hashVars
  <2>3. DispatcherTypeOK'
    BY <1>8 DEF D_NextGeneration, TypeOK, DispatcherTypeOK, dispatcherVars,
       Publishing, hashVars, countVars, GenerationNext
  <2> QED BY <2>1, <2>2, <2>3, DispatcherFrameTypes DEF TypeOK
<1>9. CASE D_ClearCold
  <2>0. pslot \in Slots /\ unwritten \subseteq Words /\ todo # <<>>
    BY <1>9 DEF D_ClearCold, TypeOK, DispatcherTypeOK, Publishing
  <2>a. cold' \in [Slots -> [Words -> Keys \cup {NoKey}]]
    <3>1. PICK x \in unwritten : cold' = [cold EXCEPT ![pslot][x] = NoKey]
      BY <1>9 DEF D_ClearCold
    <3>2. [cold[pslot] EXCEPT ![x] = NoKey] \in [Words -> Keys \cup {NoKey}]
      BY <2>0, HeadTypes DEF TypeOK, FlowTableTypeOK
    <3> QED BY <2>0, <3>1, <3>2 DEF TypeOK, FlowTableTypeOK
  <2>1. FlowTableTypeOK'
    BY <1>9, <2>a DEF D_ClearCold, TypeOK, FlowTableTypeOK, hashVars, hotVars,
       countVars
  <2>2. RingsTypeOK' /\ statsOnline' = statsOnline
    BY <1>9 DEF D_ClearCold, TypeOK, RingsTypeOK, hashVars
  <2>3. DispatcherTypeOK'
    BY <1>9 DEF D_ClearCold, TypeOK, DispatcherTypeOK, dispatcherVars,
       Publishing, hashVars, hotVars, countVars
  <2> QED BY <2>1, <2>2, <2>3, DispatcherFrameTypes DEF TypeOK
<1>10. CASE D_WriteCold
  <2>0. pslot \in Slots /\ unwritten \subseteq Words /\ todo # <<>>
    BY <1>10 DEF D_WriteCold, TypeOK, DispatcherTypeOK, Publishing
  <2>a. cold' \in [Slots -> [Words -> Keys \cup {NoKey}]]
    <3>1. PICK x \in unwritten : cold' = [cold EXCEPT ![pslot][x] = Head(todo).key]
      BY <1>10 DEF D_WriteCold
    <3>2. [cold[pslot] EXCEPT ![x] = Head(todo).key] \in [Words -> Keys \cup {NoKey}]
      BY <2>0, HeadTypes DEF TypeOK, FlowTableTypeOK
    <3> QED BY <2>0, <3>1, <3>2 DEF TypeOK, FlowTableTypeOK
  <2>1. FlowTableTypeOK'
    BY <1>10, <2>a DEF D_WriteCold, TypeOK, FlowTableTypeOK, hashVars,
       hotVars, countVars
  <2>2. RingsTypeOK' /\ statsOnline' = statsOnline
    BY <1>10 DEF D_WriteCold, TypeOK, RingsTypeOK, hashVars
  <2>3. DispatcherTypeOK'
    BY <1>10 DEF D_WriteCold, TypeOK, DispatcherTypeOK, dispatcherVars,
       Publishing, hashVars, hotVars, countVars
  <2> QED BY <2>1, <2>2, <2>3, DispatcherFrameTypes DEF TypeOK
<1>11. CASE D_Publish
  <2> DEFINE k == Head(todo).key
             st == [slot |-> pslot, gen |-> flow_gen[pslot],
                    worker |-> HashWorker[k], pub |-> pubs[pslot],
                    dirty |-> FALSE]
  <2>0. /\ todo # <<>> /\ st \in Stamp /\ pslot \in Slots
        /\ HashWorker[k] \in Workers /\ Steer(k, st)
    <3>1. todo # <<>> /\ pslot \in Slots
      BY <1>11 DEF D_Publish, TypeOK, DispatcherTypeOK, Publishing
    <3>2. HashWorker[k] \in Workers
      BY <3>1, HeadTypes, FlowTableAssumption DEF FlowTableAssumption
    <3>3. st \in Stamp
      BY <3>1, <3>2, StampMake DEF TypeOK, FlowTableTypeOK
    <3> QED BY <1>11, <3>1, <3>2, <3>3 DEF D_Publish
  <2>1. FlowTableTypeOK'
    BY <1>11, <2>0 DEF D_Publish, TypeOK, FlowTableTypeOK, hashVars,
       DispatcherTypeOK
  <2>2. RingsTypeOK' /\ statsOnline' = statsOnline
    BY <1>11 DEF D_Publish, TypeOK, RingsTypeOK, hashVars
  <2>3. DispatcherTypeOK'
    BY <1>11, <2>0, SteerTypes DEF D_Publish, TypeOK, DispatcherTypeOK,
       Publishing
  <2> QED BY <2>1, <2>2, <2>3, DispatcherFrameTypes DEF TypeOK
<1>12. CASE D_Reclaim
  <2>1. FlowTableTypeOK'
    BY <1>12 DEF D_Reclaim, TypeOK, FlowTableTypeOK, QuiescentAndReclaim,
       Quiescent, hotVars, countVars
  <2>2. RingsTypeOK' /\ statsOnline' = statsOnline
    BY <1>12 DEF D_Reclaim, TypeOK, RingsTypeOK
  <2>3. DispatcherTypeOK'
    BY <1>12 DEF D_Reclaim, TypeOK, DispatcherTypeOK, dispatcherVars,
       Publishing, QuiescentAndReclaim, Quiescent, hotVars, countVars
  <2> QED BY <2>1, <2>2, <2>3, DispatcherFrameTypes DEF TypeOK
<1>13. CASE D_Retry
  <2>0. todo # <<>> /\ Head(todo).key \in Keys
    BY <1>13, HeadTypes DEF D_Retry, TypeOK, DispatcherTypeOK
  <2>1. FlowTableTypeOK'
    BY <1>13, <2>0 DEF D_Retry, TypeOK, FlowTableTypeOK, AddHead, AddKey,
       Available, Free, Ready, hotVars, countVars
  <2>2. RingsTypeOK' /\ statsOnline' = statsOnline
    BY <1>13 DEF D_Retry, TypeOK, RingsTypeOK, AddHead, AddKey
  <2>3. DispatcherTypeOK'
    BY <1>13, <2>0 DEF D_Retry, AddHead, TypeOK, DispatcherTypeOK, Publishing
  <2> QED BY <2>1, <2>2, <2>3, DispatcherFrameTypes DEF TypeOK
<1>14. CASE D_RetryFails
  <2>0. /\ todo # <<>>
        /\ Tail(todo) \in Seq([key : Keys, pos : Slots \cup {Miss}])
    BY <1>14, HeadTypes DEF D_RetryFails, TypeOK, DispatcherTypeOK
  <2>1. FlowTableTypeOK'
    BY <1>14 DEF D_RetryFails, TypeOK, FlowTableTypeOK, DropPacket, tableVars,
       hashVars, hotVars, countVars
  <2>2. RingsTypeOK' /\ statsOnline' = statsOnline
    BY <1>14 DEF D_RetryFails, TypeOK, RingsTypeOK, tableVars, hashVars
  <2>3. DispatcherTypeOK'
    BY <1>14, <2>0 DEF D_RetryFails, TypeOK, DispatcherTypeOK, Publishing,
       DropPacket
  <2> QED BY <2>1, <2>2, <2>3, DispatcherFrameTypes DEF TypeOK
<1>15. CASE D_Enqueue
  <2>0. worker_rings' \in [Workers -> Seq(Packet)]
        /\ \A w \in Workers : Len(worker_rings'[w]) <= RingSize
    <3>1. SUFFICES ASSUME NEW w \in Workers
                   PROVE  /\ EnqueueBurst(worker_rings[w], worker_buffers[w]) \in Seq(Packet)
                          /\ Len(EnqueueBurst(worker_rings[w], worker_buffers[w])) <= RingSize
      BY <1>15 DEF D_Enqueue
    <3> DEFINE ring == worker_rings[w]
               buf == worker_buffers[w]
    <3>2. ring \in Seq(Packet) /\ buf \in Seq(Packet) /\ Len(ring) <= RingSize
      BY DEF TypeOK, RingsTypeOK, DispatcherTypeOK
    <3> HIDE DEF ring, buf
    <3>3. /\ Fits(ring, buf) \in Nat /\ Fits(ring, buf) <= Len(buf)
          /\ Len(ring) + Fits(ring, buf) <= RingSize
      BY <3>2, PacketRingsAssumption DEF PacketRingsAssumption, Fits
    <3>4. /\ SubSeq(buf, 1, Fits(ring, buf)) \in Seq(Packet)
          /\ Len(SubSeq(buf, 1, Fits(ring, buf))) = Fits(ring, buf)
      BY <3>2, <3>3, PrefixElements
    <3>5. EnqueueBurst(ring, buf) \in Seq(Packet)
          /\ Len(EnqueueBurst(ring, buf)) <= RingSize
      BY <3>2, <3>3, <3>4, ConcatElements DEF EnqueueBurst
    <3> QED BY <3>5 DEF ring, buf
  <2>a. [w \in Workers |-> <<>>] \in [Workers -> Seq(Packet)]
    OBVIOUS
  <2>1. FlowTableTypeOK'
    BY <1>15 DEF D_Enqueue, TypeOK, FlowTableTypeOK, Quiescent, hotVars,
       countVars
  <2>2. RingsTypeOK' /\ statsOnline' = statsOnline
    BY <1>15, <2>0 DEF D_Enqueue, RingsTypeOK
  <2>3. DispatcherTypeOK'
    <3>1. /\ todo = <<>> /\ UNCHANGED <<burst, todo, pslot, unwritten>>
          /\ dpc' = "poll" /\ replaced' = FALSE /\ dtsc' = 0
          /\ worker_buffers' = [w \in Workers |-> <<>>]
          /\ resolved' = [k \in Keys |-> Unresolved]
      BY <1>15 DEF D_Enqueue
    <3>2. 0 \in 0 .. MaxNow
      BY FlowTableAssumption DEF FlowTableAssumption
    <3>3. resolved' \in [Keys -> Stamp \cup {Unresolved}]
      BY <3>1
    <3> QED BY <2>a, <3>1, <3>2, <3>3 DEF TypeOK, DispatcherTypeOK, Publishing
  <2> QED BY <2>1, <2>2, <2>3, DispatcherFrameTypes DEF TypeOK
<1>16. CASE D_Evict
  <2>0. /\ todo # <<>>
        /\ Tail(todo) \in Seq([key : Keys, pos : Slots \cup {Miss}])
    BY <1>16, HeadTypes DEF D_Evict, TypeOK, DispatcherTypeOK
  <2>a. victims' \in Seq([slot : Slots, gen : 0 .. GenMod - 1]) /\ Len(victims') <= VictimCap
    BY <1>16, VictimsRemain DEF D_Evict
  <2>b. ASSUME NEW E \in SUBSET Slots, EvictAll(E)
        PROVE  /\ status' \in [Slots -> {"free", "live", "retired"}]
               /\ keyAt' \in [Slots -> Keys \cup {NoKey}]
               /\ waiting' \in [Slots -> SUBSET Threads]
               /\ statsOnline' = statsOnline
               /\ removed' \in Nat /\ flows_deleted' \in Nat
               /\ dpc' = "reclaim"
               /\ UNCHANGED <<todo, resolved, worker_buffers>>
    <3>1. /\ status' \in [Slots -> {"free", "live", "retired"}]
          /\ keyAt' \in [Slots -> Keys \cup {NoKey}]
          /\ waiting' \in [Slots -> SUBSET Threads]
          /\ statsOnline' = statsOnline
      BY <2>b, RetireTypes DEF EvictAll
    <3>2. removed \in Nat /\ flows_deleted \in Nat /\ Cardinality(E) \in Nat
      BY SlotSetSize DEF TypeOK, FlowTableTypeOK
    <3> QED BY <2>b, <3>1, <3>2 DEF EvictAll
  <2>c. CachedVictims \in SUBSET Slots /\ \A E \in EmergencyVictims : E \in SUBSET Slots
    BY DEF CachedVictims, EmergencyVictims
  <2>d. \/ \E E \in SUBSET Slots : EvictAll(E)
        \/ DropPacket /\ UNCHANGED <<hashVars, removed, flows_deleted>>
    BY <1>16, <2>c DEF D_Evict
  <2>1. FlowTableTypeOK'
    <3>1. CASE \E E \in SUBSET Slots : EvictAll(E)
      BY <1>16, <2>a, <2>b, <3>1 DEF D_Evict, TypeOK, FlowTableTypeOK, hotVars
    <3>2. CASE DropPacket /\ UNCHANGED <<hashVars, removed, flows_deleted>>
      BY <1>16, <2>a, <3>2 DEF D_Evict, TypeOK, FlowTableTypeOK, hotVars, hashVars
    <3> QED BY <2>d, <3>1, <3>2
  <2>2. RingsTypeOK' /\ statsOnline' = statsOnline
    BY <1>16, <2>b, <2>d DEF D_Evict, TypeOK, RingsTypeOK, hashVars
  <2>3. DispatcherTypeOK'
    <3>1. CASE \E E \in SUBSET Slots : EvictAll(E)
      BY <1>16, <2>0, <2>b, <3>1 DEF D_Evict, TypeOK, DispatcherTypeOK, Publishing
    <3>2. CASE DropPacket /\ UNCHANGED <<hashVars, removed, flows_deleted>>
      BY <1>16, <2>0, <3>2 DEF D_Evict, TypeOK, DispatcherTypeOK, Publishing, DropPacket
    <3> QED BY <2>d, <3>1, <3>2
  <2> QED BY <2>1, <2>2, <2>3, DispatcherFrameTypes DEF TypeOK
<1> QED BY <1>1, <1>2, <1>3, <1>4, <1>5, <1>6, <1>7, <1>8,
             <1>9, <1>10, <1>11, <1>12, <1>13, <1>14, <1>15, <1>16

\* The item at the head of the aging batch.
LEMMA BatchTypes ==
    ASSUME TypeOK
    PROVE  /\ batch \in Seq([slot : Slots, key : Keys \cup {NoKey}])
           /\ batch # <<>> =>
                 /\ Head(batch) \in [slot : Slots, key : Keys \cup {NoKey}]
                 /\ Tail(batch) \in Seq([slot : Slots, key : Keys \cup {NoKey}])
BY TailElements DEF TypeOK, MaintenanceTypeOK

\* Deleting a key keeps the hash and the counters well typed.
LEMMA DeleteKeyTypes ==
    ASSUME TypeOK, NEW k, DeleteKey(k)
    PROVE  /\ status' \in [Slots -> {"free", "live", "retired"}]
           /\ keyAt' \in [Slots -> Keys \cup {NoKey}]
           /\ waiting' \in [Slots -> SUBSET Threads]
           /\ statsOnline' = statsOnline
           /\ removed' \in Nat /\ flows_deleted' \in Nat
<1> DEFINE hit == {s \in Slots : Holds(s, k)}
<1>1. /\ Retire(hit) /\ removed' = removed + Cardinality(hit)
      /\ flows_deleted' = flows_deleted + Cardinality(hit)
  BY DEF DeleteKey
<1>2. Cardinality(hit) \in Nat
  BY SlotSetSize
<1>3. removed \in Nat /\ flows_deleted \in Nat
  BY DEF TypeOK, FlowTableTypeOK
<1> HIDE DEF hit
<1> QED BY <1>1, <1>2, <1>3, RetireTypes

\* The cursor of the iterator stays a number.
LEMMA CursorType ==
    ASSUME TypeOK, NEW s \in Slots
    PROVE  Bucket[keyAt[s]] + 1 \in Nat
BY MaintenanceAssumption DEF MaintenanceAssumption, TypeOK, FlowTableTypeOK

\* A pass scans at least one entry and at most the table.
LEMMA ScanBudgetTypes ==
    /\ AgingScanBudget \in Nat
    /\ \A mode : PressureScanBudget(mode) \in Nat
<1>1. Capacity \in Nat \ {0}
  BY SlotSetSize DEF Capacity
<1>2. AGING_NUM_CHUNKS \in Nat \ {0}
  BY MaintenanceAssumption DEF MaintenanceAssumption
<1>3. AgingScanBudget \in Nat
  BY <1>1, <1>2 DEF AgingScanBudget
<1>4. ASSUME NEW mode PROVE PressureScanBudget(mode) \in Nat
  <2>1. AgingScanBudget * 2 \in Nat /\ AgingScanBudget * 4 \in Nat
    BY <1>3
  <2> QED BY <1>1, <1>3, <2>1 DEF PressureScanBudget
<1> QED BY <1>3, <1>4

\* The pressure pass's cycles and budgets are natural numbers.
LEMMA PressureTypes ==
    /\ HashCount \in Nat
    /\ \A mode : MinIdleCycles(mode) \in Nat
    /\ \A active \in Nat : EvictBudget(active) \in Nat
<1>1. HashCount \in Nat
  BY SlotSetSize DEF HashCount
<1>2. ASSUME NEW mode PROVE MinIdleCycles(mode) \in Nat
  <2>1. Timeout \in Nat /\ Timeout \div 2 \in Nat /\ Timeout \div 4 \in Nat
    BY FlowTableAssumption DEF FlowTableAssumption
  <2> QED BY <2>1 DEF MinIdleCycles
<1>3. ASSUME NEW active \in Nat PROVE EvictBudget(active) \in Nat
  <2> DEFINE target == flow_pct(Capacity, FLOW_PRESSURE_TARGET_PCT)
  <2>1. target \in Int
    <3>1. Capacity \in Nat /\ FLOW_PRESSURE_TARGET_PCT \in Nat
      BY SlotSetSize, MaintenanceAssumption DEF Capacity, MaintenanceAssumption
    <3> QED BY <3>1 DEF flow_pct
  <2> HIDE DEF target
  <2>2. EvictBudget(active) = IF active <= target THEN 0 ELSE active - target
    BY DEF EvictBudget, target
  <2> QED BY <2>1, <2>2
<1> QED BY <1>1, <1>2, <1>3

\* An entry scanned by the pressure pass moves the cursor and the budget.
LEMMA ScanEntryTypes ==
    ASSUME TypeOK, NEW s \in Slots, ScanEntry(s)
    PROVE  pressure_iter' \in Nat /\ scan_left' \in Nat
<1>1. pressure_iter' = Bucket[keyAt[s]] + 1
  BY DEF ScanEntry
<1>2. scan_left' \in Nat
  BY DEF ScanEntry, TypeOK, MaintenanceTypeOK
<1> QED BY <1>1, <1>2, CursorType

\* Every step of the stats thread.
LEMMA StatsTypes ==
    ASSUME TypeOK, StatsFrame,
           \/ S_Wake \/ S_Collect \/ S_EndScan \/ S_Recheck \/ S_Delete
           \/ S_EndFlush \/ S_Sample \/ S_Candidate \/ S_Validate \/ S_Evict
           \/ S_Stash \/ S_Skip \/ S_EndPressure \/ S_Rest
    PROVE  TypeOK'
<1>1. CASE S_Wake
  <2>1. FlowTableTypeOK'
    BY <1>1 DEF S_Wake, TypeOK, FlowTableTypeOK, sideVars, hotVars, countVars
  <2>2. t_now' \in 0 .. MaxNow
    BY <1>1 DEF S_Wake, TypeOK, FlowTableTypeOK
  <2>3. MaintenanceTypeOK'
    BY <1>1, <2>2, ScanBudgetTypes DEF S_Wake, TypeOK, MaintenanceTypeOK, Candidate,
       cursorVars, passVars
  <2> QED BY <2>1, <2>3, StatsFrameTypes DEF TypeOK
<1>2. CASE S_Collect
  <2>1. FlowTableTypeOK'
    BY <1>2 DEF S_Collect, TypeOK, FlowTableTypeOK, tableVars, hashVars,
       hotVars, countVars
  <2>2. MaintenanceTypeOK'
    <3>1. PICK s \in Slots :
             /\ aging_iter' = Bucket[keyAt[s]] + 1
             /\ batch' = IF IdleFor(s, t_now, Timeout)
                         THEN Append(batch, [slot |-> s, key |-> keyAt[s]])
                         ELSE batch
      BY <1>2 DEF S_Collect
    <3>2. [slot |-> s, key |-> keyAt[s]] \in [slot : Slots, key : Keys \cup {NoKey}]
      BY DEF TypeOK, FlowTableTypeOK
    <3>3. batch' \in Seq([slot : Slots, key : Keys \cup {NoKey}])
      BY <3>1, <3>2, BatchTypes, AppendElements
    <3>4. aging_iter' \in Nat
      BY <3>1, CursorType
    <3>5. scan_left' \in Nat
      BY <1>2 DEF S_Collect, TypeOK, MaintenanceTypeOK
    <3>6. /\ spc = "scan" /\ spc' \in {"scan", "flush"}
          /\ UNCHANGED <<statsOnline, t_now, pressure_iter, min_idle, evict_budget,
                         fill_left, candidate>>
      BY <1>2 DEF S_Collect, passVars, tableVars, hashVars
    <3> QED BY <3>3, <3>4, <3>5, <3>6 DEF TypeOK, MaintenanceTypeOK
  <2> QED BY <2>1, <2>2, StatsFrameTypes DEF TypeOK
<1>3. CASE S_EndScan
  <2>1. FlowTableTypeOK'
    BY <1>3 DEF S_EndScan, TypeOK, FlowTableTypeOK, tableVars, hashVars,
       hotVars, countVars
  <2>2. MaintenanceTypeOK'
    BY <1>3 DEF S_EndScan, TypeOK, MaintenanceTypeOK, passVars,
       tableVars, hashVars
  <2> QED BY <2>1, <2>2, StatsFrameTypes DEF TypeOK
<1>4. CASE S_Recheck
  <2>1. FlowTableTypeOK'
    BY <1>4 DEF S_Recheck, TypeOK, FlowTableTypeOK, tableVars, hashVars,
       hotVars, countVars
  <2>2. MaintenanceTypeOK'
    BY <1>4, BatchTypes DEF S_Recheck, TypeOK, MaintenanceTypeOK,
       cursorVars, passVars, tableVars, hashVars
  <2> QED BY <2>1, <2>2, StatsFrameTypes DEF TypeOK
<1>5. CASE S_Delete
  <2>1. FlowTableTypeOK'
    BY <1>5, DeleteKeyTypes DEF S_Delete, TypeOK, FlowTableTypeOK, sideVars, hotVars
  <2>2. MaintenanceTypeOK'
    <3>1. batch # <<>> /\ statsOnline' = statsOnline
      BY <1>5, DeleteKeyTypes DEF S_Delete, TypeOK, MaintenanceTypeOK
    <3> QED BY <1>5, <3>1, BatchTypes DEF S_Delete, TypeOK, MaintenanceTypeOK,
               cursorVars, passVars
  <2> QED BY <2>1, <2>2, StatsFrameTypes DEF TypeOK
<1>6. CASE S_EndFlush
  <2>1. FlowTableTypeOK'
    BY <1>6 DEF S_EndFlush, TypeOK, FlowTableTypeOK, tableVars, hashVars,
       hotVars, countVars
  <2>2. MaintenanceTypeOK'
    BY <1>6 DEF S_EndFlush, TypeOK, MaintenanceTypeOK, cursorVars, passVars,
       tableVars, hashVars
  <2> QED BY <2>1, <2>2, StatsFrameTypes DEF TypeOK
<1>7. CASE S_Sample
  <2>1. FlowTableTypeOK'
    BY <1>7 DEF S_Sample, TypeOK, FlowTableTypeOK, tableVars, hashVars,
       hotVars, countVars
  <2>2. MaintenanceTypeOK'
    <3>1. /\ t_now' \in 0 .. MaxNow /\ scan_left' \in Nat
          /\ min_idle' \in Nat /\ evict_budget' \in Nat /\ fill_left' \in Nat
      <4>1. /\ now \in 0 .. MaxNow /\ t_now \in 0 .. MaxNow /\ scan_left \in Nat
            /\ min_idle \in Nat /\ evict_budget \in Nat /\ fill_left \in Nat
        BY DEF TypeOK, FlowTableTypeOK, MaintenanceTypeOK
      <4>2. /\ PressureScanBudget(PressureMode(HashCount)) \in Nat
            /\ MinIdleCycles(PressureMode(HashCount)) \in Nat
            /\ EvictBudget(HashCount) \in Nat
            /\ FLOW_VICTIM_FILL_BATCH \in Nat
        BY PressureTypes, ScanBudgetTypes, MaintenanceAssumption
           DEF MaintenanceAssumption
      <4> QED BY <1>7, <4>1, <4>2 DEF S_Sample, passVars
    <3>2. /\ spc' \in {"pressure", "rest"}
          /\ UNCHANGED <<cursorVars, batch, candidate, statsOnline>>
          /\ spc = "sample"
      BY <1>7 DEF S_Sample, tableVars, hashVars
    <3> QED BY <3>1, <3>2 DEF TypeOK, MaintenanceTypeOK, cursorVars
  <2> QED BY <2>1, <2>2, StatsFrameTypes DEF TypeOK
<1>8. CASE S_Candidate
  <2>1. FlowTableTypeOK'
    BY <1>8 DEF S_Candidate, TypeOK, FlowTableTypeOK, tableVars, hashVars,
       hotVars, countVars
  <2>2. MaintenanceTypeOK'
    <3>1. candidate' \in Candidate /\ candidate' # NoCandidate
      <4>1. PICK s \in Slots :
               candidate' = [key |-> keyAt[s], slot |-> s, gen |-> flow_gen[s]]
        BY <1>8 DEF S_Candidate
      <4>2. candidate' \in Candidate
        BY <4>1 DEF TypeOK, FlowTableTypeOK, Candidate
      <4> QED BY <4>2, MaintenanceAssumption DEF MaintenanceAssumption
    <3>2. /\ spc = "pressure" /\ spc' = "validate" /\ evict_budget > 0
          /\ UNCHANGED <<t_now, aging_iter, batch, passVars, statsOnline>>
      BY <1>8 DEF S_Candidate, ScanEntry, tableVars, hashVars
    <3>3. \E s \in Slots : ScanEntry(s)
      BY <1>8 DEF S_Candidate
    <3> QED BY <3>1, <3>2, <3>3, ScanEntryTypes
            DEF TypeOK, MaintenanceTypeOK, passVars
  <2> QED BY <2>1, <2>2, StatsFrameTypes DEF TypeOK
<1>9. CASE S_Validate
  <2>1. FlowTableTypeOK'
    BY <1>9 DEF S_Validate, TypeOK, FlowTableTypeOK, tableVars, hashVars,
       hotVars, countVars
  <2>2. MaintenanceTypeOK'
    BY <1>9 DEF S_Validate, TypeOK, MaintenanceTypeOK, cursorVars, passVars,
       tableVars, hashVars
  <2> QED BY <2>1, <2>2, StatsFrameTypes DEF TypeOK
<1>10. CASE S_Evict
  <2>1. FlowTableTypeOK'
    BY <1>10, DeleteKeyTypes DEF S_Evict, TypeOK, FlowTableTypeOK, sideVars, hotVars
  <2>2. MaintenanceTypeOK'
    <3>1. statsOnline' = statsOnline
      BY <1>10, DeleteKeyTypes DEF S_Evict
    <3>2. evict_budget' \in Nat
      BY <1>10 DEF S_Evict, TypeOK, MaintenanceTypeOK
    <3>3. /\ spc = "evict" /\ spc' = "pressure" /\ candidate' = NoCandidate
          /\ UNCHANGED <<t_now, cursorVars, scan_left, batch, min_idle, fill_left>>
      BY <1>10 DEF S_Evict
    <3> QED BY <3>1, <3>2, <3>3 DEF TypeOK, MaintenanceTypeOK, cursorVars
  <2> QED BY <2>1, <2>2, StatsFrameTypes DEF TypeOK
<1>11. CASE S_Stash
  <2>1. FlowTableTypeOK'
    <3>1. PICK s \in Slots :
             victims' = Append(victims, [slot |-> s, gen |-> flow_gen[s]])
      BY <1>11 DEF S_Stash
    <3>2. [slot |-> s, gen |-> flow_gen[s]] \in [slot : Slots, gen : 0 .. GenMod - 1]
      BY DEF TypeOK, FlowTableTypeOK
    <3>3. victims \in Seq([slot : Slots, gen : 0 .. GenMod - 1]) /\ VictimCap \in Nat
          /\ Len(victims) < VictimCap
      BY <1>11, FlowTableAssumption DEF S_Stash, Stashable, TypeOK, FlowTableTypeOK,
         FlowTableAssumption
    <3>4. victims' \in Seq([slot : Slots, gen : 0 .. GenMod - 1])
          /\ Len(victims') <= VictimCap
      BY <3>1, <3>2, <3>3
    <3> QED BY <1>11, <3>4 DEF S_Stash, TypeOK, FlowTableTypeOK, hashVars, sideVars,
               hotVars, countVars
  <2>2. MaintenanceTypeOK'
    <3>1. \E s \in Slots : ScanEntry(s)
      BY <1>11 DEF S_Stash
    <3>2. fill_left' \in Nat
      BY <1>11 DEF S_Stash, Stashable, TypeOK, MaintenanceTypeOK
    <3>3. /\ spc = "pressure" /\ spc' = spc
          /\ UNCHANGED <<t_now, aging_iter, batch, min_idle, evict_budget, candidate,
                         statsOnline>>
      BY <1>11 DEF S_Stash, ScanEntry, hashVars
    <3> QED BY <3>1, <3>2, <3>3, ScanEntryTypes DEF TypeOK, MaintenanceTypeOK
  <2> QED BY <2>1, <2>2, StatsFrameTypes DEF TypeOK
<1>12. CASE S_EndPressure
  <2>1. FlowTableTypeOK'
    BY <1>12 DEF S_EndPressure, TypeOK, FlowTableTypeOK, tableVars, hashVars,
       hotVars, countVars
  <2>2. MaintenanceTypeOK'
    BY <1>12 DEF S_EndPressure, TypeOK, MaintenanceTypeOK, passVars,
       tableVars, hashVars
  <2> QED BY <2>1, <2>2, StatsFrameTypes DEF TypeOK
<1>13. CASE S_Rest
  <2>1. FlowTableTypeOK'
    BY <1>13 DEF S_Rest, TypeOK, FlowTableTypeOK, QuiescentAndReclaim, Quiescent,
       sideVars, hotVars, countVars
  <2>2. MaintenanceTypeOK'
    <3>1. 0 \in 0 .. MaxNow
      BY FlowTableAssumption DEF FlowTableAssumption
    <3> QED BY <1>13, <3>1 DEF S_Rest, TypeOK, MaintenanceTypeOK, cursorVars
  <2> QED BY <2>1, <2>2, StatsFrameTypes DEF TypeOK
<1>14. CASE S_Skip
  <2>1. FlowTableTypeOK'
    BY <1>14 DEF S_Skip, TypeOK, FlowTableTypeOK, tableVars, hashVars,
       hotVars, countVars
  <2>2. MaintenanceTypeOK'
    <3>1. \E s \in Slots : ScanEntry(s)
      BY <1>14 DEF S_Skip
    <3>2. UNCHANGED <<spc, t_now, aging_iter, batch, min_idle, evict_budget,
                      fill_left, candidate, statsOnline>>
      BY <1>14 DEF S_Skip, passVars, tableVars, hashVars
    <3> QED BY <3>1, <3>2, ScanEntryTypes DEF TypeOK, MaintenanceTypeOK
  <2> QED BY <2>1, <2>2, StatsFrameTypes DEF TypeOK
<1> QED BY <1>1, <1>2, <1>3, <1>4, <1>5, <1>6, <1>7, <1>8, <1>9, <1>10, <1>11,
             <1>12, <1>13, <1>14

\* Every step of a worker.
LEMMA WorkerTypes ==
    ASSUME TypeOK, WorkerFrame, NEW w \in Workers,
           \/ W_Dequeue(w) \/ W_Fresh(w) \/ W_Stale(w) \/ W_Copy(w)
           \/ W_Recheck(w) \/ W_Match(w)
    PROVE  TypeOK'
<1>1. FlowTableTypeOK'
  BY DEF TypeOK, WorkerFrame, FlowTableTypeOK, tableVars, hashVars, hotVars, countVars
<1>2. DispatcherTypeOK'
  BY DEF TypeOK, WorkerFrame, DispatcherTypeOK, dispatcherVars, Publishing
<1>3. MaintenanceTypeOK'
  BY DEF TypeOK, WorkerFrame, MaintenanceTypeOK, statsVars, cursorVars,
     passVars, tableVars, hashVars
<1>4. /\ hand \in [Workers -> Seq(Packet)] /\ hand[w] \in Seq(Packet)
      /\ worker_rings \in [Workers -> Seq(Packet)] /\ worker_rings[w] \in Seq(Packet)
      /\ Len(worker_rings[w]) <= RingSize /\ RingSize \in Nat
  BY PacketRingsAssumption
     DEF TypeOK, WorkerTypeOK, RingsTypeOK, Packet, PacketRingsAssumption
<1>5. hand[w] # <<>> => Pkt(w) \in Packet /\ Pkt(w).key \in Keys /\ Pkt(w).stamp.slot \in Slots
  <2>1. SUFFICES ASSUME hand[w] # <<>>
                 PROVE  /\ Pkt(w) \in Packet /\ Pkt(w).key \in Keys
                        /\ Pkt(w).stamp.slot \in Slots
    OBVIOUS
  <2>2. Pkt(w) \in Packet
    BY <1>4, <2>1, TailElements DEF Pkt
  <2> QED BY <2>2, PacketFields, StampFields
<1>6. CASE W_Dequeue(w)
  <2> DEFINE ring == worker_rings[w]
             n == IF Len(ring) <= WORKER_BURST THEN Len(ring) ELSE WORKER_BURST
  <2>1. n \in Nat /\ n <= Len(ring) /\ Len(ring) \in Nat /\ (ring # <<>> => n # 0)
    BY <1>4, WorkerAssumption DEF WorkerAssumption
  <2> HIDE DEF n
  <2>2. /\ SubSeq(ring, 1, n) \in Seq(Packet) /\ Len(SubSeq(ring, 1, n)) = n
        /\ SubSeq(ring, n + 1, Len(ring)) \in Seq(Packet)
        /\ Len(SubSeq(ring, n + 1, Len(ring))) = Len(ring) - n
    BY <1>4, <2>1, PrefixElements, SuffixElements
  <2>3. /\ Dequeued(ring, WORKER_BURST) = SubSeq(ring, 1, n)
        /\ Remaining(ring, WORKER_BURST) = SubSeq(ring, n + 1, Len(ring))
    BY <2>2 DEF Dequeued, Remaining, n
  <2>4. RingsTypeOK'
    <3>1. worker_rings' = [worker_rings EXCEPT ![w] = SubSeq(ring, n + 1, Len(ring))]
      BY <1>6, <2>3 DEF W_Dequeue
    <3>2. Len(SubSeq(ring, n + 1, Len(ring))) <= RingSize
      BY <1>4, <2>1, <2>2
    <3> QED BY <1>4, <2>2, <3>1, <3>2 DEF TypeOK, RingsTypeOK
  <2>5. WorkerTypeOK'
    <3>1. hand' \in [Workers -> Seq(Packet)]
      BY <1>4, <1>6, <2>2, <2>3 DEF W_Dequeue
    <3>2. \A v \in Workers : wpc'[v] # "next" => hand'[v] # <<>>
      BY <1>6, <1>4 DEF W_Dequeue, TypeOK, WorkerTypeOK
    <3> QED BY <1>6, <3>1, <3>2 DEF W_Dequeue, TypeOK, WorkerTypeOK, Packet
  <2> QED BY <1>1, <1>2, <1>3, <2>4, <2>5 DEF TypeOK
<1>7. CASE W_Fresh(w)
  <2>1. RingsTypeOK' /\ WorkerTypeOK'
    BY <1>7 DEF W_Fresh, TypeOK, RingsTypeOK, WorkerTypeOK
  <2> QED BY <1>1, <1>2, <1>3, <2>1 DEF TypeOK
<1>8. CASE W_Stale(w)
  <2>1. RingsTypeOK'
    BY <1>8 DEF W_Stale, TypeOK, RingsTypeOK
  <2>2. Whole(Pkt(w).key) \in [Words -> Keys \cup {NoKey}]
    BY <1>5, <1>8 DEF W_Stale, Whole
  <2>3. WorkerTypeOK'
    BY <1>8, <2>2 DEF W_Stale, UseOwnTuple, TypeOK, WorkerTypeOK
  <2> QED BY <1>1, <1>2, <1>3, <2>1, <2>3 DEF TypeOK
<1>9. CASE W_Copy(w)
  <2>1. RingsTypeOK'
    BY <1>9 DEF W_Copy, TypeOK, RingsTypeOK
  <2>2. hand[w] # <<>> /\ Pkt(w).stamp.slot \in Slots
    BY <1>5, <1>9 DEF W_Copy, TypeOK, WorkerTypeOK
  <2>3. PICK x \in uncopied[w] :
           /\ tuple' = [tuple EXCEPT ![w][x] = cold[Pkt(w).stamp.slot][x]]
           /\ uncopied' = [uncopied EXCEPT ![w] = @ \ {x}]
    BY <1>9 DEF W_Copy
  <2>4. x \in Words
    BY <2>3 DEF TypeOK, WorkerTypeOK
  <2>5. tuple' \in [Workers -> [Words -> Keys \cup {NoKey}]]
    <3>1. cold[Pkt(w).stamp.slot][x] \in Keys \cup {NoKey}
      BY <2>2, <2>4 DEF TypeOK, FlowTableTypeOK
    <3>2. [tuple[w] EXCEPT ![x] = cold[Pkt(w).stamp.slot][x]]
             \in [Words -> Keys \cup {NoKey}]
      BY <2>4, <3>1 DEF TypeOK, WorkerTypeOK
    <3> QED BY <2>3, <3>2 DEF TypeOK, WorkerTypeOK
  <2>6. uncopied' \in [Workers -> SUBSET Words]
    BY <2>3 DEF TypeOK, WorkerTypeOK
  <2>7. wpc' \in [Workers -> {"next", "copy", "recheck", "match"}]
    BY <1>9 DEF W_Copy, TypeOK, WorkerTypeOK
  <2>8. \A v \in Workers : wpc'[v] # "next" => hand'[v] # <<>>
    BY <1>9 DEF W_Copy, TypeOK, WorkerTypeOK
  <2>9. WorkerTypeOK'
    BY <1>9, <2>5, <2>6, <2>7, <2>8 DEF W_Copy, TypeOK, WorkerTypeOK
  <2> QED BY <1>1, <1>2, <1>3, <2>1, <2>9 DEF TypeOK
<1>10. CASE W_Recheck(w)
  <2>1. RingsTypeOK'
    BY <1>10 DEF W_Recheck, TypeOK, RingsTypeOK
  <2>2. hand[w] # <<>> /\ Whole(Pkt(w).key) \in [Words -> Keys \cup {NoKey}]
    BY <1>5, <1>10 DEF W_Recheck, TypeOK, WorkerTypeOK, Whole
  <2>3. tuple' \in [Workers -> [Words -> Keys \cup {NoKey}]]
    BY <1>10, <2>2 DEF W_Recheck, UseOwnTuple, TypeOK, WorkerTypeOK
  <2>4. /\ wpc' = [wpc EXCEPT ![w] = "match"] /\ UNCHANGED <<hand, uncopied>>
        /\ lapped' \in [Workers -> BOOLEAN]
    BY <1>10 DEF W_Recheck, UseOwnTuple, TypeOK, WorkerTypeOK
  <2>5. WorkerTypeOK'
    BY <2>2, <2>3, <2>4 DEF TypeOK, WorkerTypeOK
  <2> QED BY <1>1, <1>2, <1>3, <2>1, <2>5 DEF TypeOK
<1>11. CASE W_Match(w)
  <2>1. RingsTypeOK'
    BY <1>11 DEF W_Match, TypeOK, RingsTypeOK
  <2>2. hand' \in [Workers -> Seq(Packet)]
    <3>1. Tail(hand[w]) \in Seq(Packet)
      BY <1>4, <1>11, TailElements DEF W_Match, TypeOK, WorkerTypeOK
    <3> QED BY <1>4, <1>11, <3>1 DEF W_Match
  <2>3. Whole(NoKey) \in [Words -> Keys \cup {NoKey}]
    BY DEF Whole
  <2>4. \A v \in Workers : wpc'[v] # "next" => hand'[v] # <<>>
    BY <1>11 DEF W_Match, TypeOK, WorkerTypeOK
  <2>5. WorkerTypeOK'
    BY <1>11, <2>2, <2>3, <2>4 DEF W_Match, TypeOK, WorkerTypeOK, Packet
  <2> QED BY <1>1, <1>2, <1>3, <2>1, <2>5 DEF TypeOK
<1> QED BY <1>6, <1>7, <1>8, <1>9, <1>10, <1>11

\* The initial states are well typed.
LEMMA InitTypes == Init => TypeOK
<1> SUFFICES ASSUME Init PROVE TypeOK
  OBVIOUS
<1>1. FlowTableTypeOK
  <2>1. (CHOOSE w \in Workers : TRUE) \in Workers
    BY FlowTableAssumption DEF FlowTableAssumption
  <2>2. /\ GenMod \in Nat /\ GenMod > 2 /\ MaxNow \in Nat /\ MaxNow > 0
        /\ VictimCap \in Nat
    BY FlowTableAssumption DEF FlowTableAssumption
  <2>3. Whole(NoKey) \in [Words -> Keys \cup {NoKey}]
    BY DEF Whole
  <2> DEFINE w0 == CHOOSE w \in Workers : TRUE
  <2>4. /\ status = [s \in Slots |-> "free"] /\ keyAt = [s \in Slots |-> NoKey]
        /\ waiting = [s \in Slots |-> {}] /\ statsOnline = FALSE
        /\ flow_gen = [s \in Slots |-> 0] /\ worker_id = [s \in Slots |-> w0]
        /\ last_seen = [s \in Slots |-> 0] /\ pubs = [s \in Slots |-> 0]
        /\ cold = [s \in Slots |-> Whole(NoKey)] /\ victims = <<>> /\ now = 1
        /\ flows_created = 0 /\ flows_deleted = 0 /\ removed = 0
    BY DEF Init, FlowTableInit
  <2> HIDE DEF w0
  <2>5. /\ status \in [Slots -> {"free", "live", "retired"}]
        /\ keyAt \in [Slots -> Keys \cup {NoKey}]
        /\ waiting \in [Slots -> SUBSET Threads] /\ statsOnline \in BOOLEAN
    BY <2>4
  <2>6. /\ flow_gen \in [Slots -> 0 .. GenMod - 1] /\ worker_id \in [Slots -> Workers]
        /\ last_seen \in [Slots -> 0 .. MaxNow] /\ pubs \in [Slots -> Nat]
    <3>1. 0 \in 0 .. GenMod - 1 /\ 0 \in 0 .. MaxNow /\ w0 \in Workers
      BY <2>1, <2>2 DEF w0
    <3> QED BY <2>4, <3>1
  <2>7. cold \in [Slots -> [Words -> Keys \cup {NoKey}]]
    BY <2>3, <2>4
  <2>8. /\ victims \in Seq([slot : Slots, gen : 0 .. GenMod - 1])
        /\ Len(victims) <= VictimCap /\ now \in 1 .. MaxNow
        /\ flows_created \in Nat /\ flows_deleted \in Nat /\ removed \in Nat
    BY <2>2, <2>4
  <2> QED BY <2>5, <2>6, <2>7, <2>8 DEF FlowTableTypeOK
<1>2. RingsTypeOK
  BY PacketRingsAssumption DEF Init, RingsTypeOK, PacketRingsAssumption
<1>3. DispatcherTypeOK
  <2>1. 0 \in 0 .. MaxNow
    BY FlowTableAssumption DEF FlowTableAssumption
  <2>2. /\ dpc = "poll" /\ burst = <<>> /\ todo = <<>> /\ dtsc = 0
        /\ resolved = [k \in Keys |-> Unresolved] /\ pslot = Miss
        /\ worker_buffers = [w \in Workers |-> <<>>]
        /\ unwritten = {} /\ replaced = FALSE
    BY DEF Init, DispatcherInit
  <2>3. resolved \in [Keys -> Stamp \cup {Unresolved}]
    BY <2>2
  <2>4. worker_buffers \in [Workers -> Seq(Packet)]
    BY <2>2
  <2>5. burst \in Seq(Keys) /\ todo \in Seq([key : Keys, pos : Slots \cup {Miss}])
    BY <2>2
  <2>6. /\ dpc = "poll" /\ todo = <<>> /\ dtsc \in 0 .. MaxNow
        /\ pslot \in Slots \cup {Miss} /\ unwritten \in SUBSET Words
        /\ replaced \in BOOLEAN
    BY <2>1, <2>2
  <2> QED BY <2>3, <2>4, <2>5, <2>6 DEF DispatcherTypeOK, Publishing
<1>4. WorkerTypeOK
  BY DEF Init, WorkerInit, WorkerTypeOK, Whole
<1>5. MaintenanceTypeOK
  <2>1. 0 \in 0 .. MaxNow
    BY FlowTableAssumption DEF FlowTableAssumption
  <2> QED BY <2>1 DEF Init, FlowTableInit, MaintenanceInit, MaintenanceTypeOK
<1> QED BY <1>1, <1>2, <1>3, <1>4, <1>5 DEF TypeOK

\* The clock and a stuttering step.
LEMMA TickTypes == ASSUME TypeOK, Tick PROVE TypeOK'
<1>1. FlowTableTypeOK'
  <2>1. now' \in 1 .. MaxNow
    BY FlowTableAssumption DEF Tick, TypeOK, FlowTableTypeOK, FlowTableAssumption
  <2> QED BY <2>1 DEF Tick, TypeOK, FlowTableTypeOK, hashVars, hotVars, countVars
<1>2. RingsTypeOK' /\ DispatcherTypeOK'
  BY DEF Tick, TypeOK, RingsTypeOK, DispatcherTypeOK, dispatcherVars, Publishing
<1>3. WorkerTypeOK' /\ MaintenanceTypeOK'
  BY DEF Tick, TypeOK, WorkerTypeOK, workerVars, MaintenanceTypeOK, statsVars,
     cursorVars, passVars, hashVars
<1> QED BY <1>1, <1>2, <1>3 DEF TypeOK

\* A stuttering step.
LEMMA StutterTypes == ASSUME TypeOK, UNCHANGED vars PROVE TypeOK'
<1>1. FlowTableTypeOK'
  BY DEF vars, TypeOK, FlowTableTypeOK, tableVars, hashVars, hotVars, countVars
<1>2. RingsTypeOK' /\ DispatcherTypeOK'
  BY DEF vars, TypeOK, RingsTypeOK, DispatcherTypeOK, dispatcherVars, Publishing
<1>3. WorkerTypeOK' /\ MaintenanceTypeOK'
  BY DEF vars, TypeOK, WorkerTypeOK, workerVars, MaintenanceTypeOK, statsVars,
         cursorVars, passVars, tableVars, hashVars
<1> QED BY <1>1, <1>2, <1>3 DEF TypeOK

\* Every step of Next belongs to one of the threads or is a tick of the clock.
DispatcherNext ==
    /\ DispatcherFrame
    /\ \/ D_Poll \/ D_Rx \/ D_Lookup \/ D_Duplicate \/ D_Hit \/ D_Add
       \/ D_AddFails \/ D_NextGeneration \/ D_ClearCold \/ D_WriteCold
       \/ D_Publish \/ D_Evict \/ D_Reclaim \/ D_Retry \/ D_RetryFails
       \/ D_Enqueue

WorkerNext(w) ==
    /\ WorkerFrame
    /\ \/ W_Dequeue(w) \/ W_Fresh(w) \/ W_Stale(w) \/ W_Copy(w) \/ W_Recheck(w)
       \/ W_Match(w)

StatsNext ==
    /\ StatsFrame
    /\ \/ S_Wake \/ S_Collect \/ S_EndScan \/ S_Recheck \/ S_Delete
       \/ S_EndFlush \/ S_Sample \/ S_Candidate \/ S_Validate \/ S_Evict
       \/ S_Stash \/ S_Skip \/ S_EndPressure \/ S_Rest

\* A step is a step of the dispatcher, of a worker, of the stats thread or of
\* the clock.
LEMMA NextByThread ==
    ASSUME Next
    PROVE  DispatcherNext \/ (\E w \in Workers : WorkerNext(w)) \/ StatsNext \/ Tick
BY DEF Next, DispatcherNext, WorkerNext, StatsNext

\* Every step keeps the state well typed.
LEMMA NextTypes == TypeOK /\ [Next]_vars => TypeOK'
<1> SUFFICES ASSUME TypeOK, [Next]_vars PROVE TypeOK'
  OBVIOUS
<1>1. CASE DispatcherNext
  BY <1>1, DispatcherTypes DEF DispatcherNext
<1>2. CASE \E w \in Workers : WorkerNext(w)
  BY <1>2, WorkerTypes DEF WorkerNext
<1>3. CASE StatsNext
  BY <1>3, StatsTypes DEF StatsNext
<1>4. CASE Tick
  BY <1>4, TickTypes
<1>5. CASE UNCHANGED vars
  BY <1>5, StutterTypes
<1> QED BY <1>1, <1>2, <1>3, <1>4, <1>5, NextByThread

\* TypeOK: every variable of the threads keeps its type and its range (the
\* generations their width, the rings and the victim ring their capacity), and no
\* thread takes the head of a queue or a publication slot it does not have.
THEOREM TypeCorrect == Spec => []TypeOK
BY InitTypes, NextTypes, PTL DEF Spec
=============================================================================
