------------------------- MODULE FlowcoreTable_proofs -------------------------
(***************************************************************************)
(* What the dispatcher and the stats thread guarantee each other on the    *)
(* hash: RCU keeps the keys of the aging batch (ScanInv), the dispatcher   *)
(* adds no key twice (AbsentInv), and no deletion is counted that did not  *)
(* happen.                                                                 *)
(***************************************************************************)
EXTENDS FlowcoreTypes_proofs

-----------------------------------------------------------------------------
(* What a step may do to the hash.                                         *)

\* Every position the stats thread may hold a pointer to keeps its key.
ScanPinned(s) ==
    \/ status[s] = "live"
    \/ status[s] = "retired" /\ "stats" \in waiting[s]

PinsKept ==
    \A s \in Slots : ScanPinned(s) => ScanPinned(s)' /\ keyAt'[s] = keyAt[s]

\* No key appears.
NothingAdded ==
    \A k \in Keys : Present(k)' => Present(k)

\* A delete while the stats thread is online makes the position wait for it.
LEMMA RetireKeeps ==
    ASSUME TypeOK, NEW S, Retire(S)
    PROVE  NothingAdded /\ (statsOnline => PinsKept)
  BY DEF TypeOK, FlowTableTypeOK, Retire, NothingAdded, Present, Holds, PinsKept,
         ScanPinned, OnlineThreads

\* A quiescent report of the dispatcher leaves the positions that wait for the stats
\* thread waiting.
LEMMA QuiescentKeeps ==
    ASSUME TypeOK, UNCHANGED <<status, keyAt>>, Quiescent("dispatcher")
    PROVE  NothingAdded /\ PinsKept
  BY DEF TypeOK, FlowTableTypeOK, Quiescent, NothingAdded, Present, Holds, PinsKept,
         ScanPinned

\* So does the dispatcher's reclaim.
LEMMA ReclaimKeeps ==
    ASSUME TypeOK, UNCHANGED keyAt, NEW t \in Threads, QuiescentAndReclaim(t)
    PROVE  NothingAdded /\ (t = "dispatcher" => PinsKept)
  BY DEF TypeOK, FlowTableTypeOK, Quiescent, QuiescentAndReclaim, NothingAdded, Present,
         Holds, PinsKept, ScanPinned, Threads

\* An add takes a position nobody waits for, and only its own key appears.
LEMMA AddKeeps ==
    ASSUME TypeOK, NEW k \in Keys, NEW s \in Slots, AddKey(k, s)
    PROVE  PinsKept /\ \A l \in Keys \ {k} : Present(l)' => Present(l)
<1>1. keyAt' = [keyAt EXCEPT ![s] = k] /\ keyAt \in [Slots -> Keys \cup {NoKey}]
  BY DEF AddKey, TypeOK, FlowTableTypeOK
<1>2. \A r \in Slots : status'[r] = "live" => r = s \/ status[r] = "live"
  BY DEF AddKey, Ready
<1>3. PinsKept
  <2>1. ~ScanPinned(s)
    BY DEF AddKey, Available, Free, Ready, ScanPinned
  <2>2. \A r \in Slots : ScanPinned(r) => status'[r] = status[r] /\ waiting'[r] = waiting[r]
    BY <2>1 DEF AddKey, Ready, ScanPinned
  <2> QED
    BY <1>1, <2>1, <2>2 DEF PinsKept, ScanPinned
<1>4. ASSUME NEW l \in Keys \ {k}, Present(l)'
      PROVE  Present(l)
  <2>1. PICK r \in Slots : Holds(r, l)'
    BY <1>4 DEF Present
  <2>2. r # s /\ keyAt[r] = l /\ status[r] = "live"
    BY <1>1, <1>2, <2>1 DEF Holds
  <2> QED
    BY <2>2 DEF Present, Holds
<1> QED
  BY <1>3, <1>4

\* The steps of the dispatcher that add no key.
LEMMA DispatcherHash ==
    ASSUME TypeOK, DispatcherNext, ~(D_Add \/ D_Retry)
    PROVE  NothingAdded /\ (statsOnline => PinsKept)
<1>1. CASE D_Evict
  <2>1. (\E S : Retire(S)) \/ UNCHANGED hashVars
    BY <1>1 DEF D_Evict, EvictAll
  <2> QED
    BY <2>1, RetireKeeps
    DEF hashVars, NothingAdded, Present, Holds, PinsKept, ScanPinned
<1>2. CASE D_Poll \/ D_Enqueue
  BY <1>2, QuiescentKeeps DEF D_Poll, D_Enqueue
<1>3. CASE D_Reclaim
  BY <1>3, ReclaimKeeps DEF D_Reclaim, Threads
<1>4. CASE ~(D_Evict \/ D_Poll \/ D_Enqueue \/ D_Reclaim)
  <2>1. UNCHANGED hashVars
    BY <1>4 DEF DispatcherNext, D_Rx, D_Lookup, D_Duplicate, D_Hit, D_AddFails,
       D_NextGeneration, D_ClearCold, D_WriteCold, D_Publish, D_RetryFails, tableVars
  <2> QED
    BY <2>1 DEF hashVars, NothingAdded, Present, Holds, PinsKept, ScanPinned
<1> QED
  BY <1>1, <1>2, <1>3, <1>4

\* The steps of the stats thread.
LEMMA StatsHash ==
    ASSUME TypeOK, StatsNext
    PROVE  NothingAdded /\ (statsOnline /\ ~S_Rest => PinsKept) /\ UNCHANGED keyAt
<1>1. CASE S_Delete \/ S_Evict
  <2>1. \E S : Retire(S)
    BY <1>1 DEF S_Delete, S_Evict, DeleteKey
  <2> QED
    BY <2>1, RetireKeeps DEF Retire
<1>2. CASE S_Rest
  BY <1>2, ReclaimKeeps DEF S_Rest, Threads
<1>3. CASE ~(S_Delete \/ S_Evict \/ S_Rest)
  <2>1. UNCHANGED <<status, keyAt, waiting>>
    BY <1>3 DEF StatsNext, S_Wake, S_Collect, S_EndScan, S_Recheck, S_EndFlush, S_Sample,
       S_Candidate, S_Validate, S_Stash, S_Skip, S_EndPressure, tableVars, hashVars
  <2> QED
    BY <2>1 DEF NothingAdded, Present, Holds, PinsKept, ScanPinned
<1> QED
  BY <1>1, <1>2, <1>3

-----------------------------------------------------------------------------
(* The batch of expired keys.                                              *)

\* The batch is filled and flushed within one tick, while the thread is online.
Scanning == {"scan", "flush", "flush_last", "delete", "delete_last"}

EntryPinned(e) == ScanPinned(e.slot) /\ keyAt[e.slot] = e.key

ScanInv ==
    /\ batch # <<>> => spc \in Scanning
    /\ \A j \in DOMAIN batch : EntryPinned(batch[j])

Entry == [slot : Slots, key : Keys \cup {NoKey}]

\* A step that lets go of no pinned position keeps the entries that are left.
LEMMA EntriesKept ==
    ASSUME PinsKept, \A j \in DOMAIN batch' : batch'[j] \in Entry /\ EntryPinned(batch'[j])
    PROVE  \A j \in DOMAIN batch' : EntryPinned(batch[j])'
<1> SUFFICES ASSUME NEW j \in DOMAIN batch'
             PROVE  EntryPinned(batch[j])'
  OBVIOUS
<1>1. PICK s \in Slots : s = batch'[j].slot /\ ScanPinned(s) /\ keyAt[s] = batch'[j].key
  BY DEF Entry, EntryPinned
<1>2. ScanPinned(s)' /\ keyAt'[s] = batch'[j].key
  BY <1>1 DEF PinsKept
<1> QED
  BY <1>1, <1>2 DEF EntryPinned, ScanPinned

\* Steps of the other threads.
LEMMA BatchAlone ==
    ASSUME TypeOK, ScanInv, UNCHANGED <<batch, spc>>, statsOnline => PinsKept
    PROVE  ScanInv'
<1>1. \A j \in DOMAIN batch : batch[j] \in Entry /\ EntryPinned(batch[j])
  <2>1. batch \in Seq(Entry)
    BY DEF TypeOK, MaintenanceTypeOK, Entry
  <2> QED
    BY <2>1, ElementType DEF ScanInv
<1>2. CASE batch = <<>>
  BY <1>2 DEF ScanInv
<1>3. CASE batch # <<>>
  <2>1. PinsKept
    BY <1>3 DEF ScanInv, Scanning, TypeOK, MaintenanceTypeOK
  <2>2. \A j \in DOMAIN batch' : EntryPinned(batch[j])'
    BY <1>1, <2>1, EntriesKept
  <2> QED
    BY <2>2 DEF ScanInv
<1> QED
  BY <1>2, <1>3

\* Steps of the stats thread: they append a live entry or take the head.
LEMMA BatchStep ==
    ASSUME TypeOK, ScanInv, StatsNext
    PROVE  ScanInv'
<1>1. batch \in Seq(Entry)
  BY DEF TypeOK, MaintenanceTypeOK, Entry
<1>2. \A j \in DOMAIN batch : batch[j] \in Entry /\ EntryPinned(batch[j])
  BY <1>1, ElementType DEF ScanInv
<1>3. CASE S_Collect
  <2>1. PICK s \in Slots :
           /\ NextEntry(aging_iter, s)
           /\ batch' = IF IdleFor(s, t_now, Timeout)
                       THEN Append(batch, [slot |-> s, key |-> keyAt[s]])
                       ELSE batch
    BY <1>3 DEF S_Collect
  <2> DEFINE e == [slot |-> s, key |-> keyAt[s]]
  <2>2. e \in Entry /\ EntryPinned(e)
    BY <2>1 DEF Entry, EntryPinned, ScanPinned, NextEntry, Ahead, TypeOK, FlowTableTypeOK
  <2>3. UNCHANGED <<status, keyAt, waiting>> /\ spc' \in Scanning
    BY <1>3 DEF S_Collect, tableVars, hashVars, Scanning
  <2>4. \A j \in DOMAIN batch' : EntryPinned(batch'[j])
    <3>1. CASE batch' = batch
      BY <1>2, <3>1
    <3>2. CASE batch' = Append(batch, e)
      <4> HIDE DEF e
      <4>1. \A j \in DOMAIN batch' :
               \/ batch'[j] = e
               \/ j \in DOMAIN batch /\ batch'[j] = batch[j]
        BY <1>1, <2>2, <3>2, AppendElements
      <4> QED
        BY <1>2, <2>2, <4>1
    <3> QED
      BY <2>1, <3>1, <3>2
  <2> QED
    BY <2>3, <2>4 DEF ScanInv, EntryPinned, ScanPinned
<1>4. CASE S_Recheck \/ S_Delete
  <2>1. statsOnline /\ batch # <<>> /\ spc' \in Scanning
    BY <1>4 DEF S_Recheck, S_Delete, TypeOK, MaintenanceTypeOK, Scanning
  <2>2. PinsKept
    BY <1>4, <2>1, StatsHash DEF S_Recheck, S_Delete, S_Rest
  <2>3. batch' \in {batch, Tail(batch)}
    BY <1>4 DEF S_Recheck, S_Delete
  <2>4. \A j \in DOMAIN batch' : batch'[j] \in Entry /\ EntryPinned(batch'[j])
    BY <1>1, <1>2, <2>1, <2>3, TailElements
  <2>5. \A j \in DOMAIN batch' : EntryPinned(batch[j])'
    BY <2>2, <2>4, EntriesKept
  <2> QED
    BY <2>1, <2>5 DEF ScanInv
<1>5. CASE S_EndFlush \/ S_Rest
  BY <1>5 DEF S_EndFlush, S_Rest, ScanInv, Scanning
<1>6. CASE ~(S_Collect \/ S_Recheck \/ S_Delete \/ S_EndFlush \/ S_Rest)
  <2>1. batch' = batch /\ (spc \in Scanning => spc' \in Scanning)
    BY <1>6 DEF StatsNext, S_Wake, S_EndScan, S_Sample, S_Candidate, S_Validate,
       S_Evict, S_Stash, S_Skip, S_EndPressure, ScanEntry, Scanning
  <2>2. statsOnline => PinsKept
    BY <1>6, StatsHash
  <2>3. CASE batch = <<>>
    BY <2>1, <2>3 DEF ScanInv
  <2>4. CASE batch # <<>>
    <3>1. PinsKept
      BY <2>2, <2>4 DEF ScanInv, Scanning, TypeOK, MaintenanceTypeOK
    <3>2. \A j \in DOMAIN batch' : EntryPinned(batch[j])'
      BY <1>2, <2>1, <3>1, EntriesKept
    <3> QED
      BY <2>1, <2>4, <3>2 DEF ScanInv
  <2> QED
    BY <2>3, <2>4
<1> QED
  BY <1>3, <1>4, <1>5, <1>6

\* ScanInv is inductive.
LEMMA ScanStep ==
    ASSUME TypeOK, ScanInv, [Next]_vars
    PROVE  ScanInv'
<1>1. CASE DispatcherNext
  <2>1. UNCHANGED <<batch, spc>>
    BY <1>1 DEF DispatcherNext, DispatcherFrame, statsVars
  <2>2. statsOnline => PinsKept
    <3>1. CASE D_Add \/ D_Retry
      <4>1. PICK s \in Slots : AddKey(Head(todo).key, s)
        BY <3>1 DEF D_Add, D_Retry, AddHead
      <4>2. Head(todo).key \in Keys
        BY <3>1, HeadTypes DEF D_Add, D_Retry, Missed, TypeOK, DispatcherTypeOK
      <4> QED
        BY <4>1, <4>2, AddKeeps
    <3>2. CASE ~(D_Add \/ D_Retry)
      BY <1>1, <3>2, DispatcherHash
    <3> QED
      BY <3>1, <3>2
  <2> QED
    BY <2>1, <2>2, BatchAlone
<1>2. CASE StatsNext
  BY <1>2, BatchStep
<1>3. CASE (\E w \in Workers : WorkerNext(w)) \/ Tick \/ UNCHANGED vars
  <2>1. UNCHANGED <<batch, spc, hashVars>>
    BY <1>3 DEF WorkerNext, WorkerFrame, Tick, vars, statsVars, tableVars
  <2>2. PinsKept
    BY <2>1 DEF hashVars, PinsKept, ScanPinned
  <2> QED
    BY <2>1, <2>2, BatchAlone
<1> QED
  BY <1>1, <1>2, <1>3, NextByThread

\* RCU keeps the key pointers of the aging batch (flow_table.c:404): the thread is
\* online from the scan to the flush, so a position deleted meanwhile waits for it.
THEOREM BatchPinned == Spec => []ScannedKeyPinned
<1>1. Init => ScanInv
  BY DEF Init, MaintenanceInit, ScanInv
<1>2. TypeOK /\ ScanInv /\ [Next]_vars => ScanInv'
  BY ScanStep
<1>3. ScanInv => ScannedKeyPinned
  BY DEF ScanInv, EntryPinned, ScannedKeyPinned
<1> QED
  BY <1>1, <1>2, <1>3, TypeCorrect, PTL DEF Spec

-----------------------------------------------------------------------------
(* The packets that wait for an add.                                       *)

\* A packet that missed, whose key no earlier packet of the burst has resolved or
\* is having published.
Waits(e) ==
    /\ e.pos = Miss
    /\ resolved[e.key] = Unresolved
    /\ ~(Publishing /\ e.key = Head(todo).key)

Replacing == dpc \in {"evict", "reclaim", "retry"}

AbsentInv ==
    /\ \A j \in DOMAIN todo : Waits(todo[j]) => ~Present(todo[j].key)
    /\ Replacing => Head(todo).pos = Miss /\ resolved[Head(todo).key] = Unresolved

Lookup == [key : Keys, pos : Slots \cup {Miss}]

\* The entries of todo, and where there is one.
LEMMA TodoTypes ==
    ASSUME TypeOK
    PROVE  /\ todo \in Seq(Lookup)
           /\ \A j \in DOMAIN todo : todo[j] \in Lookup
           /\ dpc \notin {"poll", "lookup", "resolve"} => todo # <<>>
<1>1. todo \in Seq(Lookup)
  BY DEF TypeOK, DispatcherTypeOK, Lookup
<1> QED
  BY <1>1, ElementType DEF TypeOK, DispatcherTypeOK

\* Steps that add no key and keep or drop packets: those that still wait waited
\* before.
LEMMA WaitersKept ==
    ASSUME TypeOK, AbsentInv, NothingAdded,
           \A j \in DOMAIN todo' : Waits(todo[j])' =>
              \E i \in DOMAIN todo : todo[i] = todo'[j] /\ Waits(todo[i])
    PROVE  \A j \in DOMAIN todo' : Waits(todo[j])' => ~Present(todo[j].key)'
<1> SUFFICES ASSUME NEW j \in DOMAIN todo', Waits(todo[j])'
             PROVE  ~Present(todo[j].key)'
  OBVIOUS
<1>1. PICK i \in DOMAIN todo : todo[i] = todo'[j] /\ Waits(todo[i])
  OBVIOUS
<1>2. PICK k \in Keys : k = todo'[j].key
  BY <1>1, TodoTypes DEF Lookup
<1>3. ~Present(k)
  BY <1>1, <1>2 DEF AbsentInv
<1>4. ~Present(k)'
  BY <1>3 DEF NothingAdded
<1> QED
  BY <1>2, <1>4 DEF Present, Holds

\* The packet at the head is steered or dropped.
LEMMA TailStep ==
    ASSUME TypeOK, AbsentInv, NothingAdded, todo # <<>>, todo' = Tail(todo),
           dpc' = "resolve",
           \/ ~Publishing /\ resolved' = resolved
           \/ \E st \in Stamp : resolved' = [resolved EXCEPT ![Head(todo).key] = st]
    PROVE  AbsentInv'
<1>1. ~Publishing' /\ ~Replacing'
  BY DEF Publishing, Replacing
<1>2. \A k \in Keys : resolved'[k] = Unresolved =>
          /\ resolved[k] = Unresolved
          /\ Publishing => k # Head(todo).key
  <2>1. Unresolved \notin Stamp /\ resolved \in [Keys -> Stamp \cup {Unresolved}]
    BY DispatcherAssumption DEF DispatcherAssumption, Stamp, TypeOK, DispatcherTypeOK
  <2> QED
    BY <2>1
<1>3. ASSUME NEW j \in DOMAIN todo', Waits(todo[j])'
      PROVE  \E i \in DOMAIN todo : todo[i] = todo'[j] /\ Waits(todo[i])
  <2>1. j + 1 \in DOMAIN todo /\ todo'[j] = todo[j + 1]
    BY TodoTypes, TailElements
  <2>2. todo[j + 1].key \in Keys
    BY <2>1, TodoTypes DEF Lookup
  <2>3. todo[j + 1].pos = Miss /\ resolved'[todo[j + 1].key] = Unresolved
    BY <1>3, <2>1 DEF Waits
  <2>4. Waits(todo[j + 1])
    BY <1>2, <2>2, <2>3 DEF Waits
  <2> QED
    BY <2>1, <2>4
<1> QED
  BY <1>1, <1>3, WaitersKept DEF AbsentInv

\* The burst stays as it is.
LEMMA SameTodo ==
    ASSUME TypeOK, AbsentInv, NothingAdded, UNCHANGED <<todo, resolved>>,
           Publishing => Publishing',
           Replacing' => Replacing \/ Missed
    PROVE  AbsentInv'
<1>1. \A j \in DOMAIN todo' : Waits(todo[j])' =>
          \E i \in DOMAIN todo : todo[i] = todo'[j] /\ Waits(todo[i])
  BY DEF Waits
<1>2. Replacing' => Head(todo).pos = Miss /\ resolved[Head(todo).key] = Unresolved
  BY DEF AbsentInv, Missed
<1> QED
  BY <1>1, <1>2, WaitersKept DEF AbsentInv

\* The add of the key at the head of todo.
LEMMA AddStep ==
    ASSUME TypeOK, AbsentInv, D_Add \/ D_Retry
    PROVE  AbsentInv'
<1>1. todo # <<>> /\ ~Publishing /\ AddHead
  BY DEF D_Add, D_Retry, Missed, Publishing, TypeOK, DispatcherTypeOK
<1>2. PICK s \in Slots : AddKey(Head(todo).key, s)
  BY <1>1 DEF AddHead
<1>3. UNCHANGED <<todo, resolved>> /\ Publishing' /\ ~Replacing'
  BY <1>1 DEF AddHead, Publishing, Replacing
<1>4. ASSUME NEW j \in DOMAIN todo', Waits(todo[j])'
      PROVE  ~Present(todo[j].key)'
  <2>1. todo'[j] = todo[j] /\ j \in DOMAIN todo
    BY <1>3
  <2>2. todo[j].key \in Keys /\ todo[j].key # Head(todo).key /\ Head(todo).key \in Keys
    BY <1>1, <1>3, <1>4, <2>1, TodoTypes, HeadTypes DEF Waits, Lookup
  <2>3. Waits(todo[j])
    BY <1>1, <1>3, <1>4 DEF Waits
  <2>4. PICK k \in Keys : k = todo[j].key
    BY <2>2
  <2>5. ~Present(k)
    BY <2>1, <2>3, <2>4 DEF AbsentInv
  <2>6. ~Present(k)'
    BY <1>2, <2>2, <2>4, <2>5, AddKeeps
  <2> QED
    BY <2>1, <2>4, <2>6 DEF Present, Holds
<1> QED
  BY <1>3, <1>4 DEF AbsentInv

\* The bulk lookup of the next key.
LEMMA LookupKey ==
    ASSUME TypeOK, AbsentInv, D_Lookup
    PROVE  AbsentInv'
<1>1. PICK p \in Slots \cup {Miss} :
         /\ IF p = Miss THEN ~Present(Head(burst)) ELSE Holds(p, Head(burst))
         /\ todo' = Append(todo, [key |-> Head(burst), pos |-> p])
  BY DEF D_Lookup
<1> DEFINE e == [key |-> Head(burst), pos |-> p]
<1>2. UNCHANGED <<resolved, status, keyAt>> /\ ~Publishing /\ ~Publishing' /\ ~Replacing'
  BY DEF D_Lookup, tableVars, hashVars, Publishing, Replacing
<1>3. e \in Lookup
  BY TailElements DEF D_Lookup, TypeOK, DispatcherTypeOK, Lookup
<1>4. ASSUME NEW j \in DOMAIN todo', Waits(todo[j])'
      PROVE  ~Present(todo'[j].key)
  <2>1. CASE todo'[j] = e
    BY <1>1, <1>4, <2>1 DEF Waits
  <2>2. CASE j \in DOMAIN todo /\ todo'[j] = todo[j]
    BY <1>2, <1>4, <2>2 DEF Waits, AbsentInv
  <2>3. todo \in Seq(Lookup)
    BY TodoTypes
  <2> HIDE DEF e
  <2>4. todo' = Append(todo, e)
    BY <1>1 DEF e
  <2> QED
    BY <1>3, <2>1, <2>2, <2>3, <2>4, AppendElements
<1> QED
  BY <1>2, <1>4 DEF AbsentInv, Present, Holds

\* AbsentInv is inductive.
LEMMA AbsentStep ==
    ASSUME TypeOK, AbsentInv, [Next]_vars
    PROVE  AbsentInv'
<1>1. CASE DispatcherNext
  <2>1. CASE D_Add \/ D_Retry
    BY <2>1, AddStep
  <2>2. CASE D_Lookup
    BY <2>2, LookupKey
  <2>3. CASE ~(D_Add \/ D_Retry \/ D_Lookup)
    <3>1. NothingAdded
      BY <1>1, <2>3, DispatcherHash
    <3>2. CASE D_Duplicate
      <4>1. resolved[Head(todo).key] \in Stamp
        BY <3>2, HeadTypes DEF D_Duplicate, TypeOK, DispatcherTypeOK
      <4> QED
        BY <3>1, <3>2, <4>1, TailStep DEF D_Duplicate, Steer
    <3>3. CASE D_Hit \/ D_Publish
      <4>1. todo # <<>>
        BY <3>3 DEF D_Hit, D_Publish, TypeOK, DispatcherTypeOK
      <4>2. PICK st \in Stamp : Steer(Head(todo).key, st)
        <5>1. \A s \in Slots : /\ flow_gen[s] \in 0 .. GenMod - 1 /\ pubs[s] \in Nat
                               /\ worker_id[s] \in Workers
          BY DEF TypeOK, FlowTableTypeOK
        <5>2. CASE D_Hit
          BY <4>1, <5>1, <5>2, HeadTypes, StampMake DEF D_Hit, TypeOK, DispatcherTypeOK
        <5>3. CASE D_Publish
          <6>1. pslot \in Slots /\ HashWorker[Head(todo).key] \in Workers
            BY <4>1, <5>3, HeadTypes, FlowTableAssumption
            DEF D_Publish, Publishing, TypeOK, DispatcherTypeOK, FlowTableAssumption
          <6> QED
            BY <5>1, <5>3, <6>1, StampMake DEF D_Publish
        <5> QED
          BY <3>3, <5>2, <5>3
      <4> QED
        BY <3>1, <4>1, <4>2, TailStep DEF Steer
    <3>4. CASE D_RetryFails \/ (D_Evict /\ DropPacket)
      <4>1. todo # <<>> /\ ~Publishing /\ DropPacket
        BY <3>4 DEF D_RetryFails, D_Evict, Publishing, TypeOK, DispatcherTypeOK
      <4> QED
        BY <3>1, <4>1, TailStep DEF DropPacket
    <3>5. CASE D_Enqueue
      BY <3>5 DEF D_Enqueue, AbsentInv, Replacing
    <3>6. CASE \/ D_Poll \/ D_Rx \/ D_AddFails \/ D_NextGeneration \/ D_ClearCold
               \/ D_WriteCold \/ D_Reclaim \/ (D_Evict /\ ~DropPacket)
      <4>1. UNCHANGED <<todo, resolved>>
        BY <3>6 DEF D_Poll, D_Rx, D_AddFails, D_NextGeneration, D_ClearCold,
           D_WriteCold, D_Reclaim, D_Evict, EvictAll, dispatcherVars
      <4>2. Publishing => Publishing'
        <5>1. CASE D_NextGeneration \/ D_WriteCold
          BY <5>1 DEF D_NextGeneration, D_WriteCold, Publishing
        <5>2. CASE D_ClearCold
          BY <5>2 DEF D_ClearCold, dispatcherVars, Publishing
        <5>3. CASE D_Poll \/ D_Rx \/ D_AddFails \/ D_Reclaim \/ D_Evict
          <6>1. dpc \in {"poll", "resolve", "reclaim", "evict"}
            BY <5>3 DEF D_Poll, D_Rx, D_AddFails, Missed, D_Reclaim, D_Evict
          <6> QED
            BY <6>1 DEF Publishing
        <5> QED
          BY <3>6, <5>1, <5>2, <5>3
      <4>3. Replacing' => Replacing \/ Missed
        BY <3>6 DEF D_Poll, D_Rx, D_AddFails, D_NextGeneration, D_ClearCold,
           D_WriteCold, D_Reclaim, D_Evict, dispatcherVars, Replacing
      <4> QED
        BY <3>1, <4>1, <4>2, <4>3, SameTodo
    <3> QED
      BY <1>1, <2>3, <3>2, <3>3, <3>4, <3>5, <3>6 DEF DispatcherNext
  <2> QED
    BY <2>1, <2>2, <2>3
<1>2. CASE StatsNext \/ (\E w \in Workers : WorkerNext(w)) \/ Tick \/ UNCHANGED vars
  <2>1. UNCHANGED <<todo, resolved, dpc>>
    BY <1>2 DEF StatsNext, StatsFrame, WorkerNext, WorkerFrame, Tick, vars, dispatcherVars
  <2>2. NothingAdded
    <3>1. CASE StatsNext
      BY <3>1, StatsHash
    <3>2. CASE ~StatsNext
      <4>1. UNCHANGED <<status, keyAt>>
        BY <1>2, <3>2 DEF WorkerNext, WorkerFrame, Tick, vars, tableVars, hashVars
      <4> QED
        BY <4>1 DEF NothingAdded, Present, Holds
    <3> QED
      BY <3>1, <3>2
  <2> QED
    BY <2>1, <2>2, SameTodo DEF Publishing, Replacing
<1> QED
  BY <1>1, <1>2, NextByThread

\* The duplicate check in the burst (dispatcher.c:156) and the single adding thread:
\* rte_hash_add_key is never called for a key that the table holds.
THEOREM AddsAbsent == Spec => []AddsOnlyAbsentKeys
<1>1. Init => AbsentInv
  BY DEF Init, DispatcherInit, AbsentInv, Replacing
<1>2. TypeOK /\ AbsentInv /\ [Next]_vars => AbsentInv'
  BY AbsentStep
<1>3. TypeOK /\ AbsentInv => AddsOnlyAbsentKeys
  <2> SUFFICES ASSUME TypeOK, AbsentInv, Missed \/ Replacing
               PROVE  ~Present(Head(todo).key)
    BY DEF AddsOnlyAbsentKeys, Replacing
  <2>1. todo # <<>> /\ ~Publishing
    BY DEF Missed, Replacing, Publishing, TypeOK, DispatcherTypeOK
  <2>2. 1 \in DOMAIN todo /\ todo[1] = Head(todo)
    BY <2>1, TodoTypes, TailElements
  <2>3. Waits(todo[1])
    BY <2>1, <2>2 DEF Waits, Missed, AbsentInv
  <2> QED
    BY <2>2, <2>3 DEF AbsentInv
<1> QED
  BY <1>1, <1>2, <1>3, TypeCorrect, PTL DEF Spec

-----------------------------------------------------------------------------
(* The count of deletions.                                                 *)

\* A set of positions with a victim has at least one element.
LEMMA SomeVictim ==
    ASSUME NEW E \in SUBSET Slots, E # {}
    PROVE  Cardinality(E) \in Nat /\ Cardinality(E) >= 1
<1>1. IsFiniteSet(E) /\ Cardinality(E) \in Nat
  BY FlowTableAssumption, FS_Subset, FS_CardinalityType DEF FlowTableAssumption
<1>2. Cardinality(E) # 0
  BY <1>1, FS_EmptySet
<1> QED
  BY <1>1, <1>2

\* A step counts a deleted flow only with a position that it retires.
LEMMA CountStep ==
    ASSUME TypeOK, DeletesNotOverReported, [Next]_vars
    PROVE  DeletesNotOverReported'
<1> USE DEF DeletesNotOverReported
<1>1. flows_deleted \in Nat /\ removed \in Nat
  BY DEF TypeOK, FlowTableTypeOK
<1>2. CASE D_Evict
  <2>1. CASE UNCHANGED <<removed, flows_deleted>>
    BY <2>1
  <2>2. CASE \E E \in SUBSET Slots : E # {} /\ EvictAll(E)
    <3>1. PICK E \in SUBSET Slots : E # {} /\ EvictAll(E)
      BY <2>2
    <3>2. removed' = removed + Cardinality(E) /\ flows_deleted' = flows_deleted + 1
      BY <3>1 DEF EvictAll
    <3> QED
      BY <1>1, <3>1, <3>2, SomeVictim
  <2>3. CachedVictims \in SUBSET Slots /\ EmergencyVictims \subseteq SUBSET Slots
    BY DEF CachedVictims, EmergencyVictims
  <2> QED
    BY <1>2, <2>1, <2>2, <2>3 DEF D_Evict
<1>3. CASE S_Delete \/ S_Evict
  <2>1. PICK k : DeleteKey(k)
    BY <1>3 DEF S_Delete, S_Evict
  <2> DEFINE n == Cardinality({s \in Slots : Holds(s, k)})
  <2>2. removed' = removed + n /\ flows_deleted' = flows_deleted + n /\ n \in Nat
    BY <2>1, SlotSetSize DEF DeleteKey
  <2> HIDE DEF n
  <2> QED
    BY <1>1, <2>2
<1>4. CASE DispatcherNext /\ ~D_Evict
  <2>1. UNCHANGED <<removed, flows_deleted>>
    BY <1>4 DEF DispatcherNext, D_Poll, D_Rx, D_Lookup, D_Duplicate, D_Hit, D_Add,
       D_AddFails, D_NextGeneration, D_ClearCold, D_WriteCold, D_Publish, D_Reclaim,
       D_Retry, D_RetryFails, D_Enqueue, AddHead, tableVars, countVars
  <2> QED
    BY <2>1
<1>5. CASE StatsNext /\ ~(S_Delete \/ S_Evict)
  <2>1. UNCHANGED <<removed, flows_deleted>>
    BY <1>5 DEF StatsNext, S_Wake, S_Collect, S_EndScan, S_Recheck, S_EndFlush, S_Sample,
       S_Candidate, S_Validate, S_Stash, S_Skip, S_EndPressure, S_Rest, tableVars,
       countVars
  <2> QED
    BY <2>1
<1>6. CASE (\E w \in Workers : WorkerNext(w)) \/ Tick \/ UNCHANGED vars
  BY <1>6 DEF WorkerNext, WorkerFrame, Tick, vars, tableVars, countVars
<1> QED
  BY <1>2, <1>3, <1>4, <1>5, <1>6, NextByThread

\* flows_deleted never exceeds the keys that rte_hash_del_key really deleted: a
\* replacement that counts one deletion has deleted at least one (dispatcher.c:73).
THEOREM CountedDeletesHappened == Spec => []DeletesNotOverReported
<1>1. Init => DeletesNotOverReported
  BY DEF Init, FlowTableInit, DeletesNotOverReported
<1>2. TypeOK /\ DeletesNotOverReported /\ [Next]_vars => DeletesNotOverReported'
  BY CountStep
<1> QED
  BY <1>1, <1>2, TypeCorrect, PTL DEF Spec
=============================================================================
