# Verification of flowcore

TLA+ models of `flowcore`, the DPDK flow-table program of this repository (C,
`src/src` and `src/include`): one dispatcher thread, four workers and one
statistics thread that share a lock-free flow table. The models are checked with
TLC on small instances. The type invariants and all safety invariants that a
passing run checks are proved with TLAPS for every value of the constants, as are
the exactness of the packet parser and the refinements of the transmission and of
the rule engine. Liveness is checked by TLC only.

## 1. Inventory

| Component | Code | State | Operations | Meets |
|---|---|---|---|---|
| Flow table | `flow_table.c`, `flow_table.h` | `rte_hash` (positions, keys, free list), RCU defer queue, `hot[]` (last_seen, flow_gen, worker_id), `cold[]` (tuple), victim ring, scan cursors | init, lookup, add, delete, quiescent, online/offline, reclaim, aging tick, pressure mode and maintenance, eviction for replacement | called by dispatcher and stats thread, read by workers |
| Dispatcher | `dispatcher.c` | a burst, `positions[]`, `resolved_*[]`, `worker_buffers[][]` | receive, parse, bulk lookup, duplicate, hit, add, publish, replace, steer, enqueue, quiescent | hash, side arrays, victim ring, worker rings |
| Worker | `worker.c` | dequeued burst, snapshot of `cold[]`, `tx_pkts[]`, pending TX buffer | dequeue, double generation check, match, account, stage, flush with retries, drain | worker ring, side arrays, active rules, NIC |
| Stats thread | `stats.c` | tick counter, previous totals, TUI input | sleep, reload, age, pressure, quiescent, reclaim, report, commands | flow table, rule engine, `force_quit` |
| Rule engine | `spi_engine.c` | two tables, active pointer, reload request | init, request, reload, match | file system, signal handler, workers |
| Packet parsing | `flow_packet.c` | none | extract key, extract cold, account protocol | dispatcher, workers |
| Statistics core | `stats_core.c` | per-lcore counters | init, reset, totals, rates | all threads |
| Start and stop | `main.c`, `app_init.c` | `force_quit`, rings, ports, mempool | handlers, init, launch, run, join, cleanup | everything |

Threads interact through shared memory without locks: hash and side arrays
(dispatcher writes; stats thread deletes keys; workers only read `cold[]` and
`flow_gen`), single-producer single-consumer rings (dispatcher to worker, stats
thread to dispatcher for victims), an atomically swapped pointer (rules) and two
flags (`force_quit`, `g_reload_requested`). Workers are not RCU readers: the
generation protects them.

What makes each part correct, and hard:

* flow table, dispatcher and workers: a packet is classified by its own tuple
  whatever becomes of its position while it waits in a ring; a position found by
  the bulk lookup is not given away under the dispatcher; a flow stays with one
  worker; deleted positions come back; no burst hangs on a full table. Hard:
  torn copies, reuse of positions, generations that wrap, quiescent reports in
  the middle of a burst, two threads deleting.
* rule engine: readers see whole rule files, a reload that fails leaves no
  trace, no request is lost. Hard: loads that overlap matches, reads that fail.
* transmission: every packet is sent or freed once, in order, and counted. Hard:
  partial and refused bursts, retries, the exit.
* packet parsing: exactly the packets the program is for pass, and no byte behind
  the data is read. Hard: header lengths, fragments, short segments.
* statistics and report: every packet is counted once at every stage, the figures
  of a report lie between two true ones and settle when the traffic stops, a rate
  covers one period. Hard: counters that move while they are summed, baselines
  that have to be kept in a view that does not show them.
* start and stop: a stop request stops every thread, nothing is used after it is
  freed, the terminal is not left raw. Hard: signals, keys and failures at any
  moment.

`PROJECT.json` lists every hazard with its line and the properties that cover it.

## 2. Modules

Core (one flow table, all threads):

* `FlowTable` - shared state and operations of the table. `status`, `keyAt` and
  `waiting` are `rte_hash` with its defer queue (external: modelled from how the
  code uses it; lookup, add, delete, quiescent and reclaim are atomic). `waiting`
  holds, per retired position, the online threads that have not reported a
  quiescent state since. `pubs` and `removed` are history.
* `PacketRings` - stamps, packets, burst operations of the worker rings. A stamp
  is `mbuf->hash.fdir` (position, generation); its `worker`, `pub` and `dirty`
  are the dispatcher's `resolved_workers[]` and history.
* `Dispatcher` - `dispatcher.c`, one action per code point where another thread
  can interfere: each key of the bulk lookup, add, increment of the generation,
  each word of `cold[]` (zeroed or written, in any order), the store of
  `last_seen`, the eviction, the reclaim, the retry, the hand-over.
* `Worker` - the classification half of `worker_thread`.
* `Maintenance` - the table maintenance of `stats_thread`, with `flow_table.c`'s
  aging and pressure passes: each walks the hash in the order of
  `rte_hash_iterate` from a cursor of its own (`aging_iter`, `pressure_iter`) that
  lasts from tick to tick, as far as its scan budget goes, and starts again at the
  end of the table.
* `Flowcore` - the composition, every property of the core, the inductive
  invariant, fairness. `MCFlowcore` gives TLC its small sets.
* `FlowcoreTypes_proofs`, `Flowcore_proofs`, `FlowcoreTable_proofs` - the proofs.

`DataLemmas` has the facts about sequences, remainders and sums that the proofs of
all components cite.

The other components:

* `SpiRule` - a line of the rule file, the parsers, the tokenizer's count of
  fields, and when a rule matches a tuple.
* `SpiEngine` (on top of `SpiRule`) - the two tables, load and reload, reads that
  fail, requests, and matches rule by rule. It implements the abstract `RuleService`
  (rules that change at once from one whole file to another, with a version that
  counts; after a read error, which `fgets` does not tell from the end of the file,
  they are those of a file's first lines and are marked `partial`). Which lines may
  become rules (`Meaningful`) and what they mean (`Described`) is stated without the
  parsers: the refinement mapping gives each published rule the set of tuples it
  matches and its action, and compares that with what the line of the file says, so a
  parser or a comparison that gets a field wrong breaks it too. `MCSpiEngine` holds
  the rule files of the runs; `SpiEngine_proofs` the proofs.
* `WorkerTx` implements the abstract `PacketCustody` (packets held in order of
  arrival, each sent from the front or freed, once); `WorkerTx_proofs`.
* `FlowPacket` - `flow_packet.c` as operators on the header's fields: the tests in
  their order, how far each reads, what is returned; the counter of a tuple.
* `Report` (on top of `FlowPacket`) - the counters of the lcores, from the arrival
  of a packet to its verdict, and the report of the stats thread: totals summed lcore
  by lcore, the worker lines one by one, and the baselines of the next report.
  `MCReport` has the packets of the run; `Report_proofs` the proofs, those about the
  parser included.
* `Terminal` - the input line, its keys and the commands that change the view or
  quit. `Lifecycle` (on top of it) - `main.c`, `app_init.c` and the three loops as far
  as they look at `force_quit`, use what the cleanup frees, or change the terminal.
  `MCLifecycle`, `Lifecycle_proofs`.

The operators named `X_Something` before an operator `X` are faulty variants of
it (a dropped guard, a missing reset); each makes a property of a run fail and
shows that the property depends on that line of the code.

## 3. Runs

| Run | Question | Instance |
|---|---|---|
| `Classify` | Is every packet matched under its own tuple and kept with its worker, and does the proof's invariant hold? | 1 position, 2 flows of 2 workers, 2 words of `cold[]`, generations modulo 3, 3 creations, no cached victim |
| `Table` | What do RCU and the burst's bookkeeping guarantee against aging and pressure? | 2 positions, 3 flows, 1 cached victim, 3 clock values, a timeout of 0, 3 creations, worker rings full |
| `Liveness` | Does the defer queue drain, does every burst end, is every idle flow found? | 2 positions, 2 flows, chunks of 1 entry, no pressure, worker rings full |
| `StaleHit`, `EarlyDelete`, `EvictCount` | violated: see section 6 | small |
| `Rules` | What do readers of the rules see, a read error included, and is a request lost? | 5 files (two orders of the same rules, a short one, two that fail half-way) and no file, 2 tuples, table of 2, 1 worker, 2 edits, 2 requests, 1 read error |
| `RuleFormat` | violated: see section 6 | lines of 7, 8 and 9 fields |
| `Report` | Is every packet counted, and what may a report show? | 3 kinds of packets (DNS, another protocol, no room for the ports), 2 packets, bursts of 2, rings of 1, 2 workers, a report every 2 ticks |
| `Tx` | Custody, counters, stop and service of the ring | bursts of 3, 2 retries, 6 packets |
| `Quit` | Does every stop request end the process, and in what state? | 2 workers, 4 lcores, 2 signals, 5 keys, a line of 4 bytes |
| `LostSignal` | violated: see section 6 | 1 worker |

Why the bounds are enough. The hazards of the core need one position that
changes owner while a packet of the former owner is looked up, queued or copied:
one position and two flows give every such order, and three creations let a
generation modulo 3 pass through a whole period. The maintenance hazards need a
second position (one that waits, one that is reused) and a third flow that finds
the table full. `RingSize = 0` in `Table` takes the workers out: they never write
what its properties mention. A burst of two contains duplicates, and a packet
that follows a replacement. `GenMod = 100` in the other runs keeps generations
from wrapping. Thresholds in percent are chosen so that a table of 2 or 3
entries passes through the modes. In `Liveness` one tick scans one of two entries,
so a flow behind the cursor has to wait for the cursor to come round, while the
other position may be deleted, taken and refreshed at will. Rules: two tables need
two loads to return to the first, and two requests make them after the load of the
init; one worker is enough since matches only read; the read error hits any line of
any of the loads.
A packet whose source port is 0 tells a port of 65536 that is refused from one that
wraps. Tx: a burst of 3 can be sent in parts, retried, and
kept over the next turn. Report: two packets are enough to be counted between the
reading of two lcores, to fill a ring of one and to be lost; both views occur in
one period of two ticks. Quit: `q` and `q q` are other commands than `qq`, so the
line is cut at its limit, edited and trimmed; the second signal finds the first
one handled.

The bounds are the constants `MaxNow`, `MaxCreated`, `MaxEdits`,
`MaxReadErrors`, `MaxRequests`, `MaxPackets` (of `WorkerTx` and of `Report`),
`MaxSignals` and `MaxKeys`, each a guard of one action. `CHECK_DEADLOCK FALSE`
stands only where the modelled program stops (`Rules`, `RuleFormat`: a failed
init; `Tx`, `Quit`, `LostSignal`: the end).

Symmetry is used in invariant runs only. Positions are interchangeable (`Table`,
`EarlyDelete`, `EvictCount`); flows are not where `Bucket` gives each an entry of
its own in the order of the scan, but they are in `StaleHit`, where there is one
worker and one position. In `Classify` the words of `cold[]` are, and so are the
two flows when their workers are exchanged with them (`PairSymmetry`).

## 4. Fairness

Each thread busy-loops on an lcore of its own, so each thread's next step is
weakly fair (`FairSpec` of `Flowcore`, `WorkerTx`, `Lifecycle`, `Report`): the loop of
the dispatcher, of each worker and of the stats thread, the tick with all steps of
its scans included, for what a scan finds next is given by its cursor. Not fair, since
they depend on the world outside: packets that arrive (`D_Rx`, `Enqueue`), the clock
(`Tick`), whether a word is seen zeroed (`D_ClearCold`), signals, edits, requests,
keys and commands. In `SpiEngine` the loader is weakly fair (it runs on every tick of
the stats thread). `RingServed` of `WorkerTx` assumes in its statement that the NIC
does not refuse every burst (`NicAccepts`); nothing else does. `QuitEnds` rests on a
bound that is an assumption: the user does not type for ever (`MaxKeys`), for the poll
reads as long as there are keys (`stats.c:160`).

## 5. Proofs

`PROJECT.json` lists the theorems. All hold for every value of the constants that
meets the named assumptions of the modules (`FlowTableAssumption`: a finite set of
positions, a key for "none", a modulus above 2, ...; `SpiEngineAssumption`,
`WorkerTxAssumption`, ...), which TLC evaluates in the runs.

### The core

`FlowcoreTypes_proofs` proves `TypeCorrect` (Spec => []TypeOK), `Flowcore_proofs`:

* `ClassificationInvariant`: Spec => []ClassificationInv;
* `OwnTuple`: Spec => []ClassifiedByOwnTuple;
* `PositionsPinned`: Spec => []LookupPinned;
* `Affinity`: Spec => []FlowAffinity.

`ClassifiedByOwnTuple` speaks of the moment of the match and is not inductive.
`ClassificationInv` adds what the argument needs:

* `GenerationInv`: flow_gen is a function (`GenOf`) of the number of publications;
* `PacketInv`: every stamp, wherever its packet is, names a publication that
  happened, by its generation; while that publication is the last of its
  position and the stamp is clean, `cold[]` holds the packet's tuple
  (`StampOK`);
* `LiveInv`, `PublishInv`: a live position describes its key, except between its
  add and its publication, of which the words written so far are known;
* `LookupInv`: a position of the bulk lookup is pinned - live, or retired and
  waiting for the dispatcher - so an add cannot take it;
* `CopyInv`: what a worker has copied so far is the packet's tuple unless the
  position was published again.

The second generation check then closes the argument: if the generation is still
the stamp's, the number of publications since is a multiple of the period
(`GenOfSame`, from `SameRemainder` on remainders); it is zero, or the position
went through all generations (`lapped`, the exception of the property). The step
lemmas follow the actions, one each; `StatsInv` shows that the maintenance never
unpins or rewrites anything, `WorkerInv` treats the workers.

`FlowcoreTable_proofs` takes the other three properties of `Table`:

* `BatchPinned`: Spec => []ScannedKeyPinned. `ScanInv` says that the aging batch is
  empty outside a tick and that each of its positions is live with the key that was
  collected, or retired and waiting for the stats thread; since that thread is
  online until the batch is flushed, neither a reclaim nor an add touches them.
* `AddsAbsent`: Spec => []AddsOnlyAbsentKeys. `AbsentInv`: a key whose packet missed
  in the bulk lookup, and which no earlier packet of the burst has resolved, is not
  in the table; only the dispatcher adds keys, and it resolves what it adds.
* `CountedDeletesHappened`: Spec => []DeletesNotOverReported.

### The other components

* `Report_proofs`: first the parser alone, for every header: `ParserIsExact` (it
  accepts what has the fields it reads, and nothing else) and `ParserReadsInside`. The
  run `Report` meets the same two formulas on the packets that arrive (`BurstParses`).
  Then the safety properties of `Report`, for any lcores in any order, any traffic, any
  bursts and ring sizes: `PacketsCountedOnce` (Spec => []EveryPacketCounted),
  `WorkersSeeTcpUdp`, `ReportBetween` and `RatesOfOnePeriod` (Spec => []TotalsBetween,
  Spec => []WorkerRatesCoverOnePeriod). The inductive invariant `Inv` has these parts:
  * `PacketInv` and `ParsedInv`: what waits in a buffer, a ring or a worker's hand has
    passed the parser, and what is still to be parsed fits into any worker's buffer. No
    worker counts anything under OTHER for that reason.
  * `EveryPacketCounted` itself: each step of a thread moves a packet from one of the
    buffers into exactly the counters that stand for it, in one lcore.
  * `TotalsInv`: while the totals are collected, with what the lcores still to be read
    count now they are no less than the last report's, and they are at most what the
    lcores already read count now. Counters only grow, so a thread that counts
    meanwhile disturbs neither side. `TotalsBetween` looks at finished totals only and
    is not inductive without the part about unread lcores.
  * `BaselineInv`: the baseline of a worker's line is never ahead of its counter, and
    all of them together stay ahead of the totals of the last report by what this
    report's lines have shown; so no line shows growth that the totals have shown
    before, though a line is skipped or shown as the view changes.

  What is assumed: `LcoreOrder` lists the dispatcher and the workers once each, as
  `RTE_LCORE_FOREACH` does, and there is at least one worker (`app_init.c:184`).
* `SpiEngine_proofs`: `SpiTypes` and `VerdictOfOneTable` (Spec => []SnapshotVerdict).
  `LoaderInv` keeps the loader's target off the active table while lines are read;
  `CallInv` follows a match: as long as no second load has begun, the table it reads
  is not the target, still holds the rules that were active at its beginning, and no
  rule before the i-th matched. A load that begins, a line that is read and a table
  that is published each need a part of it.
  `WholeFilesOnly` (Spec => PublishesWholeFiles: the engine implements `RuleService`)
  holds for every set of rule files and any number of read errors.
  `AcceptedIsMeaningful` and `LineMeaning` compare the tokenizer, the parsers and
  `rule_matches` with what a line says; `RulesLineByLine` gives the rules of a file's
  first k lines from those of its first k - 1; `FileInv` says that a load under way has
  read some k lines of one file, that the target holds their rules, and that none of
  them was refused - although the file may have been replaced since. At the end of the
  file (`WholeFile`) the target is the whole of an acceptable file, or its first k lines
  if a read failed, and the one store of `active` publishes it. Every other step is invisible: it writes the target only,
  which is not active (`LoaderInv`).
* `WorkerTx_proofs`: `TxTypes`, `NothingOverflows`, `NothingUncounted` and
  `CustodyKept` (Spec => KeepsCustody: the worker implements `PacketCustody`). `TxInv`
  says which of the burst, the staged packets and `pending` may be non-empty at each
  stage of the loop; `RingInv` that the ring holds the next packets in their order. Each
  step then maps to a step of `PacketCustody` or changes nothing it sees: a `memmove`
  of `pending`, a retry and a staging move packets within `held`.
* `Lifecycle_proofs`: `LifecycleTypes`, `SafeCleanup` (Spec => []NoUseAfterFree) and
  `TerminalComesBack` (Spec => []TerminalRestored). `StageInv` says what is allocated at
  each stage of the main lcore and that nobody runs before the launch or after the
  join; `RawInv` that raw mode belongs to the stats thread between its start and end,
  and that a process that exits with it does so while the workers are launched.

### Data

Rules of a file and sums over lcores are recursive functions. Nothing here uses an
induction theorem of the library; a claim about all prefixes or all subsets is proved
by its smallest counterexample (`SmallestNumber`, `SmallestSubset` in `DataLemmas`).
From there follow that such a function exists with its recursive equation (`UpToExists`
for the rules, `FoldExists` and `SumUnfolds` for sums), and what the proofs use of sums:
taking one element out, changing one summand, comparing two sums term by term.

### Model-checked only

Every invariant of the runs and both refinements are theorems. Liveness is not: TLAPS
does not reason about fairness and ENABLED. It stays with TLC on small instances:
`RetiredEventuallyReclaimed`, `BurstEnds` and `IdleFlowDeleted` (`Liveness`),
`ReloadServed` (`Rules`), `StopsOnQuit` and `RingServed` (`Tx`), `ReportSettles`
(`Report`), `QuitEnds` (`Quit`). The five runs that expect a violation have no theorem,
naturally.

## 6. Where code and documents differ

* `StaleHit`: a replacement in the middle of a burst reports a quiescent state
  (`dispatcher.c:75`) while positions of the bulk lookup are still to be used; a
  later packet of the burst takes the stamp of the flow that got its position.
* `EarlyDelete`: a reused position shows its former `last_seen` until it is
  published, so the guards `last_seen == 0` do not protect it.
* `EvictCount`: a replacement that deletes several flows counts one.
* `RuleFormat`: a rule line of eight fields is accepted.
* `LostSignal`: a signal before `force_quit = 0` (`app_init.c:236`) is announced
  and forgotten.

`ClassifiedByOwnTuple` and `FlowAffinity` except the stamps of the first of these
(`dirty`), so that they say what holds for all other packets.

Without a run of its own: a read error in a load counts as the end of the file (`fgets`
returns NULL for both, `spi_engine.c:135`, and `ferror` is not asked), so a reload that
could not read its file replaces the rules by the first ones of it, or by none, and the
version counts it; the message "Reload failed, keeping version" (`spi_engine.c:271`)
does not appear. `PublishesWholeFiles` has this as the `Beginnings` of `RuleService`,
published as `partial` and only then.

## 7. Abstractions

* Memory order: x86 (TSO) store order is assumed, as the plain copy of `cold[]`
  in `worker.c:160` assumes it; the words of one `cold[]` entry are written and
  copied in any order.
* `rte_hash`, RCU, rings: atomic operations (external). The defer queue is
  reclaimed as a whole instead of in rounds. An emergency scan may pick any set
  of at most 16 valid victims, the empty one included. The order of
  `rte_hash_iterate` is fixed per key (`Bucket`): a key that a cuckoo displacement
  moves to another entry during a pass is not modelled. A scan budget of 0, which
  the code raises to 1, cannot occur, as the capacity is at least 1.
* Steps without interference are merged: the deletes of one eviction (a delete by
  the stats thread in between has the same effect before or after), a counter
  with the step it counts, the quiescent report with the reclaim and the offline
  report at the end of a tick.
* Branches that cannot be taken are left out: positions beyond
  `storage_entries`, a worker that cannot parse what the dispatcher parsed.
* Rule files are replaced at once (rename). A copy in place
  (`tests/run_functional_tests.py:135`) is over before the reload is requested; one that
  still writes while a load reads would show it a shorter file, and the rules that are
  published are then those of the first lines, as after a read error, or lines cut in
  two. This is not modelled. A rule line is the number of its tokens and what
  each of them means to its parser; lines of more than 511 characters are left out.
* In `SpiEngine` one rule is written and one is read in one step; a match that
  two loads overlap reads a table that is being rewritten, and nothing is claimed
  of its verdict.
* `rte_exit` ends the process at once; what DPDK cleans up under running threads, when
  a worker cannot be launched, is external. `QuitEnds` starts once `force_quit = 0` has
  been passed; a request before it is the subject of `LostSignal`.
* `Report`: one packet is counted in all its counters in one step, and the counters
  of one lcore are read in one step. The properties therefore relate a counter only
  to itself while traffic moves, and counters of one report to each other only when
  it has stopped. The division by the time that has passed, bytes, and the counters
  of transmission, replacement and aging are left out. Which worker a flow has,
  whether it finds a position and what the rules say are open choices there; the
  core and the rule engine decide them.
* `Terminal`: help, messages and the layout of reports are left out; the command
  `reload` is `RequestReload` of `SpiEngine`.

Not modelled: the set-up of ports and mempool (configuration calls into DPDK whose
outcome is success or failure in `Lifecycle`; the environment variable for the pool
size and its 32-bit product are listed as a hazard), the text of the terminal, and
the packets that the rings still hold when they are freed, which nothing in the
program or its documents speaks of.

## 8. Plan

1. Done: flow table, dispatcher, workers, maintenance, their composition and its
   proof; rule engine, transmission and life cycle with their runs.
2. Done: scan cursors and budgets with the deletion of every idle flow; parser and
   protocol counters; totals, baselines and rates under moving counters; the
   terminal's line, poll and commands; the fields of a rule and what they match.
3. Done: the proofs of all safety properties of the runs, and of the refinements of
   `PacketCustody` and `RuleService`.
4. Open: a model of `rte_hash` below its atomic operations (the displacement of keys
   during a scan); the mbufs left in the rings and in the NIC at the exit.
