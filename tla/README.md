# A TLA+ model of the IOMMU performance model

The repository is a SystemC model of a RISC-V IOMMU: a functional model of the
specification (registers, queues, contexts, page tables) and, around it, a
performance model made of cooperative threads, bounded FIFOs, caches and
outstanding counters. This directory models their control: who waits for whom,
which counter stands for which task, what a cache may still answer after an
invalidation, whether the concurrent page table walker translates as the
sequential model does, and what the queues promise the driver. The modules are
checked with TLC; the safety of seven of the eight, and the bookkeeping of the page table walker,
have proofs checked by TLAPS (section 4).

One fact shapes all the modules: SystemC threads are cooperative. The code
between two `wait()` calls, blocking FIFO operations or mutex waits is atomic,
so it is one action; each point where a thread may block is a state of its own.
`notify(SC_ZERO_TIME)` wakes only a thread that is waiting at that moment, so an
event is never a stored token here: a waiting thread has a control state that
only the action of a notifier leaves.

## 1. Inventory

| Component | State | Operations | Interacts through |
|---|---|---|---|
| Ports and admission (`iommu_top.cc` 503-739, 777-1095) | `iommu_global/read/write_outstanding`, input delay queues | offer, gate, admit, delay line | freed events of the output thread; `inbound_fifo` |
| Parser (`iommu_perf_parser.cc`) | round-robin flag, popped task | pop, register for reordering, mode and DDI checks, bypass | `collector_*`, `dc_pc` and exit FIFOs |
| Collector (`iommu_perf_collector.cc`) and xDTW (`iommu_perf_xdtw.cc`, `iommu_device_context.cc`, `iommu_process_context.cc`) | `pending_tasks`, `collector_dc/pc_walk_outstanding`, active walks | DC/PC lookup answers, directory walks, configuration and routing | bounded FIFOs with the parser, the DC/PC cache threads and xDTW, in a ring |
| Dedup (`cache_subsystem.cpp`, `dedup_cache.cpp`, `dedup_buffer.h`, `iommu_perf_pt_dedup_flush.cc`, `iommu_perf_pt_cache_response.cc`) | dedup lines, chained buffer entries, update FIFO | suspend, own, upgrade, placeholder, bypass, refresh, flush | PTW requests and group results, callbacks into `iommu_top` |
| Page table walker (`iommu_perf_ptw.cc`) | outstanding walks, walk contexts, prefetch groups | level by level walk, prefetch groups, monitor, aggregate flush | DDR path, walker cache, dedup updates, PT updates |
| Caches (`cache_base.h`, `pt/dc/pc/msipt/walker_cache.cpp`) | sets of lines, replacement state, versions | lookup, fill, invalidate | schedulers and RAM workers of `CacheSubsystem` |
| Invalidation (`cache_subsystem.cpp` 2200-2977, `lazy_invalid_buffer.h`) | LIB entries, global version | record, scan, range, clear, sweep | command queue (blocking call), hash and RAM threads |
| Reorder buffer and output (`iommu_perf_reorder.cc`) | `reorder_buf`, write-order queues, batch | mark ready, collect, launch, release, send | exit threads, ports (freed events) |
| DDR path (`iommu_top.cc` 1268-1510, `test_ddr.cc`, `iommu_ref_api.cc`) | pending queue, outstanding counters, control-path buffer and event | arbitrate, bandwidth, dispatch, pop, demultiplex | PTW, xDTW, MSIPT, MRIF writes, control path |
| Queues and interrupts (`iommu_command_queue.cc`, `iommu_faults.cc`, `iommu_ats.cc`, `iommu_interrupt.cc`) | heads, tails, error flags, ITAG tracker | commands, IOFENCE, fault records, page requests | registers, caches, ATC messages |
| Registers (`iommu_reg.cc`) | register file | reads, writes with WARL rules, enable handshakes | queues |
| Functional translation (`iommu_fun_model/`) | none beyond memory | contexts, two stages, MSI, ATS | sequential calls |
| Replacement (`plru_policy.cpp`, `srrip_policy.cpp`) and hashing | per-set bits | access, victim | caches |
| Statistics, configuration, monitors, test drivers | counters | reports | none |

What is hard: admission limits kept by functions that run on different threads;
events that are lost if nobody waits; a chain of waiting tasks whose only
release is a message that has to come; groups of walks that end, fault or are
bypassed while others wait on them; a version counter of four bits that stands
for the time of an invalidation; RAMs that are swept one by one while fills go
on; and bounded FIFOs in rings.

What makes each component correct:

- path: counters equal the tasks in flight, a task is in exactly one place,
  writes of an ordering domain leave in order, reads never wait for others,
  gated ports get in;
- dedup: chains list exactly the waiting tasks, every line has a refresh
  coming, a task is forwarded once and not while its walk uses it;
- invalidation: nothing covered by a completed command is hit, nothing read
  after it is masked;
- collector: walk counters equal the walks, a task leaves as the sequential
  translation says whatever mix of hits and walks it takes, rings of FIFOs and
  counters do not block;
- DDR: counters equal the accesses on their way, an answer reaches the module
  that asked, the ring of FIFOs does not close;
- command queue: each command runs once and in order, a completed IOFENCE
  covers what came before it, a stop is signalled, every wait ends;
- fault and page request queues: a record is read once and as it was written, no
  interrupt is lost, a page request has one answer;
- walker: each task, cached line and fill says what the sequential translation
  says; each walk gives its place back once.

## 2. Modules

| Module | Models |
|---|---|
| `OrderedResponses` | abstract promise of the path: each accepted request is answered once, writes of one domain in order |
| `RequestPath` | ports, delay lines, parser, exits, reorder buffer, output thread |
| `Dedup` | dedup scheduler, RAM workers, buffer chains, PTW capacity, groups, aggregate flush |
| `LazyInvalidation` | LIB, versions, invalidation pipeline, fills and lookups in between |
| `Collector` | parser dispatch, DC and PC cache threads, the two collector threads, xDTW |
| `CommandQueue` | command queue, IOFENCE.C, ITAG tracker, CQB, CQT, CQCSR, `ipsr.cip` |
| `DdrPath` | walkers' FIFOs, arbiter, DDR, callback, control path, MRIF writes |
| `RecordQueues` | fault queue, page request queue, MSIs and their masks |
| `Walk` | page table walker with walker cache, prefetch groups, monitor, flush; the sequential translation as its reference |
| `MC...` (one for each of the eight) | instances for TLC |
| `...Proofs` (one for each of the eight) | theorems about the module of that name; the lemmas it needs about lists and numbers (`AppendSet`, `TailSet`, `CountTail`, `NaturalsHaveMin` and the like) come first |

The modules meet where one is the environment of another. `RequestPath` sees the
rest of the machine as a set of tasks being translated; `Collector` hands a task on
where `Walk` begins (`Submit`); `Dedup` reduces a walk to its end, `Walk` reduces
the dedup cache to whether a task goes around it; `DdrPath` reduces a walk to its number of
reads, `Walk` and `RecordQueues` the DDR to an answer that comes. `CommandQueue`
reduces a cache command to the wait for the pipeline of `LazyInvalidation`. No two are composed in one
state space: each is near the limit of what TLC covers alone.

### RequestPath

`port[p]` is the call in progress on an inbound port: `"gate"` is the head of
the `while (true)` admission loop, `"dir_freed"` and `"global_freed"` its two
waits. `Admit` is the rest of the function: the counters are raised and the
task enters the delay line. `ParserPop` includes `reorder_register_task`,
because nothing blocks in between. `translating` stands for everything between
the parser and the exits; tasks leave it in any order, at any exit. `Collect`
is one pass of `reorder_output_thread` under the mutex: the ready reads in id
order, then the ready prefix of each write queue. `Launch` and `Release` are the
two halves of the send loop around the bandwidth wait. Both builds of the write
order are values of `QueueOf`: one queue for all, or one per device
(`TEST_CFG_PERDEV_WRITE_ORDER`); `PortOf` covers `TEST_CFG_SPLIT_RW_PORTS`.

Exit FIFOs other than the fault FIFO are deeper than the outstanding limit and
are unbounded here. `SendResponse` is not enabled for the task whose bandwidth
delay is running: the output pipeline delay is 400 ns, the bandwidth delay of a
packet tens of ns.

### Dedup

One action per decision of `execute_dedup_request` (`Suspend`, `Upgrade`, `Own`,
`ConflictBypass`, `BufferFull`, `BypassAfterWait`), of the prefetch branch of the
RAM worker (`Placehold`) and of `execute_dedup_update` (`Refresh`), then one
`FlushEntry` per entry of the chain, because the callback forwards each task
through a FIFO that may block. The walk is reduced to how it ends: with a
group (`GroupEnds`), without prefetch (`LastPageEnds`), with a fault before or
after the group was spawned (`FaultAlone`, `FaultInGroup`). `MarkedBypass` shows
which groups the walker marks: only two-stage ones. The PT cache is left out: a
task may miss it at any time.

### LazyInvalidation

A line is named by its tag; its data is abstracted to its age relative to the
commands: read since the last one ("new"), before it and not covered ("kept"),
covered by the command in progress ("old"), covered by a completed one
("dead"). `Covers` is what a command is for, `ScanHits` what the scan code
compares, `Masked` what a lookup compares with the LIB: the invariants relate the
three. `Untouched` and `Reachable` say what can still reach a RAM: while a
command is at a cache its hash thread serves nothing else, and each RAM worker
takes its work in order. `Drained` is an assumption about the environment: at
a command no walk is in progress that the command covers.

### Collector

Each thread is a record of where it is and the task it holds; a write to a FIFO
that may be full, and the test of a counter before a `wait()`, are steps of their
own. `Gather` is the top of `collector_cache_lookup_result_thread`: the three FIFOs are
drained in the order of the code and the complete entries leave `pending_tasks`
(the code erases them one at a time, but nobody else reads the map and an entry
cannot change while it is complete); `Take` deals with one of them, in id order.
`Answer`, `Resume` are `collector_xdtw_response_thread` before and after the blocking write
of the cache update. `AfterDC` and `AfterPC` are steps 7 to 16, which the code
writes out twice; `WithDC` applies them for either thread. `CheckLimit` and `WriteWalk`
are the `while (outstanding >= MAX) wait(...)` loops and the write to xDTW. A walk is
reduced to its start and its last answer: each walk has at most one DDR read in
progress and the limits of xDTW sum to the depth of `xdtw_req_ddr_fifo`, so that FIFO
never fills. The exit FIFOs are drained by threads that never wait for the collector;
a write there is only a delay. A lookup may miss whatever the cache holds (eviction,
invalidation) and hits only what an update put there. A process id is looked up as
it arrived, before DPE gives the default of 0: `asked` and `req` keep the two apart.

### CommandQueue

A call of `process_commands` is split where memory or the invalidation pipeline
suspends it: `Fetch`, `Execute`, `PipelineDone`, `WriteAnswered`. The second thread,
`"msg"`, delivers completions (`Answer`) and time-outs (`Expire`), both of which go through
`do_pending_iofence_inval_reqs` (`Resume`): a waiting fence is finished there, and may suspend
that thread too. Commands are named by their position, so that `executed` tells whether one is skipped or
repeated. A completion counts the tags it names in order and returns at the first that is not expected, as
the loop of `handle_invalidation_completion` does. `csr` keeps `busy`, `cqen`, `cqon` and the
error bits; `WriteCqcsr`, `WriteCqb`, `WriteIpsr` are the register writes. `process_commands` is called
by the driver threads of the test environment only, and the three ATS entry points by nothing in the
repository: they are modelled as the interface they are.

### DdrPath

`arbiter` is the control state of `ddr_arbiter_thread`; `TestPending` and `TestSlot` are its `if`s,
each followed by a wait that the callback ends, and the loop that goes on after an access
(`processed_any`) tests again with nothing to send (`"again"`). `Send` is the pick, the
push on `ddr_pending_queue` and the `nb_write`, which may drop the access; `Count` comes after the bandwidth delay. `Respond` and
`Deliver` are the callback before and after the blocking write into a walker's FIFO. The data of an
access is its own name, so that an answer delivered to the wrong owner shows. `Call` and `Return` are the control-path functions
before and after their wait; nothing in them looks whether the path is in use, and the history variable `overlapped` holds
the callers whose last call met another use of it.

### RecordQueues

`Record` is the common part of `report_fault` and `handle_page_request`: dropped while the
queue is off or has overflowed, overflow when full, else a write to memory that suspends the
thread; `Continue` is what follows it: the tail, then `generate_interrupt`, whose MSI is another write.
A memory answer wakes every thread that waits (`woken`), because all of them wait for one event. The driver
is an interrupt handler on each CPU that reads ipsr, acknowledges, drains and clears the overflow, in this
order, and register writes that mask, unmask, disable and enable.

### Walk

A scenario gives page tables, root modes, tasks and prefetch depth; pages are numbers with `Fan` entries per table. `Start...` are the four
ways `ptw_req_process_thread` begins a walk, `VsWalk`, `GsImplicit`, `VsPteRead`, `GsExplicit`, `AdUpdate` the phases of
`ptw_rsp_process_thread`, one action for a DDR answer; `Finish` is `walk_complete_handler` branch by
branch, `Fail` the fault handler. `Serve` lets the DDR answer in any order, `Update` lets the walker RAMs
take an update at any later time. `Take` and `Flush` are the monitor and the aggregate flush.
`RefTranslate` and `RefSecond` are translated from the functional model (`iommu_two_stage_trans.cc`,
`iommu_second_stage_trans.cc`) and know nothing of caches or walks; the properties compare the two.
The lookup of the dedup cache that precedes a walk is the field `bypass` of a task. Two tasks of a scenario never ask for the same page,
which the dedup cache would join.

## 3. Runs

Every bound is a CONSTANT set in the cfg. The behaviours of all instances but the two of
`LazyInvalidation` end when the tasks, commands or records they may use are used up: they switch
TLC's deadlock check off, and a real deadlock shows as a violation of a liveness property (`PortsGetIn`,
`Refines`, `EveryMissAnswered`, `EveryTaskLeaves`, `QueueResumes`, `EveryAccessEnds`, `RecordsReachDriver`,
`EveryWalkEnds`). Two of them, `EveryMissAnswered` and `EveryAccessEnds`, say `[]<>` of "nobody waits", which for the finitely many tasks,
walks and calls of an instance is that each is served, and is one formula for TLC instead of one per task. The invalidation runs keep the deadlock check. The type invariants of the modules
after `Dedup` are conjuncts of one of their safety properties (`NeverAhead`, `CountersMatchWalks`, `EachCommandOnce`,
`CountersMatch`, `RecordsIntact`, `OutstandingMatches`).

| Run | Instance | Shows |
|---|---|---|
| `path_split` | 4 tasks, limits 2/1/2, split ports, one write queue | counters equal tasks in flight, no task lost or doubled; implements `OrderedResponses` with its liveness; gates get in |
| `path_perdev` | 3 tasks, limits 3/1/2, 2 devices with a queue each, single port, translations may never end | a ready read, and a ready head of a write queue, do not depend on anybody else |
| `dedup_safety` | 4 tasks, 3 pages of which one faults, one RAM of 2 ways, buffer of 3, PTW of 2 | chains, PTW limit, forwarded once, and not in the middle of a walk |
| `dedup_live` | 4 tasks, 3 pages, one RAM of 2 ways, buffer of 2, every FIFO of 1, PTW of 1, no fault | every line has a refresh coming, bypassed tasks are kept, every miss is answered |
| `collector_walks` | 3 tasks, one device walk and three process walks at a time, xDTW one of each, FIFOs of 1 (parser 2) | counters match walks, one owner each, exits as in the sequential translation, every task leaves |
| `lazy_safety` | 2 PT lines in 2 RAMs and a walker line, LIB of 2, version up to 3 | nothing covered is hit, across wrap-around, full LIB and sweeps |
| `lazy_new` | 2 PT lines that replace each other and a walker line, 2 walks, no wrap-around | nothing fresh is masked |
| `cq_orders` | 4 commands: every mix of invalidations and fences, and illegal, failing and passing ones between; ring of 4, 2 ITAGs, 2 completions per invalidation, one time-out, one restart | commands once and in order; fences; stops signalled; waits end |
| `ddr_ring` | every walker FIFO 1 (DDR 2), limits 2 and 2, DDR one read and one write at a time; two walkers with 3 walks of up to 2 reads, an MRIF write and a control-path call, or one walk and two callers with 3 calls each | answers to their owner, counters, own data, nothing hangs |
| `rq_reports` | queues of 2 (one record), 2 faults, 2 page requests of 2 kinds, one CPU, one vector masked once, one restart | records intact, interrupts, one answer each, records arrive |
| `walk` | 15 scenarios of 2 tasks: Sv39, Sv48, Sv48x4, one and two stages and neither, large pages at each stage, A/D updates, MSI pages, faults, prefetch depth 0 to 2; tables of 4 entries, walker sub tables of one line | equals the sequential translation; caches and fills; places and groups; every walk ends |
| `walk_fault` | 2 tasks, two stages, prefetch depth 1, one page without second stage | violation: section 6 |

Why the bounds are enough. Path: limits of 2 and 3 with more tasks than slots
make each gate wait for its direction and for the global limit; two tasks in a
queue are enough for an overtaking and three for a prefix and a rest. Dedup: a
buffer of two fills with an owner and one waiter, or two owners; three tasks make a
chain of an owner and two waiters and a fourth finds a buffer of three full; three
pages with a prefetch depth of one give overlapping groups, a group at the end of
the page table and a page of its own, and three pages in two ways give conflicts,
where a set is full of lines, or full of requests. In `dedup_live` the worker at a full buffer finds the one place of the PTW taken, while the
update FIFO, the hash stage and its RAM FIFO are full, or while the response thread is blocked on the update FIFO; it never meets both at
once, which would close a ring. With prefetches of two pages it does, and `EveryMissAnswered` does not hold (section 6). With a PTW of 2 the two invariants were checked
apart (611,586 states, no error). The two workers of two RAMs share the
buffer and the PTW only; two RAMs were checked apart from the runs (`RAMS = 2`, `WAYS = 1`,
`BUFFER_SIZE = 2`, `PTW_MAX = 1`: 3.6 million states, no error) and are left out of the runs for
their time. Collector: three requests are enough for a hit, a walk and a failed walk of each kind
to overlap, and each FIFO of one fills; process walks are limited to as many as there
are tasks, because at the limit a ring of threads closes (section 6). Command queue: with two
ITAGs the third invalidation waits for one, a fence may wait behind two with one time-out each, and four
commands fill a ring of four; the counter of completions has three bits and is compared modulo 8, two
completions per request distinguish the first from the last. DDR: at depth 1 each FIFO of the ring is full while the thread before it waits; two
walks of one walker make answers of one walk block the request of the other. In the code the walkers' own limits keep
the number of walks below what the FIFOs take together; with as many walks as `ReqDepth`,
`AXI_MASTER_1_MAX` and `RspDepth` together hold, the ring closes. `MCDdrPath` gives each behaviour one of two loads, all walks or all calls,
since the two share only the arbiter and the DDR. Calls overlap, and calls follow such calls, with the buffer
holding the data of the other caller or the access of an earlier call still on its way; three callers with two calls each were checked apart
(10 million states, no error). Records: a queue of two is full with one
record, so the second overflows, and after the driver has drained it the third fits. Walk: two walks
are enough for one to fill a line the other starts from, at each sub table; one line per sub table
makes every second update evict; a table of 4 entries holds a page with its prefetches and its end. Invalidation: a
LIB of two is full with two tags, and VN_MAX 3 wraps after three commands, so
that records, degraded scans, ranges and sweeps follow each other in each order.

What the instances assume of the environment. `cq_orders`: the driver writes registers and calls only
while no completion is being handled (`Patient`), and a device does not answer after its time-out
(`LateAnswers = FALSE`). `rq_reports`: one thread at a time uses the control path (`Alone`), and a queue is
disabled only with no record on its way (`Quiet`). `lazy_safety`: no walk
straddles a command (`Drained`). `dedup_live`: no page faults, IOVA 0 is not used, placeholders are prompt. `walk`: no main walk faults in the second
stage with its group open, no large page of the first stage lies over smaller ones of the second, and devices with MSI do not prefetch. None of
these is enforced by the code; section 6 says what happens without each.

Fairness. `ThreadFairness` is weak fairness of each thread's step: a SystemC
thread that can run does run, and once a wait condition holds nobody but the
thread itself makes it false, or the thread runs, finds it false and sleeps again, which
is a step too (the two collector threads at one counter); strong fairness is nowhere needed. In `RequestPath` that
a translation ends is assumed separately (`TranslationFairness`), and
`path_perdev` drops it. Offering a request is never fair: the requester may stop. In
`Dedup` the end of each walk is fair: DDR answers. Whether the dedup pipeline
outruns a walk is a matter of time: with `Prompt = TRUE` a group's placeholders
have passed the pipeline (a few cycles per stage) before the group is flushed,
after several DDR reads of 100 ns and more and the 200 ns of the flush
delay. `dedup_live` assumes it; `dedup_safety` does not. Without it
TLC finds a placeholder inserted after its flush, which stays (`dedup_live`, `Prompt = FALSE`, `PTW_MAX = 2`: `NoAbandonedLine`). In `CommandQueue` a suspended call goes
on, and devices answer; the driver owes nothing. In `DdrPath` the arbiter, the DDR and the threads
that take answers are fair; nothing makes a walk or a call start. In `RecordQueues` the driver is
fair as a whole: a CPU that has taken an interrupt ends its handler. In `Walk` the two threads, the monitor and the DDR are fair;
when walker updates reach their RAM is left open.

## 4. Proofs

Each theorem is about `Spec` of its module and holds for every value of the constants that satisfies the named
assumptions of the module. A theorem with a hypothesis of its own names it after ASSUME. The invariants below are
inductive; each was first checked with TLC on the instance of its run. There is one lemma per action, or per part of
the invariant and action.

**RequestPath** (any devices, queues, ports, limits and requests).
`TypeCorrect`: `TypeOK`. `CountersCorrect`: `CountersMatchTasks`. The counters alone are not inductive: raising one is right
only if the admitted id was nowhere in the path, lowering one only if the released task is nowhere else. `Placement` says
so: input queues and batch have no repetition, they and the reorder buffer are disjoint, a task in an input queue is of its
direction. `CInv == TypeOK /\ Placement /\ CountersMatchTasks`.
`OnePlace`: `OnePlaceEach`. `OneInv` spreads `Placement` over the thirteen places of the path: they are apart, every task is at one,
no list holds a task twice, and the reorder buffer knows exactly what is between the parser and the output thread.
`AnswersInOrder`: the safety half of `Refines`; `Init` and each step of the path are `Init` and a step, or a stutter, of
`OrderedResponses`. `OrderInv` says of each place that a write there has none of the earlier writes of its queue behind it, which is what
makes the last step of the path the abstract answer.

**LazyInvalidation** (any lines, commands, LIB size, largest version, number of RAMs).
`VersionsBehind`: `NeverAhead`. `IInv` ties the stage of a command (`at`, `mode`, `pending`) to the lines: a valid line is ahead of the global
version only while a clearing or a sweep has yet to come to its RAM (`Behind`).
`InvalidatedIsGone`: `InvalidatedNeverHit`, and `InvalidationEffective`, the same outside a command that clears
everything when there are such commands. `OldInv` follows what a command invalidates: before the command has completed it
is left only where the sweep or the scan has not been or the LIB outdates it (`OldLines`), afterwards the LIB outdates it (`DeadLines`). Hypotheses: `Drained`, no
second-stage walker line (`NoSecondStage`), no IOTINVAL.GVMA with an address (`NoGpaCommands`).
`FreshLinesHit`: `NewLineHits`, for `LastVn + 1 < VN_MAX`, that is as long as the version does not wrap around. `NewInv`: every LIB entry is at or
behind the global version, and a new line is at it. Walks may straddle commands there.

**Collector** (any directories, requests, limits and depths).
`OneTaskOneOwner`: `OneOwner`. `Places` counts a task in every FIFO, entry, thread, walk and exit, and the sum is one.
`CountersStandForWalks`: `CountersMatchWalks`, from `Places`: a task that begins a walk is in no other, so each counter moves with the
cardinality of the tasks on that walk; the limit is tested and the counter raised in one step.
`SameAsOneByOne`: `SameAsSequential`. Early and late in its way a task still has, or has had defaulted, the request it arrived with (`Phases`); what
a walk has found is present (`Found`), and what the caches and their FIFOs hold is in the directories (`KeysKnown`, `HitsKnown`). Hypothesis
`NoStalePid`: where DPE is set, a request without process id carries the number 0.

**DdrPath** (any walkers, walks, callers, notices; `DepthsAssumption`: `AXI_MASTER_1_MAX` is the least of the three limits, as in the code).
`CountersRight`: `CountersMatch`. `AnswersReachTheirOwner`: `RightOwner`. `Fifos` is the core: the pending queue of the arbiter is what the
DDR has scheduled followed by its request FIFO, in this order, and nothing was dropped; `Limits` counts the slots, and `OneEach` has one
access of a walk on its way as long as it has reads to be answered. `DepthsAssumption` is needed: with `AXI_MASTER_1_MAX` 3 above
`DDR_MAX_OUTSTANDING` 2 the pending queue outgrows its limit by one, because the arbiter tests it before it waits for a slot of the port;
with 2 above `DdrFifo` 1 an access is dropped and every later answer goes to the wrong module.
`AloneGetsItsData`: `OwnDataAlone`, for any callers and calls, without a hypothesis. `UserInv` adds to `IInv` what a caller that met no other use may rely on (`Alone`): as long as it
waits, the one access of the control path on its way is its own and nobody else is in a call; when it is woken, the buffer holds its data and nothing is on its way that could replace it.
It is kept because a call that starts while it waits puts both into `overlapped`, and established because a free path (`PathFree`) has nothing of an earlier call left in any FIFO.

**CommandQueue** (any ring size, ITAGs, completions per invalidation and programs).
`StopAlwaysSignalled`: `StopIsSignalled`, for a driver that acts at any moment: once enabled the queue keeps cie, and no error bit is set
without cip (`Signalled`). `NoWaitForNothing`: `WaitHasReason`, for the same driver, if no device answers after its time-out: `Reasons` says that each request owed
by a device is in the tracker under its tag with the answers so far, so that a completion never names an unexpected tag.
`EachOnceInOrder`: `EachCommandOnce`, for a `Patient` driver. `OrderInv`: the ring holds the names posted last in order (`Rings`), a thread that has a command in hand has the
one at the head and is alone with it (`Heads`, `Gates`). `FenceWaitsForAll`: `FenceMeansDone`, for a `Patient` driver and no late answers; `FenceInv` adds to `OrderInv` that
nothing up to an executed fence is in the tracker, waits for a tag or timed out unreported.

**RecordQueues** (any queue size, CPUs, vectors and assignment of vectors).
`PageRequestsSettled`: `EachPageRequestOnce`, without any hypothesis. `PageInv`: no request is both reported and answered, none is answered twice, and the one that has met
neither is the one in the hands of the message thread.
`InterruptsReachDriver`: `NoLostInterrupt`, if one thread at a time uses the control path (`Alone`) or there is a single CPU. `Standing` needs to know what a thread in the
middle of `release_pending_interrupt` will still clear: `Unmasking` with `Alone`, `Coming` with one CPU. With neither TLC finds an interrupt lost (`rq_reports` with
`Alone = FALSE`, two CPUs and `MaxMasks = 2`): a second CPU takes and acknowledges the message of the unmasking, a new message is put behind
a new mask, and the thread that unmasked then clears `msi_pending`.
`RecordsReachMemory`: `RecordsIntact`, for `Alone` and `Quiet`. `Flight` and `InFlight` say that what is on its way to memory is the record of the one thread at work, for the slot at the tail of a queue
that is on, `Counted` that no more is accepted than was made, `Intact` the ring between head and tail to what was accepted; `PageInv` bounds the answers by the requests.

**Dedup** (any tasks, pages, RAMs, ways, buffer entries, depths, PTW capacity and unmapped pages).
`TypeCorrect`: `TypeOK`. `ChainsIntact`: `ChainsWellFormed`. `ForwardedOnce`: `AnsweredOnce`. `TaskOutlives`: `TaskOutlivesItsWalk`. All four
have no hypothesis and one inductive invariant, `Inv`. The chains alone are not inductive: `Suspend` keeps a chain one only if the task is in no
other entry, a refresh flushes the right chain only if the owner rule has the right owner. `Chains` gives each request line
the list of its entries, without repetition, head to tail; `Entries` has a task in one entry; `Places` says that a task that is asking or held by a worker is nowhere else, that one
that went around has no entry, and that one in the PTW has no result on its way; `Owners` and `LineOwners` tie the line to the walk: the line of
an owner that walks is there, is not suspended and is not being flushed. `Silent` is what the two last theorems read off: nobody is answered twice, and nobody who is still
asking, walking or awaited by a group has been answered. A refresh may take several actions (`FlushEntry`), with the other RAMs at work in between: `HeldOnce` and `Flushes` keep the workers apart.
`BypassNotForgotten`: `BypassedAnswered`, if `TwoStage` and no page faults. `Turned` adds to `Inv` that who went around is in the PTW or in a group that is marked, until it
is answered.
`NothingAbandoned`: `NoAbandonedLine`, if no page faults, page 0 is not at IOVA 0 (`~FirstTable`) and placeholders are `Prompt`. `Kept` says of each line who will refresh it (`Brings`): its
owner, or somebody for a suspended line and a placeholder. It is kept only because `Behind` has every placeholder on its way to the cache behind nothing but its own
group: its owner still walks, or the group still has that page to write.

**Walk** (any scenarios, page tables, caches, limits and prefetch depths; a scenario's addresses are natural numbers).
`PlacesGivenBack`: `OutstandingMatches`, with the types. `GroupsWaitRight`: `GroupCountsWalks`. Neither has a hypothesis. `Inv == Typed /\ Books`. `PlacesCounted`: the counter is the cardinality of the tasks
that hold a place (queued, in a phase, or with an open group), so that each step that raises or lowers it must put one task in or take one out: a fault before the group exists, the end of a lone
walk and the monitor are the only steps that take one out, each once. `PendingCounted` is not inductive by itself: when a group is opened with as many pending as it spawns, no prefetch of that task may run
already, which `InStep` says, together with the order of the main walk's end and the group's.

The hypotheses are the assumptions of section 3 on the environment, and none can be dropped: without `Drained`, `NoSecondStage`, `NoGpaCommands`, `NoStalePid`, `Patient`, `~LateAnswers`, `Alone`, `Quiet`, or across a wrap-around, TLC finds the property of the theorem violated (sections 3 and 6 name the instances; `FenceMeansDone` fails
without `Patient` and without `~LateAnswers`, each alone). On the instance of `dedup_live`, `NoAbandonedLine` fails with `FirstTable = TRUE`, with
`Unmapped <- SecondPageFaults`, and with `Prompt = FALSE` and `PTW_MAX = 2`; `BypassedAnswered` fails with `TwoStage = FALSE` and with `Unmapped <- SecondPageFaults`; it holds there without `Prompt`. Each is satisfied by the instance of the run of that property.

Only model-checked. Liveness and the fairness-dependent half of `Refines` are out of reach of the prover, and so is ENABLED: all temporal properties stay with TLC, except the
safety half of `Refines`, which is `AnswersInOrder`. `SameAsReference`, `CachesRight` and `FilledRight` of `Walk` compare what the walker found with values of recursive functions down a page table:
that is induction over data, which the installed provers cannot do, so they hold on the 15 scenarios of `walk`. Every other invariant of a passing run is stated by a theorem. No module declares a RECURSIVE
operator.

## 5. Plan

1. `CachePipeline`: arbitration of lookup, update and invalidation in PT, DC, PC, MSIPT.
2. The MSIPT cache and walker, and MSI routing, with DC, PC and MSIPT invalidation.

The proofs of what is modelled are done, up to what section 4 leaves to TLC. The new modules need their own: for `CachePipeline` that no
update passes the invalidation it follows, which is the order `LazyInvalidation` takes from each RAM worker.

## 6. Where the code and its own words disagree

The run marked violation, `walk_fault`, keeps one of them: `iommu_perf_ptw.cc:3016` asserts, in the multi-device
build only, that no group with a fault is flushed, since an invalid result must not be refreshed as a successful
translation. A walk that faults with its group open (lines 1774-1806) leads there: the guest address becomes the
result, and in the ordinary build the task is answered with it. The shortest way: the first task leaves the
line of the last page table, the second starts from it with a prefetch, and its own page has no second stage.

Met while modelling. Each is shown by the instance named, with the constants named changed and the property named:

- A result with an invalid PTE must neither be written to the cache nor wake a waiter, say lines 3032-3033 of `iommu_perf_ptw.cc` in the same build only. A
  prefetch that faults leaves PTEs of zero and frame 0 in its slot (1750-1755), and the flush writes that slot to the dedup and the PT cache like the others; the
  fault of a task alone becomes a valid entry, too (321-353, 1811-1816, `iommu_task_cache_convert.cc` 262-326), and a hit asks for nothing but `valid` (line 203). A page
  without translation is filled with a frame, and a later access to it does not fault (`walk_fault`, `Scenarios <- HoleAhead`, or `walk`: `NoInvalidFill`). Such fills occur
  in `walk`; `FilledRight` is about all others: the fills of tasks that do not fault, for pages that have a translation.
- A leaf line of the walker cache is taken for the whole page of the first stage ("append the offset and the translation is done", `iommu_perf_ptw.cc:366`), with the size
  lines 932-934 compute from its leaf alone. Where the second stage has smaller pages, the frame is right for the small page of one access only, and the
  next task is sent to a wrong frame (`walk_fault`, `Scenarios <- MixedSizes`: `SameAsReference`).
- A full dedup buffer bypasses to the PTW without blocking, to avoid a ring of waits, says the comment at `iommu_perf_params.hh:231-233`. The worker does block, until the PTW has
  room (`cache_subsystem.cpp` 2333, 2395, 2484), and the ring closes: the update FIFO is full, so the response thread, which would make room, is blocked on it; the worker's
  RAM FIFO and the hash stage are full of requests, so the scheduler does not dispatch the updates (`dedup_live`, `PREFETCH_DEPTH = 2`: `EveryMissAnswered`). In the code the
  update FIFO holds 1024 entries and the buffer is by default as large as the limit of tasks in flight, so that it never fills; the ring needs a build with a smaller
  `TEST_CFG_PT_DEDUP_BUFFER_SIZE`, as the comment foresees, and a full update FIFO.
- A task suspended behind an owner whose walk faults before its group exists is never answered: the
  recovery call at `iommu_perf_ptw.cc:352` serves another, disabled table (`dedup_live`, `Unmapped <- SecondPageFaults`:
  `EveryMissAnswered`).
- The main task of a bypassed group that faults is dropped: it is in no chain, and the flush forwards it only
  without a fault (`dedup_live`, `Unmapped <- SecondPageFaults`: `BypassedAnswered`).
- The LIB is not emptied by the sweep on wrap-around, as the plan of the invalidation says: the entry that reached VN_MAX masks
  every later line of its tag (`lazy_new`, `Keys <- OneKey`, `Commands <- ByGscid`, `VN_MAX = 2`: `NewLineHits`).
- Second-stage walker lines are served without consulting the LIB (`lazy_safety`, `Keys <- S2Key`, `Commands <- ByGscid`:
  `InvalidatedNeverHit`).
- After a device walk the thread that ends walks waits for a slot for a process walk, which only it can free
  (`collector_walks`, `Requests <- TwoWalks`, `COLLECTOR_MAX_WALK <- OneEach`: `EveryTaskLeaves`). The limit of the code is
  64 walks (`iommu_perf_params.hh:170`).
- A read of the control path copies the "response data" (`iommu_ref_api.cc:62`), but all accesses share one event and one buffer: with a command fetch and a fault record in
  flight the answer to one wakes both callers, and the fetch returns early, with other data (`ddr_ring`: `OwnData`). A record may be
  published before it is written (`rq_reports`, `Alone = FALSE`: `RecordsIntact`).
- A fault queue switched off with a record on its way moves its new tail when the write ends (`rq_reports`, `Quiet = FALSE`:
  `RecordsIntact`); the comment at `iommu_reg.cc:460-465` promises there is none.
- A fence finished by the thread of a completion while the driver restarts the queue moves the new head (`cq_orders`,
  `Patient = FALSE`: `EachCommandOnce`).
- A completion that names a tag that has timed out returns before it resumes what waits for the tags it has freed
  (`cq_orders`, `LateAnswers = TRUE`: `WaitHasReason`).
- An MRIF notice is a plain write of one bit, where `iommu_perf_forwarder_fault_cq.cc:60` speaks of an atomic OR: earlier bits are lost
  (`ddr_ring`, `MrifWrites = {"bit0", "bit1"}`, property `MrifAccumulates`).

- One-stage groups are never marked as bypassed: `dedup_live` with
  `TwoStage = FALSE` violates `BypassedAnswered`.
- The flush skips IOVA 0: `dedup_live` with `FirstTable = TRUE` violates `NoAbandonedLine`
  and `EveryMissAnswered`.
- A walk that straddles a command writes stale data stamped with the new version:
  `lazy_safety` with `Drained = FALSE` violates `InvalidatedNeverHit`.
- A clearing command empties the LIB before the RAMs: lines outdated by earlier commands
  answer again until their RAM is reached (a clearing command in `Commands`).
- IOTINVAL.GVMA with an address, degraded to a scan, compares a GPA with an IOVA (`lazy_safety` with
  `Command("GVMA", 1, None, 2, FALSE)` among the commands and enough others to fill the LIB: `InvalidatedNeverHit`).
- A second ring: the lookup thread sleeps for a device walk slot with missed entries left in
  its pass, `dc_response_fifo` is full, the DC cache thread blocks on it and does not serve
  `dc_update_fifo` (depth 1), the response thread blocks on that. `Collector` closes it with seven tasks
  that all miss the DC cache, limits of 1, `REQUEST_DEPTH` 3 and `RESPONSE_DEPTH` 2, and not with six; in
  the code it takes 64 walks, 17 answers waiting and three missed entries in one pass.
- The process cache is asked before DPE sets the default process id: a request without a valid
  id that carries a nonzero number and hits gets the context of that process
  (`MixedRequests` with `[Plain(1) EXCEPT !.pid = 1]` violates `SameAsSequential`). The drivers in `src/rp` send 0, which is the
  hypothesis `NoStalePid` of `SameAsOneByOne`.
- `release_pending_interrupt` clears `msi_pending` after its write to memory, not before: an interrupt that another CPU's handler
  has let in meanwhile is forgotten (section 4, `InterruptsReachDriver`).
- `XDTW_PDT_GS_IMPLICIT` is never entered: the reads of a process directory are not translated
  by the second stage, as `locate_process_context` in `iommu_process_context.cc` does.
- A prefetch does not tell an MSI page from memory, and its page is filled with the frame behind it (`walk` with the one scenario
  `Scenario(TwoStages, 2, 1, 3, 20, FALSE, 1, {5}, ToMsi(Access(0, "read")), ToMsi(Access(17, "read")))`: `FilledRight`).
- An MSI access cleans the placeholders of its neighbours with updates that name frame 0 (`cache_subsystem.cpp` 2606-2634), which the tasks
  waiting for them take (`walk` with `Scenario(OneStage, 2, 1, Bare, 0, FALSE, 1, {6}, ToMsi(Access(1, "read")), ToMsi(Access(17, "read")))`: `FilledRight`).
- Only read in the walker, in no instance: an A/D update writes the whole PTE it
  had read, so that two updates of one PTE may lose a bit; a walk without a first stage and with prefetch spawns prefetch
  walks that read at frame 0; after an A/D update a leaf of the S2 arrays is taken for a table (line 1652) and MSI is not
  identified; a device with MSI starts from a leaf of the walker cache as if it were a table; the explicit second stage does not
  check U in its leaf.
- `do_iotinval_gvma` uses `gscid_match` and `addr_match` without having set them on every path.
- The outstanding slot is released at the launch, not
  after the response as the head of `iommu_perf_reorder.cc` says.

## 7. Not modelled

Delays and bandwidth, except the orders they impose as named above; statistics, monitors, configuration, HPM counters;
the bit layout of PTEs, contexts and commands and the WARL fields of registers; MSI and hugepage prefetch groups in
`Dedup`, the admission-control build of the dedup cache; the sets inside a RAM, replacement and hashing (a victim is any line); DC, PC
and MSIPT invalidation and the MSIPT pipeline; the levels of a directory walk and the checks of its entries; MSI routing and MSI page
tables; ATS translation responses and the legacy ATC; memory faults of queues (`cqmf` on a fetch, `fqmf`, `pqmf`: the memory functions of this build
never fail); wire interrupts. In the walker: the phase `PTW_PREFETCH_WAIT` (`iommu_perf_ptw.cc` 798-868) and the burst branch (2422-2530), which
nothing reaches, the VA dedup table, which is disabled, Sv32, Sv57 and Sv39x4. The test environment: RP drivers, PCIe NoC, slink, `main`.
