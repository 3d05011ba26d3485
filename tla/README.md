# Verification of prototype-kernel: queues, memory pool, parallel benchmarks, XDP samples

The repository collects what is needed to run kernels on arm64 boards: configurations, build
scripts, a wiki, and a copy of Jesper Brouer's `prototype-kernel`
(`src/DOC/netoptimizer-prototype-kernel/`), which is the only part with a program of its own. The
core logic of that program is a family of concurrent queues (`kernel/include/linux/*.h`,
`kernel/lib/*.c`), a memory pool built on one of them (`kernel/mm/qmempool.c`), the harness that runs
benchmarks on many CPUs at once (`kernel/lib/time_bench.c`) with the benchmarks on top of it, and a
set of XDP samples whose programs run on every CPU while user programs set them up and read their
maps (`kernel/samples/bpf/`). This directory specifies these parts in TLA+, checks the specifications
with TLC, and proves the central facts about the queues, the pool, the benchmarks and the XDP samples
with TLAPS, for every value of the constants. Paths below are relative to `kernel/`.

## Inventory

| Part | State it keeps | Operations | What makes it hard | What makes it correct |
|---|---|---|---|---|
| `alf_queue.h`, `lib/alf_queue.c` | `producer.head/tail`, `consumer.head/tail` (u32, never masked), `ring[]` | `alf_mp_enqueue`, `alf_sp_enqueue`, `alf_mc_dequeue`, `alf_sc_dequeue`; readers `alf_queue_empty`, `_count`, `_avail_space` | any number of CPUs between a load, a `cmpxchg`, a copy and a tail update; counters that wrap; readers with two loads | a bounded FIFO with bulks in one piece; no slot with two owners; a 0 only for a full (empty) queue; nobody stuck while CPUs run |
| `alf_queue_helpers.h` | none | seven store and seven load loops, of which `_unroll` is selected | the wrap of the array, counts that are no multiple of 4 | all write the same slots |
| `ring_queue.h`, `lib/ring_queue.c` | `prod`, `cons` with head, tail, size, mask and watermark; `flags`; `ring[]` | enqueue and dequeue: multi, single, by flags; fixed (`_bulk`) and variable (`_burst`); `set_water_mark`; `full`, `empty`, `count`, `free_count` | as above, plus a watermark that is set meanwhile and a slot that stays free | a FIFO of `size - 1` pointers; fixed calls all or nothing; the quota is reported when it is exceeded; a lone producer's (consumer's) reading is good until it acts |
| `ptr_ring.h`, `skb_array.h` | `producer`, `consumer`, `size`, `queue[]`, two spinlocks; `NULL` means free | produce, consume, full, empty, peek, resize, init, cleanup (each plain, `_irq`, `_bh`, `_any`) | producers and consumers share no lock; resize swaps the array under one of the two | a FIFO; what a resize drops is the newest; no deadlock of the two locks |
| `wfc_queue.h` | linked nodes from `head`, `tail->p` | `wfcq_enqueue`, `wfcq_empty`, `__wfcq_first`, `__wfcq_next`, `__wfcq_dequeue`, `__wfcq_splice`, the iteration macros | an enqueue is an `xchg` and a later link, with a broken chain in between; dequeue, splice and iteration cooperate with it by busy waiting | a linearizable FIFO; a node is in one place; callers need only exclude what the synchronization table excludes |
| `qmempool.h`, `mm/qmempool.c` | per CPU `localq` (SPSC), one `sharedq` (MPMC), the slab behind | `qmempool_create`, `_destroy`, `_alloc`, `_free` (and `_softirq`) | bulks move between three levels while others do the same; any of them may be full, empty or failing | an element is in one place; none is lost; bulks fit where the code says "must succeed" |
| `lib/time_bench.c` | `nr_tests_running`, `start_event`, a kthread per CPU | `time_bench_run_concurrent`, `invoke_test_on_cpu_func` | one counter used as a barrier at the start and at the end; sleep and wake-up; failing `kthread_run` | benches begin together; threads are stopped after their bench; the run returns |
| parallel benchmarks: `lib/skb_array_parallel01.c`, `lib/alf_queue_parallel01.c`, `lib/time_bench_parallel.c`, `mm/bench/page_bench03.c`, `mm/bench/page_bench05_cross_cpu.c`, `mm/qmempool_bench_parallel.c` | a queue or two, the pages on them with their reference counts and the mark `INITED`, the stacks of the loops | filling, the bench function of each CPU, cleaning up | one CPU puts pages that the other one allocates; loops "finish early" when they catch up; two CPUs initialise the same ring | no page is freed while a queue or a CPU has it; what a CPU allocates for itself it frees |
| `samples/bpf/xdp_ddos01_blacklist_{kern,user,cmdline,common}` | BPF maps, pinned as files; the XDP program on the device and the maps it was loaded with; the rules in them | the loader: find or create maps, pin, attach, remove; commands: add, delete, list; the verdict on a packet | a loader that fails or is killed between any two system calls leaves files, maps and a program behind, and the next one takes them over; a listing walks a hash that others change; a port's bits are read, changed and written back | the files are the maps of the attached program; the program drops what the rules say; a listing misses nothing behind its start key |
| other XDP samples (`xdp_rxhash`, `xdp_bench01`, `xdp_bench02`, `xdp_ttl`, `bpf_tail_calls01`), `napi_monitor` | per-CPU counters, one-entry maps for configuration, jump tables, `prog_fd[]`, signal handlers | load, set maps, attach, install handlers, `stats_poll`; the programs on packets | counters are read one map after the other while every CPU goes on counting; a signal between any two steps of `main`; programs that fail to load shift `prog_fd[]`; failed updates, lookups and detaches that nobody looks at | statistics agree with each other; verdicts as asked from the first packet on; nothing is left on the device; tail calls reach the right program |
| `samples/bpf/bpf_load.c` | `map_data[]`, `map_fd[]`, `prog_fd[]` | `load_bpf_file_fixup_map` | maps are found by the order of their symbols, programs by the order of their sections | each use of a map in a program refers to the map of that name |
| sequential tests and benchmarks, `mm/slab_*`, `mm/bench/page_bench0[1,2,4]*` | loop counters | loops of calls | what the models' threads do in every order | |
| scripts, configurations, wiki, documents | none | none | none | none |

`qmempool` calls `alf_queue`, the parallel benchmarks call `time_bench` and a queue, `skb_array` calls
`ptr_ring`: shared memory of CPUs, inline functions and a few locks, without messages or persistence.
The BPF samples consist of programs in the kernel and processes that come and go: they meet in maps,
pinned files, and the hook of a device; all of these survive the process that set them up, which is
where a crash matters. There is nothing to restart in the queues: a CPU does not fail alone.

The complete list of components is in `PROJECT.json`, as is the list of hazards, each at its line.

## Modules

| Module | Models | Abstract specification | Theorems |
|---|---|---|---|
| `AlfQueue` | `alf_queue.h`, the loops of `alf_queue_helpers.h` | `Fifo` | `AlfQueueProofs` |
| `RingQueue` | `ring_queue.h`, `ring_queue.c` | `Fifo` | `RingQueueProofs` |
| `PtrRing` | `ptr_ring.h`, `skb_array.h` | `PtrFifo` | `PtrRingProofs` |
| `WfcQueue` | `wfc_queue.h` | `SpliceFifo` | `WfcQueueProofs` |
| `Qmempool` | `qmempool.h`, `qmempool.c`, on top of what `AlfQueue` shows | | `QmempoolProofs` |
| `TimeBench` | the concurrent runs of `time_bench.c` | | by way of `ParallelBench` |
| `ParallelBench` | the benchmarks on several CPUs; EXTENDS `TimeBench` and composes it with the queues as the FIFOs that `Fifo` and `PtrFifo` promise | `TimeBench` | `ParallelBenchProofs` |
| `XdpBlacklist` | the loader, the commands, the pinned maps and the XDP program of `xdp_ddos01_blacklist`; the maps section of `bpf_load.c` | | `XdpBlacklistProofs` |
| `XdpSample` | the programs and the user programs of five XDP samples and of `napi_monitor` | | `XdpSampleProofs` |
| `MC...` | instances of these for TLC | | |

In all of them a thread is a CPU (or a kthread) inside one call. `pc` says where it is, and an
action is one access to memory that others use, together with the private work before and after it.
The names of labels and locals are those of the C code, and `PROJECT.json` gives the lines behind
each definition. Definitions marked `FAULTY` are never used by a specification: each is the form
that a plausible slip would give the definition it is named after, and replacing the definition by it
makes TLC refute the property that `mutants` names.

**AlfQueue.** Every load of a counter, `cmpxchg`, element copy and tail update is a step. The four
functions share the actions: `MultiProducer` and `MultiConsumer` choose between `cmpxchg` with
waiting and plain stores without. The counters live modulo `W`; the code's 2^32 is one value of it.
`Fifo` has three kinds of steps, an arrival of items, a removal of items, and a hand-over to the
caller; the refinement mapping takes the published slots as the queue, the reservations as what is
asked for or offered.

**RingQueue.** Coarser steps than AlfQueue where only the owner of a reservation can see the
difference: the copy of all pointers is one step, which `SlotsExclusive` justifies, the last test of a
wait is taken together with the store that follows, and a failed `cmpxchg` with the next load. Flags
are chosen at creation, and the watermark moves while calls are under way.

**PtrRing.** A cell that is `NULL` is free; a producer's test and store are two steps under
`producer_lock`, a consumer's look and discard two steps under `consumer_lock`. `ptr_ring_resize`
holds `producer_lock` and takes `consumer_lock` for each pointer it moves.

**WfcQueue.** Every `xchg`, `cmpxchg`, load and store of `next`, `head` and `tail` is a step; two
queues, so that splices go both ways. `Conflicts` is the table of `wfc_queue.h:42-69`: callers keep
apart those pairs and no others.

**Qmempool.** The local queues belong to one CPU, with bottom halves off, so an access to them is
part of the step around it. `sharedq` is used by all CPUs: an enqueue reserves, then publishes, and a
dequeue takes, then releases, as AlfQueue's calls do; publications are not forced into the order of
reservations, which only adds behaviours. Elements in a queue are a set, their order is irrelevant.

**TimeBench.** The thread that runs `time_bench_run_concurrent` and the kthreads, with the task
state that `set_current_state` sets and a wake-up resets.

**ParallelBench.** A bench function is a loop of the thread that TimeBench has in "bench"; each call of a
queue is one step of the FIFO that `Fifo` or `PtrFifo` specifies and `AlfQueue` and `PtrRing` implement, so
the three levels are checked one against the other instead of in one huge state space. `NextAll`
combines a step of TimeBench with what the benchmark does at that point (fill the rings at `Begin`,
enter the loop at `WaitStart`, clean up at the return), or is a step of a bench function. Pages have a
reference count; `alloc_pages` and `put_page` change it.

**XdpBlacklist.** A step is one system call of the loader or of a command. `MaxMishaps` bounds how often
the loader fails or dies, at any of its calls; `Live` says which maps the kernel keeps, so that the
contents of a map vanish with its last file, descriptor and program. `MapData` is the array that
`load_elf_maps_section` sorts and `Relocated` what `parse_relo_and_apply` makes of it. The verdicts
(`XdpProgram`) are operators on the contents of the maps the attached program was loaded with. A listing
walks the addresses in the order of the hash (`Ips`) from the key 0, which is the address 0.0.0.0
(`ZeroIp`): `owed` are the addresses it has still to print, and its first turn may take some off (`Owed`).

**XdpSample.** `Life` is the order of the steps of each `main`; signals come between any two. A packet
starts a program on a CPU, the program is the sequence of the counters it increments, and each
increment is a step, as is each `bpf_map_lookup_elem` of `stats_collect`. Each call that fails does
what the code does about it. Where `main` looks at the result the process exits (`ToolFails`, `AddProgs`);
where nobody does, it goes on: a map that could not be set keeps its zero (`SetMap`), a program that could not
be detached stays (`IntExit`), a counter that could not be read counts as 0 (`LookupFails`). `failed` and
`missed` record these. The end of a process, by whatever way, takes its record with it and empties the jump
tables (`Exit`): the kernel clears a program array with its last descriptor, also under an attached program,
while ordinary maps live on with the program.

## Runs

| Run | Instance | Shows |
|---|---|---|
| `alf_mpmc` | 2 producers, 2 consumers, array of 2, W = 6, single items | counters in order, exclusive slots, honest 0 returns, refinement of `Fifo` |
| `alf_live` | 2 producers, 1 consumer, bulks up to 2 | every reservation completes; lock-freedom |
| `alf_spsc` | the single variants and a reader on a third CPU, bulks up to 3 in an array of 2 | FIFO without `cmpxchg`; wait-freedom; what the readers' answers are worth |
| `ring_all` | array of 4, W = 12, flags MPSC, SPMC, SPSC, fixed 2, bursts of 3, watermark 2 | FIFO of 3, quota, readings of the one producer and the one consumer |
| `ptr_all` | 2 producers, 2 consumers, 1 resizer, sizes 1 and 3 | refinement of `PtrFifo`, with resizes up and down; every call returns |
| `ptr_shrink` | sizes 1 and 2, followed past the end of the array | **violation**: after a resize that fills the new array, `producer = size` |
| `wfc_all` | 2 nodes, 3 threads, 2 of which do everything, 2 queues | refinement of `SpliceFifo`; nodes are in one place; every call returns unless a splice is overtaken |
| `qmem_all` | 3 CPUs, 12 elements, bulk 3, multiplier 2, local 4, shared 8 | an element in one place, none lost but by the bug below, local queues never too full or empty |
| `bench_all` | 11 benchmarks one after the other on subsets of 3 CPUs, rings of 6, 4 loops, `kthread_run` may fail | common start, stop after the bench, every run's benches run; pages are counted right |
| `tb_stop` | TimeBench alone, 3 CPUs, no failures | **violation**: a lost wake-up, the run never returns |
| `blacklist_all` | 3 addresses, 0.0.0.0 the second in the hash, 1 port, 2 mishaps, a command that changes rules, one that lists | files are the maps of the program, which drops what the rules say; listings are complete behind their start key |
| `sample_all` | 6 samples, 2 CPUs, all options, patterns of 0, 1 and 2, one call and one lookup that fail unnoticed | totals agree, verdicts as asked, nothing left on the device, tail calls go where they are meant to, or nowhere |

### Bounds, and why they are enough

* *Array sizes.* Two slots with bulks of two and three give a full queue, an empty one, a refused
  bulk, a bulk around the end of the array and a bulk larger than the array. RingQueue keeps one slot
  free, so it has four.
* *Counter width.* W = 6 for two slots (12 for four): calls run through the wrap many times. W must be a
  multiple of the size and larger than twice the size, as 2^32 is; the assumption says so, and
  nothing else about W is used.
* *NotStale.* No CPU stays between its first load and its `cmpxchg` while W - Size items pass; beyond that
  the `cmpxchg` suffers ABA. For the real width that is about four billion items during a few
  instructions with preemption off. `NotStale` is a guard of the actions that move a head, in
  AlfQueue and RingQueue.
* *MayRead.* A producer or consumer reads only in a ring with single variants on both sides, where its
  reading can mean something to it.
* *Serials.* The items of a producer are numbered modulo `Serials`, which is enough for no two items in
  the queue of one producer, with the sizes chosen, to be confused where order matters. In
  `ptr_all` it is 1: items are told apart by producer only; `ptr_shrink` uses 2, and the theorem
  `ImplementsFifo` holds for every number.
* *InArray, PastEnd.* After the resize of the finding a producer leaves the array. `ptr_all` does not
  follow it there (that is undefined behaviour), `ptr_shrink` takes one further cell: the array is
  padded to a cache line, so the store hits the padding.
* *Exclusive.* `ptr_all` keeps consumers out of a resize. Without that, `ptr_ring_resize` breaks the FIFO
  order (a finding below).
* *Sizes* (view of `qmem_all`). Elements in the same place are interchangeable, so TLC merges the
  states whose sets have the same sizes. `Some` always takes the lowest numbers for the same
  reason. Bulk 3 is the least with which a partial refill succeeds (and loses an element); 12
  elements fill the shared queue and two local ones.
* *SlabFails.* The slab may fail though it has elements, as with a memory limit or fault injection.
* *Overtaken* in `wfc_all`. Of two splices of the same queue one can find the head taken every time it
  looks; TLC shows that loop. The table allows it, and the header promises nothing more for it.
* *Loops, QSize, Prefill, Bulk, Pages* of `bench_all`. Four loops over rings of 6 that hold 3 pages let each
  side catch up with the other, fill and empty the rings, and go through the stack of experiment 1
  (two pages and the third) once. A step that allocates waits for a free page frame (`MemoryLeft`); the ten
  of `Pages` are enough for every run. The benchmarks that use a pool or a slab run on two CPUs, and in the pattern ones
  no allocation fails (the code would free a NULL: a finding).
* *MaxMishaps* = 2 in `blacklist_all`: a loader fails, the next one meets what it left and fails too, a third
  one succeeds. *Ids* = 2: an old map of a name, kept alive by a program, beside a new one.
* *PortFree.* Two processes that change the bits of one port at once lose one of the changes: that is
  in the list of hazards, and the code has nothing against it. `PortFree` keeps them apart.
* *NobodyLists.* No loader is started during a listing: that only bounds the state space.
* *Ips, ZeroIp* of `blacklist_all`: an address before 0.0.0.0 in the hash, 0.0.0.0, and one behind it. The
  order of the addresses stays the same during a run, as it does in a hash map: it depends on the key
  (and on the order of insertion among keys of one bucket, which is left out).
* *Runs* in `sample_all` (`MaxRuns`): how many packets a CPU sees, per sample and CPU. CPU 0 sees four with the
  patterns, which is a whole round of the counter of `N_drop_N_accept` for N = 2, and CPU 1 one; with
  `xdp_rxhash` two and one, with `napi_monitor` one each, with the others two each. `Overrides` lacks
  XDP_ABORTED, which the code cannot express (a finding).
* *MaxFailed* = 1 in `sample_all`: how many different calls fail and are passed over in one process (of the
  map updates and the detach), and how many lookups fail in one record. The theorems hold for every number.
* *Sequential consistency.* Steps take effect in program order. The barriers of the code
  (`smp_wmb`, `smp_store_release`, the full barrier of `cmpxchg`) are what makes that adequate; whether
  each is where it has to be on arm64 is outside these models.

### Fairness

`FairSpec` of AlfQueue, `Spec` of PtrRing, WfcQueue and TimeBench have weak fairness for each thread that is in
a call: a CPU inside a call has preemption (or bottom halves) off, so it continues. Nothing makes a
thread begin a call. PtrRing's locks are ticket spinlocks, so that a waiting thread gets its lock:
strong fairness for its steps. In TimeBench, the loops of the main thread poll on a timer, the kthreads
get a CPU, and a bench function comes to its end; kthread failures and the next run are not fair.
`SpecAll` of ParallelBench has the same: weak fairness of the main thread's steps (without the ones that
begin a run or fail) and of each thread, whose bench functions are now loops with an end of their own.
The other specifications have no fairness: processes may die, packets need not come, and only
safety is checked of them.

## Proofs

Every theorem below holds for all values of the constants that the named assumptions admit. A proof
rests on these assumptions and on the guards of the actions, and on nothing else. In each module a
property is first strengthened to an inductive invariant `IInv` (which TLC checked on the
instances of the runs before it was proved), and the proof has one lemma per action.

| Module | Theorem | Statement |
|---|---|---|
| `AlfQueueProofs` | `TypeCorrect` | `Spec => []TypeOK` |
| | `CountersStayOrdered` | `Spec => []CountersOrdered`: consumer.tail, consumer.head, producer.tail, producer.head in this order, within one array size, modulo W |
| | `NoSlotShared` | `Spec => []SlotsExclusive` |
| | `RefusalsHonest`, `ZeroesHonest` | `Spec => RefusedOnlyIfFull`, `Spec => ZeroOnlyIfEmpty` |
| | `EmptyHonest`, `CountsHonest` | `Spec => EmptyIsTrue`, `Spec => CountsNeverLow` |
| | `Refinement` | `Spec => ImplementsFifo` |
| `RingQueueProofs` | `TypeCorrect`, `NoSlotShared` | `Spec => []TypeOK`, `Spec => []SlotsExclusive` |
| | `QuotaReported` | `Spec => QuotaNeverMissed` |
| | `ReadingsReliable` | `Spec => ReadingsKept` |
| | `Refinement` | `Spec => ImplementsFifo`, for all four choices of the flags |
| `PtrRingProofs` | `TypeCorrect` | `Spec => []TypeOK` |
| | `ImplementsFifo` | `Exclusive /\ ~PastEnd => (Spec => ImplementsPtrFifo)` |
| `WfcQueueProofs` | `TypeCorrect` | `Spec => []TypeOK` |
| | `LinksAreSafe` | `Spec => []LinksMeetEnds`: a link meets a NULL, in a node that is in use |
| | `NodesAreHandedOnce` | `Spec => []NodesHandedOnce`: a node is returned to one caller, and not while it is free |
| | `NodesAreConserved` | `Spec => []NodesConserved`: every node is free, in one queue or in the hand of one call, once |
| | `RefinesSpliceFifo` | `Spec => ImplementsSpliceFifo` |
| `QmempoolProofs` | `TypeCorrect`, `ElementsInOnePlace`, `LocalqMustSucceed` | `Spec => []TypeOK`, `[]OnePlace`, `[]LocalqNeverDies` |
| | `OnlyPartialRefillForgets` | `Spec => NothingForgotten` |
| `ParallelBenchProofs` | `BenchesRunOnTimeBench` | `SpecAll => Init /\ [][Next]_vars`: the benchmarks are behaviours of TimeBench |
| | `TypeCorrect`, `BenchesStartTogether`, `StopsAfterBenches` | `SpecAll => []TypeOK`, `[]StartTogether`, `[]StoppedAfterBench` |
| | `PagesAccounted` | `SpecAll => []PagesCounted`: no page is in two places, none is free while somebody has it, and no benchmark whose CPUs work for themselves leaks one |
| `XdpBlacklistProofs` | `TypeCorrect`, `FilesAreOfProgram`, `RulesAreKept`, `ListingsComplete` | `Spec => []TypeOK`, `[]FilesOfProgram`, `[]RulesKept`, `[]ListComplete` |
| `XdpSampleProofs` | `RecordsConsistent` | `Spec => []TotalsOrdered`: what a user program has read of the records of all CPUs, one lookup at a time, keeps the order of the programs' increments |
| | `VerdictsHonest`, `InterruptCleansUp`, `TailCallsLead` | `Spec => []VerdictsAsAsked`, `[]NothingLeft`, `[]CallsAsMeant` |

**AlfQueueProofs.** `CountersOrdered` is not inductive: a producer whose `cmpxchg` is about to succeed moves a head
by a count computed earlier from two loads. Why is that count still good? The loads are ordered (head,
then tail) and the tail only moves away from the head, so the space can only have grown, provided the
head has not moved, and that is what `cmpxchg` tests (modulo the wrap, which `NotStale` bounds).
`IInv` says this: `SnapshotsFresh` bounds the age of a first load, `ReservationsFit` says that a
reservation about to succeed fits now, `ProducersApart` and `ConsumersApart` that reservations lie between
tail and head in disjoint pieces, with a publisher's piece at the tail, `SinglesAlone` that without
`cmpxchg` the only caller knows the head, `StoredSoFar` that what a producer stored stays in its slots, and
`Locals` what the locals of a call are worth at each label. The proof splits per conjunct and per
action (`EnqReserveMoves`, `SnapshotsStep`, `ApartStep`, ...), on top of lemmas about u32
subtraction (`DistIs`, `DistAdd`, `LeadMoves`, `TrailMoves`) and about slots (`SlotInjective`: two
counters less than Size apart have different slots, although the counters wrap). `NoSlotShared`
follows from the disjoint pieces and `SlotInjective`; the theorems on answers, those of the readers
included, are action properties from `IInv`.

**AlfQueueProofs, refinement.** The contents of the FIFO are a row of the array (`Row`), from consumer.head as far as
producer.tail. Storing an item changes no row that counts, neither the contents (`SlotsDiffer`: the
producer's slot lies beyond producer.tail) nor what a consumer has still to load (`ReservedApart`). The
store to producer.tail lengthens the row by what `StoredSoFar` says is in the slots, the caller's array;
the move of consumer.head cuts it in two (`RowParts`), the consumer's part and the new contents; a load moves
one item from the row to the caller's array (`RowPush`). All other steps leave the FIFO as it is. One more
invariant is needed, `Rests`: a consumer outside of a call asks for nothing.

**RingQueueProofs.** The same idea, with distances measured from `cons.tail`, so that no two of them have to be
compared around the wrap: `Ordered` puts the four counters in a row, and each thread has its own part
(`ThreadOK`): `Fresh`, how old its first load may be; `Fits`, that the free entries it computed are still
there if its `cmpxchg` succeeds (which fails for the stale counts above the size, a finding below);
`Piece`, where the slots it reserved lie; `Alone`, what the only caller of a single variant knows;
`Readings`, what a reader has seen and the other side cannot undo. `Apart` keeps the pieces disjoint,
`Published` says that only the holder of the piece at the tail may publish. `SoloAssumption` is what the single
variants ask of their callers: one producer, one consumer.

`Refinement` follows the argument of `AlfQueueProofs`, with `FifoInv` beside `IInv`: `Called` (a call leaves
nothing behind, and a fixed one moves all it was asked for) and `Copied` (a producer that waits for its turn
to publish has its pointers in its slots). The copy is the delicate step: `CopyWrites` says that ENQUEUE_PTRS
writes the reserved slots and no others, wherever they wrap, and `HeldApart` that no other piece and no
published slot is among them.

**PtrRingProofs.** Two invariants. `IInv` (types, who holds which lock, what a thread between its two steps
knows of the cell it looked at) needs no hypothesis. `RunInv` adds that the cells in use are one run,
from the consumer to the producer around the end of the array (`Run`), that a moving
`ptr_ring_resize` has the producer lock and a prefix of the run in its new array (`Inside`, `Moving`), and
that a thread's test still holds at its store or discard (`Kept`). With `Exclusive` and without `PastEnd`,
the two findings about resize excluded, every step is a step of `PtrFifo` or a stutter: one
`...Step` lemma per action. Resizes that shrink, grow and drop are part of it.

**WfcQueueProofs.** The invariant `IInv` does not walk the chain: `Ways` says that a node in use has exactly one
pointer to it (the next of a node in use, or a call that brings it), `Ends` that each place where a link
may come (a tail, a call about to link, a head whose nodes were taken) belongs to one queue or call,
and is NULL. Each step moves one or two of these pointers. `Alone` is what the synchronization table gives a
dequeue or an iteration, and `Dequeues` what a dequeue therefore knows of the first two nodes. Without `Ends`,
`TypeOK` is not provable: that `__wfcq_splice` takes a node as its last one depends on its having taken
the first.

**WfcQueueProofs, rows and refinement.** What is *in* a queue is defined by a walk (`Chain`), about which the
provers cannot induct. So the proof carries the result of the walk along: `Layout(s)` says that `s`
gives each queue and each thread a row of nodes, that each node that is not free is in one row once
(`Apart`), that neighbours in a row are linked (`Linked`: by a next pointer, or by a call that is going to set it),
and that a row starts where the head, or the call that took it, points to and ends at the tail. `Tracked` says
that there always is such an `s`: each action has a lemma that gives the rows after it, an append joins two
rows (`AppendLayout`), a dequeue drops the first node (`EmptyLayout`, `MoveLayout`), a splice takes a whole row
into its hand (`SpliceLayout`), and every other step leaves the rows as they are. That `IInv` gives a node
only one successor (`LinkedOnce`) and a tail none (`TailIsLast`) is what makes these lemmas true. `ChainOf` then shows
that the walk reads the row: at the least index where it did not, the one before would contradict it; that is
well-foundedness of the naturals, which the library states without an operator parameter. The walk
ends within Cardinality(Nodes) steps because a row repeats no node, and so the assumption on the
constants includes that there are finitely many nodes. From `Mapped`, `NodesConserved` is counting, and the
refinement has one `...Step` lemma per action; for iterations `Iter` says that what was visited is a
beginning of the row, which concurrent appends only lengthen. The rows were checked by TLC as an invariant of
the instance before they were proved.

**QmempoolProofs.** `OnePlace` says that the places of an element are disjoint; the difficulty is in the counts, as
the code decides by the fill levels of queues, never by elements. `Slots` ties the two: what a queue has
promised to calls on their way, together with what is in it, does not exceed its size, and what it
has published is there. `Hands` says what a CPU holds at each label, `Apart` that no two places share
an element. `LocalqNeverDies` follows from the sizes that `qmempool_create` accepts.
`OnlyPartialRefillForgets` is an action property: in every step but the one of the finding, an element
that is somewhere stays somewhere.

**ParallelBenchProofs.** `WhenSpawning`, `WhenRunning`, `WhenStopping` and `WhenIdle` say where threads may be in each
phase of the main thread; `Counter` says that `nr_tests_running` is the number of threads between
`atomic_inc` and `atomic_dec`, so that a count equal to the number of CPUs means that all have arrived
and a zero later that all have left. The theorem `BenchesRunOnTimeBench` then carries what holds of
the harness over to each benchmark.

For the pages, `Rows` reads all that can hold one as rows of a table: the two rings, the page that a CPU has
in its hands, and its stack. Each step of a bench function takes the first element of a row away, adds one
at its end, moves one from row to row, or empties a row, so the lemmas `RowPop`, `RowPush`, `RowMove`,
`RowClear` and `RowPopClear` about any such table carry `Once` (no page twice) through all of them. `Held` is
the second part of `PagesCounted`, and `Own` the third one. They are not inductive without `TwoRefs`: that a
page can be given back in experiment 3 depends on its second reference, which each CPU puts on only some of
the pages. The ring tells who is done: the pages with two references are the last ones
on it, as long as no CPU has left the first loop; so the CPU that finds the first page marked knows the
same of all others (`InitedLast`), and from then on every page of ring 1 has two
(`LastHave`). `Unstarted` and the theorem about the harness say that no other CPU is in an earlier loop of
another run. That the page `alloc_pages` returns is in nobody's hands is `FreePageIs`, from `Held` and the
guard `MemoryLeft`.

**XdpBlacklistProofs.** The invariant follows a map through its life. `Private`: a map just created is empty, and no
file, program or command knows it. `Loader`: each descriptor of a loader is such a new map or the one
behind the file. `DeadEmpty`: what nobody refers to has no contents, so an identifier can be used
again. `Agree`: the files are the maps of the program, unless a loader has warned. `Held`: the maps
behind the files hold the rules that were asked for; `Bits`, that the bits a command is about to write back
for a port are those of the map, which is where `PortFree` is needed. `Listing`: every
address that was there all along is printed or still ahead of the key, or at its first turn not behind `ZeroIp` in a
map that has 0.0.0.0: then it is not owed.

**XdpSampleProofs.** `MainInv` says how far a `main` is by what it has done: what it has loaded, set, attached,
handled; a signal handler may take over at any place, and `InterruptCleansUp` follows from what each place has
to undo. For the counters, a program's increments are a short sequence and a CPU may be between any two of
them: `Within` and `Balance` relate the records of one CPU up to the increments still to come (`Due`,
`Coming`, `Hashed`, `Drops`), and `Pattern02` ties the drops to the counter of `N_drop_N_accept` by lemmas about
division and remainder. `stats_collect` reads CPU by CPU while packets arrive; `InOrder` and `ReadSoFar` say what the
sums it has so far are worth, which needs the order of the lookups. A sum over CPUs is the cardinality
of a set of units (`Units`), so that the proofs need no induction over the CPUs. `TailCallsLead`
rests on `AllLoaded`: the programs are loaded in the order of their sections, and four of four in order are all.
What fails unnoticed is part of the invariant: `Configure` says that at each place of `main` every map that is
behind it holds what `Meant` says (the argument, or zero if its update is in `failed`), and the ones ahead hold
zero, so that `conf` is `Meant` from the attach on. `Quiet` says that nothing has been counted up to the attach,
while maps still change. What a record says of two sums (`VerdictsRead`, `RxRead`) is asked only where the
lookup of the larger one has not failed; a smaller one that was missed is 0, which is never too much
(`LookupFailsStats`).

*Only model-checked:* the liveness properties, `CallsReturn` of three modules, `ReservationsComplete`,
`SomeoneGetsThrough` and `BenchesRun`, as fairness and ENABLED are outside the prover. Every invariant,
action property and refinement of the passing runs is a theorem, that of `PtrFifo` under the two
hypotheses above, which exclude the findings about resize.

## What the checks found

Each is in `PROJECT.json` under `findings`, with the lines and the words of the code it disagrees with.

Queues and pool:

1. `ptr_ring_resize` leaves `producer` equal to the size when it fills the new array (run `ptr_shrink`).
2. `ptr_ring_resize` lets consumers in between the pointers it moves, which breaks the FIFO order
   (`Exclusive` keeps them out of `ptr_all`; TLC refutes `ImplementsPtrFifo` as soon as it is FALSE).
3. A refill of qmempool that runs into an empty slab forgets one element, or dies when it got
   fewer than two (`NothingForgotten` excepts this step, and says so).
4. `qmempool_create` that fails half way calls `qmempool_destroy` on queues that do not exist, and
   `qmempool_free_softirq` does not call the softirq variant.
5. `ring_queue_full` as seen by a third CPU may be TRUE for an empty ring; `ring_queue_create(0)`
   passes the test for powers of two; the watermark is reported one pointer early; the bounds
   that comments give for `free_entries` and `entries` do not hold for stale loads (harmless).
6. Comments of `alf_queue_count` and `alf_queue_avail_space` call a masked difference "the same": it is not for
   a full or an empty queue, and the available space can exceed the size for a third CPU.

Harness and benchmarks:

7. `invoke_test_on_cpu_func` sets its task state after it has counted itself out: `kthread_stop` can come in
   between, and then both threads wait for good (run `tb_stop`).
8. `time_bench_run_concurrent` returns at a failed `kthread_run` and leaves threads behind that use its
   caller's stack.
9. `page_bench05_cross_cpu`: a CPU that comes late to experiment 3 gives a page a third reference; experiment 1 forgets
   each third page; experiment 3 drops the pages that are left on its first queue. `PagesCounted`
   says what holds besides.
10. The pattern benchmarks of qmempool free all pointers of an array, those that an allocation left NULL
    included.

BPF samples:

11. `remove_xdp_program` unlinks the files even if the program could not be detached, and clearing statistics
    when a rule is deleted races with the programs that count.
12. The listing of ports ends before port 65535; that of addresses starts behind 0.0.0.0 when that is in the map,
    and shows neither it nor what comes before it in the hash (`ListComplete` excepts them).
13. `ksym_cmp` truncates a 64-bit difference to an int.
14. `xdp_rxhash` tests an unsigned action for being negative: an unknown name is not refused.
15. `bpf_tail_calls01` installs its signal handlers after it has attached its program; when it dies so, the
    program stays with empty jump tables.
16. `napi_monitor` subtracts two counters of moving CPUs as unsigned numbers: the result may wrap.
17. Three results that nobody looks at in the samples: a map update that fails leaves its default to the
    program that is attached next (`Meant` in `VerdictsAsAsked`); a lookup that fails is recorded as 0
    (`missed` in `TotalsOrdered`); a detach that fails leaves the program (`failed` in `NothingLeft`). TLC
    refutes each property without its exception.
18. The blacklist takes the bytes behind the first 20 of an IPv4 header for ports, with options or fragments, too.

## What is not modelled

* The measurements of `time_bench`, statistics and printing: arithmetic on clock readings.
* Memory ordering weaker than sequential consistency, and interrupts that enter a queue on the CPU of
  a call under way: the headers leave both to barriers and to their callers.
* `ring_queue_create(0)` and `ptr_ring_init` of size 0: one bad argument each; the assumptions on
  the constants exclude them.
* The variants of `alf_queue_helpers.h` that are not selected.
* The sequential tests and benchmarks of the queues, of the pool, of pages and slabs, and the runs of the
  parallel benchmarks on one CPU for comparison: loops of calls that the models make in every order.
* Of the BPF samples: the drop counters and the listing of ports of the blacklist, ELF and netlink
  parsing, kprobes and tracepoints in the loader, and `tc_bench01_redirect`, whose user program
  only runs `tc` and writes one entry of a map.
* Scripts, kernel configurations, documents and the wiki: no state of their own.

## Plan

What is left, the most valuable first:

1. `AlfHelpers`: the fourteen loops as operators, against the slots that AlfQueue writes and reads.
2. The failing paths of `qmempool_create`, and softirqs that enter the local queue.
3. The counters and the listing of ports of the blacklist, and `tc_bench01_redirect`.
