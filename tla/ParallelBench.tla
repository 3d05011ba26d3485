---------------------------- MODULE ParallelBench ----------------------------
(* The benchmarks that run on the threads of TimeBench: the even CPUs fill a *)
(* queue, the odd ones empty it (skb_array_parallel01.c,                     *)
(* alf_queue_parallel01.c, mm/bench/page_bench05_cross_cpu.c), or each CPU   *)
(* works for itself (time_bench_parallel.c, mm/bench/page_bench03.c,         *)
(* mm/qmempool_bench_parallel.c).  The queues are the FIFOs that Fifo and    *)
(* PtrFifo promise; a call is one step.                                      *)
EXTENDS TimeBench, Sequences

CONSTANTS
    Benches,  \* the benchmarks run
    Even,     \* the CPUs with an even number
    Two,      \* CPUs 0 and 1
    Pages,    \* page frames
    Fake,     \* the "fake pointer" that most benchmarks pass around
    None,
    QSize, Prefill, Loops, Bulk

WithFakes == {"skb_array", "alf_queue", "alf_bulk", "ptr_ring"}
WithPages == {"alloc_put", "experiment1", "experiment3"}
OnTheirOwn == {"locks", "order0", "fastpath", "pattern"}

ASSUME BenchAssumption ==
    /\ Benches \subseteq WithFakes \cup WithPages \cup OnTheirOwn
    /\ Even \subseteq Cpus /\ Two \subseteq Cpus
    /\ {Prefill, Loops} \subseteq Nat /\ {QSize, Bulk} \subseteq Nat \ {0}
    /\ 2 * Prefill <= QSize
    /\ 1 .. QSize + Loops \subseteq Pages /\ Pages \subseteq Nat \ {0}
    /\ Fake \notin Pages /\ None \notin Pages

VARIABLES
    bench,    \* what run_parallel was called with
    ring,     \* its queues
    ref,      \* the reference counts of the pages; 0: not allocated
    inited,   \* the pages whose private field is INITED
    body      \* the bench function of each CPU: its place, count and locals

pages    == <<ref, inited>>
benching == <<bench, ring, pages, body>>
allVars  == <<vars, benching>>

NoBody == [pc |-> "none", i |-> 0, page |-> None, stack |-> << >>]

InitAll ==
    /\ Init
    /\ bench = "none" /\ ring = [q \in 1 .. 2 |-> << >>]
    /\ ref = [p \in Pages |-> 0] /\ inited = {}
    /\ body = [c \in Cpus |-> NoBody]

-----------------------------------------------------------------------------
(* The callers of run_parallel                                               *)

Fakes   == [j \in 1 .. Prefill |-> Fake]
NoRings == << << >>, << >> >>

(* init_queue of skb_array_parallel01.c and alloc_and_init_queue of          *)
(* alf_queue_parallel01.c: the queue is filled in part.                      *)
SkbRing  == <<Fakes, << >> >>
AlfRing  == <<Fakes, << >> >>

(* init_queue of page_bench05: with fake pointers, or with the n-th pages.   *)
PtrRing(n) == IF n = 0 THEN Fakes ELSE [j \in 1 .. Prefill |-> (n - 1) * Prefill + j]

(* Pages that a run has lost stay lost; the next one gets others.            *)
BeginBench(b, m, queues) ==
    /\ b \in Benches /\ Begin
    /\ mask' = m /\ bench' = b /\ ring' = queues
    /\ ref' = [p \in Pages |->
                  IF \E q \in 1 .. 2, j \in 1 .. QSize :
                       j \in DOMAIN queues[q] /\ queues[q][j] = p
                  THEN 1 ELSE 0]
    /\ inited' = {} /\ body' = [c \in Cpus |-> NoBody]

(* skb_array_parallel01.c                                                    *)
SkbTwoCPUs      == BeginBench("skb_array", Two, SkbRing)
SkbManyCPUs     == BeginBench("skb_array", Cpus, SkbRing)

(* alf_queue_parallel01.c                                                    *)
AlfTwoCPUs      == BeginBench("alf_queue", Two, AlfRing)
AlfManyCPUs     == BeginBench("alf_queue", Cpus, AlfRing)
AlfManyCPUsBulk == BeginBench("alf_bulk", Cpus, AlfRing)

(* page_bench05_cross_cpu.c                                                  *)
PtrRingCrossCPU     == BeginBench("ptr_ring", Two, <<PtrRing(0), << >> >>)
AllocPutCrossCPU    == BeginBench("alloc_put", Two, <<PtrRing(1), << >> >>)
Experiment1CrossCPU == BeginBench("experiment1", Two, <<PtrRing(1), << >> >>)
Experiment3CrossCPU == BeginBench("experiment3", Two, <<PtrRing(1), PtrRing(2)>>)

(* time_bench_parallel.c, page_bench03.c and qmempool_bench_parallel.c: the  *)
(* online CPUs, or as many as a module parameter says.  Bound: of those that *)
(* use qmempool or a slab, two.                                              *)
TimingTests       == \E m \in SUBSET Cpus : BeginBench("locks", m, NoRings)
AllocAllCPUs      == BeginBench("order0", Cpus, NoRings)
AllocLimitedCPUs  == \E m \in SUBSET Cpus : BeginBench("order0", m, NoRings)
FastpathSlab      == \E m \in SUBSET Two : BeginBench("fastpath", m, NoRings)
FastpathQmempool  == \E m \in SUBSET Two : BeginBench("fastpath", m, NoRings)
NPatternSlab      == \E m \in SUBSET Two : BeginBench("pattern", m, NoRings)
NPatternQmempool  == \E m \in SUBSET Two : BeginBench("pattern", m, NoRings)

RunParallel ==
    SkbTwoCPUs \/ SkbManyCPUs \/ AlfTwoCPUs \/ AlfManyCPUs \/ AlfManyCPUsBulk
        \/ PtrRingCrossCPU \/ AllocPutCrossCPU \/ Experiment1CrossCPU \/ Experiment3CrossCPU
        \/ TimingTests \/ AllocAllCPUs \/ AllocLimitedCPUs
        \/ FastpathSlab \/ FastpathQmempool \/ NPatternSlab \/ NPatternQmempool

(* ptr_ring_cleanup with destructor_put_page, for each ring.                 *)
OnRing(q) == {ring[q][j] : j \in 1 .. Len(ring[q])}
CleanUp ==
    /\ ring' = [q \in 1 .. 2 |-> << >>]
    /\ ref' = [p \in Pages |-> IF p \in OnRing(1) \cup OnRing(2) THEN ref[p] - 1 ELSE ref[p]]
    /\ UNCHANGED <<bench, inited, body>>

-----------------------------------------------------------------------------
(* The bench functions                                                       *)

At(c, pc)     == thread[c] = "bench" /\ body[c].pc = pc
Becomes(c, b) == body' = [body EXCEPT ![c] = b] /\ UNCHANGED <<vars, bench>>

(* After the loop, or its "finish_early".                                    *)
Leaves(c) == Becomes(c, [body[c] EXCEPT
                 !.pc = IF bench = "experiment3" THEN "drain" ELSE "done", !.page = None])
Counts(c, n) == [body[c] EXCEPT !.pc = "loop", !.i = @ + n, !.page = None]

Room(q, n)  == Len(ring[q]) + n <= QSize
Put(q, s)   == ring' = [ring EXCEPT ![q] = @ \o s]
Drop(q, n)  == ring' = [ring EXCEPT ![q] = SubSeq(@, n + 1, Len(@))]

(* One loop of the many that pass fake pointers.  A bulk dequeue that finds  *)
(* fewer elements than it wants takes those, and the loop ends.              *)
EnqOrDeq(c, n) ==
    /\ At(c, "loop")
    /\ IF body[c].i < Loops /\ c \in Even /\ Room(1, n)
       THEN Put(1, [j \in 1 .. n |-> Fake]) /\ Becomes(c, Counts(c, n))
       ELSE IF body[c].i < Loops /\ c \notin Even
       THEN /\ Drop(1, n)
            /\ IF Len(ring[1]) >= n THEN Becomes(c, Counts(c, n)) ELSE Leaves(c)
       ELSE Leaves(c) /\ UNCHANGED ring
    /\ UNCHANGED pages

SkbArrayLoop(c) == bench = "skb_array" /\ EnqOrDeq(c, 1)
PtrRingLoop(c)  == bench = "ptr_ring"  /\ EnqOrDeq(c, 1)
AlfLoop(c)      == bench = "alf_queue" /\ EnqOrDeq(c, 1)
AlfBulkLoop(c)  == bench = "alf_bulk"  /\ EnqOrDeq(c, Bulk)

(* alloc_pages gives the first free page.  Bound: there is one, which is a   *)
(* guard of each step that allocates.                                        *)
MemoryLeft == \E p \in Pages : ref[p] = 0
FreePage   == CHOOSE p \in Pages : ref[p] = 0 /\ \A o \in Pages : ref[o] = 0 => p <= o

(* The page that a full ring refuses is not put.                             *)
AllocAndEnqueue(c) ==
    /\ At(c, "loop") /\ c \in Even
    /\ UNCHANGED inited
    /\ IF body[c].i >= Loops THEN Leaves(c) /\ UNCHANGED <<ring, ref>>
       ELSE /\ MemoryLeft
            /\ ref' = [ref EXCEPT ![FreePage] = 1]
            /\ IF Room(1, 1)
               THEN Put(1, <<FreePage>>) /\ Becomes(c, Counts(c, 1))
               ELSE Leaves(c) /\ UNCHANGED ring

(* put_page, of each page of a sequence.                                     *)
PutPages(s) == ref' = [p \in Pages |-> IF \E j \in 1 .. Len(s) : s[j] = p
                                       THEN ref[p] - 1 ELSE ref[p]]

DequeueAndPut(c) ==
    /\ At(c, "loop") /\ c \notin Even
    /\ UNCHANGED inited
    /\ IF body[c].i < Loops /\ ring[1] # << >>
       THEN PutPages(<<Head(ring[1])>>) /\ Drop(1, 1) /\ Becomes(c, Counts(c, 1))
       ELSE Leaves(c) /\ UNCHANGED <<ring, ref>>

AllocPutLoop(c) == bench = "alloc_put" /\ (AllocAndEnqueue(c) \/ DequeueAndPut(c))

(* Two pages are kept on a stack; when there is a third one the two are put  *)
(* and the third one is forgotten.                                           *)
StackPages(c) ==
    /\ At(c, "loop") /\ c \notin Even
    /\ UNCHANGED inited
    /\ IF body[c].i < Loops /\ ring[1] # << >>
       THEN /\ Drop(1, 1)
            /\ IF Len(body[c].stack) < 2
               THEN /\ Becomes(c, [Counts(c, 1) EXCEPT
                                     !.stack = Append(@, Head(ring[1]))])
                    /\ UNCHANGED ref
               ELSE /\ Becomes(c, [Counts(c, 1) EXCEPT !.stack = << >>])
                    /\ PutPages(body[c].stack)
       ELSE Leaves(c) /\ UNCHANGED <<ring, ref>>

Experiment1Loop(c) == bench = "experiment1" /\ (AllocAndEnqueue(c) \/ StackPages(c))

-----------------------------------------------------------------------------
(* time_cross_cpu_page_experiment3: pages go round, with two references on   *)
(* ring 1 and one on ring 2.  First both CPUs put the second reference on    *)
(* the pages of ring 1; each takes out the first page it finds done.         *)
InitTake(c) ==
    /\ At(c, "init")
    /\ IF ring[1] = << >> \/ Head(ring[1]) \in inited
       THEN Becomes(c, [body[c] EXCEPT !.pc = "loop"])
       ELSE Becomes(c, [body[c] EXCEPT !.pc = "mark", !.page = Head(ring[1])])
    /\ IF ring[1] = << >> THEN UNCHANGED ring ELSE Drop(1, 1)
    /\ UNCHANGED pages

(* "Cannot fail": the rings hold twice the pages that there are.             *)
InitMark_Down(c) ==                \* FAULTY: counts down for up
    /\ At(c, "mark")
    /\ inited' = inited \cup {body[c].page}
    /\ ref' = [ref EXCEPT ![body[c].page] = @ - 1]
    /\ Put(1, <<body[c].page>>)
    /\ Becomes(c, [body[c] EXCEPT !.pc = "init", !.page = None])

InitMark(c) ==
    /\ At(c, "mark")
    /\ inited' = inited \cup {body[c].page}
    /\ ref' = [ref EXCEPT ![body[c].page] = @ + 1]
    /\ Put(1, <<body[c].page>>)
    /\ Becomes(c, [body[c] EXCEPT !.pc = "init", !.page = None])

From(c) == IF c \in Even THEN 2 ELSE 1
To(c)   == IF c \in Even THEN 1 ELSE 2

Take(c) ==
    /\ At(c, "loop") /\ bench = "experiment3"
    /\ IF body[c].i < Loops /\ ring[From(c)] # << >>
       THEN /\ Becomes(c, [body[c] EXCEPT !.pc = "give", !.page = Head(ring[From(c)])])
            /\ Drop(From(c), 1)
       ELSE Leaves(c) /\ UNCHANGED ring
    /\ UNCHANGED pages

Give(c) ==
    /\ At(c, "give")
    /\ ref' = [ref EXCEPT ![body[c].page] = IF c \in Even THEN @ + 1 ELSE @ - 1]
    /\ IF Room(To(c), 1)
       THEN Put(To(c), <<body[c].page>>) /\ Becomes(c, Counts(c, 1))
       ELSE Leaves(c) /\ UNCHANGED ring
    /\ UNCHANGED inited

(* The pages taken off ring 1 in the end are on no ring any more.            *)
Drain(c) ==
    /\ At(c, "drain")
    /\ IF ring[1] = << >>
       THEN Becomes(c, [body[c] EXCEPT !.pc = "done"]) /\ UNCHANGED <<ring, ref>>
       ELSE Becomes(c, body[c]) /\ Drop(1, 1) /\ PutPages(<<Head(ring[1])>>)
    /\ UNCHANGED inited

Experiment3Loop(c) == InitTake(c) \/ InitMark(c) \/ Take(c) \/ Give(c) \/ Drain(c)

-----------------------------------------------------------------------------
(* A loop that touches no queue: locks, atomics, disabling and enabling      *)
(* (time_bench_parallel.c) ...                                               *)
LocksLoop(c) ==
    /\ At(c, "loop") /\ bench = "locks"
    /\ IF body[c].i < Loops THEN Becomes(c, Counts(c, 1)) ELSE Leaves(c)
    /\ UNCHANGED <<ring, pages>>

(* ... or allocates a page, or an element of a slab or a qmempool, and frees *)
(* it, and gives up when there is none.                                      *)
AllocAndFree(c) ==
    /\ UNCHANGED <<ring, inited>>
    /\ \/ /\ At(c, "loop") /\ body[c].i < Loops /\ MemoryLeft
          /\ ref' = [ref EXCEPT ![FreePage] = 1]
          /\ Becomes(c, [body[c] EXCEPT !.pc = "free", !.page = FreePage])
       \/ At(c, "loop") /\ Leaves(c) /\ UNCHANGED ref
       \/ /\ At(c, "free")
          /\ PutPages(<<body[c].page>>)
          /\ Becomes(c, Counts(c, 1))

Order0Loop(c)   == bench = "order0"   /\ AllocAndFree(c)
FastpathLoop(c) == bench = "fastpath" /\ AllocAndFree(c)

(* N elements are allocated and then freed; Bulk stands for the N of the     *)
(* code.  Bound: no allocation fails; the code would free the NULL.          *)
PatternLoop(c) ==
    /\ bench = "pattern"
    /\ UNCHANGED <<ring, inited>>
    /\ \/ /\ At(c, "loop") /\ body[c].i < Loops /\ Len(body[c].stack) < Bulk
          /\ MemoryLeft /\ ref' = [ref EXCEPT ![FreePage] = 1]
          /\ Becomes(c, [body[c] EXCEPT !.stack = Append(@, FreePage)])
       \/ /\ At(c, "loop") /\ body[c].i < Loops /\ Len(body[c].stack) = Bulk
          /\ Becomes(c, [body[c] EXCEPT !.pc = "free"]) /\ UNCHANGED ref
       \/ /\ At(c, "free") /\ body[c].stack # << >>
          /\ PutPages(<<Head(body[c].stack)>>)
          /\ Becomes(c, [body[c] EXCEPT !.stack = Tail(@)])
       \/ At(c, "free") /\ body[c].stack = << >> /\ Becomes(c, Counts(c, 1)) /\ UNCHANGED ref
       \/ At(c, "loop") /\ body[c].i >= Loops /\ Leaves(c) /\ UNCHANGED ref

BenchLoop(c) ==
    SkbArrayLoop(c) \/ PtrRingLoop(c) \/ AlfLoop(c) \/ AlfBulkLoop(c) \/ AllocPutLoop(c)
        \/ Experiment1Loop(c) \/ Experiment3Loop(c) \/ LocksLoop(c) \/ Order0Loop(c)
        \/ FastpathLoop(c) \/ PatternLoop(c)

-----------------------------------------------------------------------------
(* The threads and main                                                      *)

StartBody(c) ==
    /\ WaitStart(c)
    /\ body' = [body EXCEPT ![c].pc = IF bench = "experiment3" THEN "init" ELSE "loop"]
    /\ UNCHANGED <<bench, ring, pages>>

EndBody(c) == BenchEnds(c) /\ body[c].pc = "done" /\ UNCHANGED benching

Thread(c) ==
    \/ (Arrive(c) \/ Park(c) \/ Leave(c)) /\ UNCHANGED benching
    \/ StartBody(c) \/ BenchLoop(c) \/ EndBody(c)

MainSteps ==
    \/ (Spawn \/ Kick \/ Finish \/ Stop \/ Join) /\ UNCHANGED benching
    \/ ReturnAll /\ CleanUp

NextAll == RunParallel \/ (SpawnFails /\ CleanUp) \/ MainSteps \/ \E c \in Cpus : Thread(c)

SpecAll ==
    /\ InitAll /\ [][NextAll]_allVars
    /\ WF_allVars(MainSteps) /\ \A c \in Cpus : WF_allVars(Thread(c))

-----------------------------------------------------------------------------
(* Properties *)

(* Where a page is: a place of a ring, or in the hands of a CPU.             *)
PlacesOf(p) ==
    {at \in {"ring"} \X (1 .. 2) \X (1 .. QSize) :
        at[3] <= Len(ring[at[2]]) /\ ring[at[2]][at[3]] = p}
        \cup {at \in {"cpu"} \X Cpus \X (0 .. Bulk + 1) :
                IF at[3] = 0 THEN body[at[2]].page = p
                ELSE at[3] <= Len(body[at[2]].stack) /\ body[at[2]].stack[at[3]] = p}

(* No page or element is given to two, and none is freed while a ring or a   *)
(* CPU has it ("ERROR: pages with zero refcnt on queue!", page_bench05:534), *)
(* while one CPU allocates what the other one puts, and when they catch up.  *)
(* What the CPUs allocate for themselves, they free.                         *)
PagesCounted ==
    \A p \in Pages :
        /\ Cardinality(PlacesOf(p)) <= 1
        /\ PlacesOf(p) # {} => ref[p] >= 1
        /\ PlacesOf(p) = {} /\ bench \in OnTheirOwn => ref[p] = 0
=============================================================================
