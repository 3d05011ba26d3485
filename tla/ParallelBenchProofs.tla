------------------------- MODULE ParallelBenchProofs -------------------------
(* Proofs about TimeBench and ParallelBench, for any number of CPUs, any     *)
(* choice of benchmarks and any sizes.  The inductive invariant of the runs  *)
(* says where the threads may be while main is in each of its phases, and    *)
(* what the one counter means: the threads between atomic_inc and atomic_dec.*)
(* That of the pages reads all that holds pages as rows of one table.        *)
EXTENDS ParallelBench, FiniteSetTheorems, FunctionTheorems, SequenceTheorems,
        WellFoundedInduction, TLAPS

-----------------------------------------------------------------------------
(* The inductive invariant: the runs                                         *)

Counted == {c \in Cpus : thread[c] \in {"wait", "bench"}}

Types ==
    /\ main \in {"idle", "spawn", "finish", "stop", "join"}
    /\ mask \subseteq Cpus /\ todo \subseteq mask
    /\ target \subseteq mask
    /\ thread \in [Cpus -> {"new", "wait", "bench", "park", "schedule", "gone"}]
    /\ state \in [Cpus -> {"running", "uninterruptible"}]
    /\ nr \in Nat
    /\ go \in BOOLEAN /\ failed \in BOOLEAN

OnlyMasked == \A c \in Cpus : thread[c] # "gone" => c \in mask
Counter    == nr = Cardinality(Counted)

(* idle: no thread, or those that a failed run has left behind.              *)
WhenIdle ==
    main = "idle" =>
        \/ ~failed /\ todo = {} /\ target = {} /\ \A c \in Cpus : thread[c] = "gone"
        \/ failed /\ ~go /\ \A c \in Cpus : thread[c] \in {"new", "wait", "gone"}
WhenSpawning ==
    main = "spawn" =>
        /\ ~failed /\ ~go /\ target = {}
        /\ \A c \in mask : thread[c] \in IF c \in todo THEN {"gone"} ELSE {"new", "wait"}
WhenRunning ==
    main = "finish" =>
        /\ ~failed /\ todo = {} /\ target = {}
        /\ \A c \in mask :
             /\ thread[c] \in {"wait", "bench", "park", "schedule"}
             /\ thread[c] = "schedule" => state[c] = "uninterruptible"
WhenStopping ==
    main \in {"stop", "join"} =>
        /\ ~failed
        /\ main = "stop" => target = {}
        /\ \A c \in mask : /\ thread[c] \in {"park", "schedule", "gone"}
                           /\ c \notin todo \cup target => thread[c] = "gone"

IInv == Types /\ OnlyMasked /\ Counter
            /\ WhenIdle /\ WhenSpawning /\ WhenRunning /\ WhenStopping

-----------------------------------------------------------------------------
(* The counter                                                               *)

LEMMA CountedFinite == IsFiniteSet(Counted) /\ Cardinality(Counted) \in Nat
<1>1. Counted \in SUBSET Cpus  BY DEF Counted
<1>2. IsFiniteSet(Counted)  BY <1>1, CpusAssumption, FS_Subset
<1> QED  BY <1>2, FS_CardinalityType

(* A thread that enters or leaves {"wait", "bench"} changes the cardinality  *)
(* by one.                                                                   *)
LEMMA CountedMoves ==
    ASSUME NEW c \in Cpus, NEW from, NEW to, Types, Moves(c, from, to)
    PROVE  Cardinality(Counted') =
             Cardinality(Counted)
               + (IF to   \in {"wait", "bench"} THEN 1 ELSE 0)
               - (IF from \in {"wait", "bench"} THEN 1 ELSE 0)
<1>1. Counted' = IF to \in {"wait", "bench"} THEN Counted \cup {c} ELSE Counted \ {c}
  BY DEF Types, Moves, Counted
<1>2. c \in Counted <=> from \in {"wait", "bench"}  BY DEF Moves, Counted
<1>3. /\ Cardinality(Counted \cup {c}) =
            IF c \in Counted THEN Cardinality(Counted) ELSE Cardinality(Counted) + 1
      /\ Cardinality(Counted \ {c}) =
            IF c \in Counted THEN Cardinality(Counted) - 1 ELSE Cardinality(Counted)
  BY CountedFinite, FS_AddElement, FS_RemoveElement
<1>4. Cardinality(Counted) \in Nat  BY CountedFinite
<1> QED  BY <1>1, <1>2, <1>3, <1>4

LEMMA CountedStays ==
    ASSUME UNCHANGED thread
    PROVE  Cardinality(Counted') = Cardinality(Counted)
BY DEF Counted

(* The two tests of main, on what they are worth.                            *)
LEMMA ArrivedMeans ==
    ASSUME Types, OnlyMasked, Counter, AllArrived
    PROVE  Counted = mask
<1>1. Counted \in SUBSET mask  BY DEF Counted, OnlyMasked
<1>2. IsFiniteSet(mask)  BY CpusAssumption, FS_Subset DEF Types
<1>3. Cardinality(Counted) <= Cardinality(mask)
      /\ (Cardinality(mask) = Cardinality(Counted) => mask = Counted)
  BY <1>1, <1>2, FS_Subset
<1>4. Cardinality(mask) \in Nat  BY <1>2, FS_CardinalityType
<1> QED  BY <1>3, <1>4, CountedFinite DEF AllArrived, Counter

LEMMA FinishedMeans ==
    ASSUME Counter, AllFinished
    PROVE  \A c \in Cpus : thread[c] \notin {"wait", "bench"}
<1>1. Counted = {}  BY CountedFinite, FS_EmptySet DEF Counter, AllFinished
<1> QED  BY <1>1 DEF Counted

-----------------------------------------------------------------------------
(* Every step of time_bench_run_concurrent and invoke_test_on_cpu_func keeps *)
(* the invariant.                                                            *)

LEMMA InitIInv == Init => IInv
<1> SUFFICES ASSUME Init PROVE IInv  OBVIOUS
<1>1. Counted = {}  BY DEF Init, Counted
<1>2. Counter  BY <1>1, FS_EmptySet DEF Counter, Init
<1> QED
  BY <1>2 DEF Init, IInv, Types, OnlyMasked, WhenIdle, WhenSpawning, WhenRunning, WhenStopping

LEMMA BeginIInv == IInv /\ Begin => IInv'
<1> SUFFICES ASSUME IInv, Begin PROVE IInv'  OBVIOUS
<1> USE DEF IInv, Begin
<1>0. \A c \in Cpus : thread[c] = "gone"  BY DEF WhenIdle
<1>1. Types'  BY DEF Types, WhenIdle
<1>2. OnlyMasked'  BY <1>0 DEF OnlyMasked
<1>3. Counter'
  <2>1. Counted' = {}  BY <1>0 DEF Counted
  <2> QED  BY <2>1, FS_EmptySet DEF Counter
<1>4. WhenSpawning'
  <2>1. target' = {} /\ todo' = mask' /\ ~failed' /\ ~go'  BY DEF WhenIdle
  <2> QED  BY <2>1, <1>0, <1>1 DEF WhenSpawning, Types
<1>5. WhenIdle' /\ WhenRunning' /\ WhenStopping'
  BY DEF WhenIdle, WhenRunning, WhenStopping
<1> QED  BY <1>1, <1>2, <1>3, <1>4, <1>5

LEMMA SpawnIInv == IInv /\ Spawn => IInv'
<1> SUFFICES ASSUME IInv, NEW c \in todo,
                    main = "spawn",
                    todo' = todo \ {c},
                    thread' = [thread EXCEPT ![c] = "new"],
                    state' = [state EXCEPT ![c] = "running"],
                    UNCHANGED <<main, mask, target, nr, go, failed>>
             PROVE  IInv'
  BY DEF Spawn
<1> USE DEF IInv
<1>0. c \in Cpus /\ c \in mask /\ thread[c] = "gone"  BY DEF Types, WhenSpawning
<1>1. Types'  BY <1>0 DEF Types
<1>2. OnlyMasked'  BY <1>0 DEF OnlyMasked, Types
<1>3. Counter'
  <2>1. Counted' = Counted  BY <1>0 DEF Counted, Types
  <2> QED  BY <2>1 DEF Counter
<1>4. WhenSpawning'  BY <1>0 DEF WhenSpawning, Types
<1>5. WhenIdle' /\ WhenRunning' /\ WhenStopping'
  BY DEF WhenIdle, WhenRunning, WhenStopping
<1> QED  BY <1>1, <1>2, <1>3, <1>4, <1>5

LEMMA SpawnFailsIInv == IInv /\ SpawnFails => IInv'
<1> SUFFICES ASSUME IInv, SpawnFails PROVE IInv'  OBVIOUS
<1> USE DEF IInv, SpawnFails
<1>1. Types' /\ OnlyMasked'  BY DEF Types, OnlyMasked
<1>2. Counter'  BY CountedStays DEF Counter
<1>3. WhenIdle'  BY DEF WhenIdle, WhenSpawning, OnlyMasked
<1>4. WhenSpawning' /\ WhenRunning' /\ WhenStopping'
  BY DEF WhenSpawning, WhenRunning, WhenStopping
<1> QED  BY <1>1, <1>2, <1>3, <1>4

LEMMA KickIInv == IInv /\ Kick => IInv'
<1> SUFFICES ASSUME IInv, Kick PROVE IInv'  OBVIOUS
<1> USE DEF IInv, Kick
<1>1. Types' /\ OnlyMasked'  BY DEF Types, OnlyMasked
<1>2. Counter'  BY CountedStays DEF Counter
<1>3. WhenRunning'
  <2>1. Counted = mask  BY ArrivedMeans
  <2>2. \A c \in mask : thread[c] \in {"wait", "bench"}  BY <2>1 DEF Counted
  <2> QED  BY <2>2 DEF WhenRunning, WhenSpawning
<1>4. WhenIdle' /\ WhenSpawning' /\ WhenStopping'
  BY DEF WhenIdle, WhenSpawning, WhenStopping
<1> QED  BY <1>1, <1>2, <1>3, <1>4

LEMMA FinishIInv == IInv /\ Finish => IInv'
<1> SUFFICES ASSUME IInv, Finish PROVE IInv'  OBVIOUS
<1> USE DEF IInv, Finish
<1>1. Types' /\ OnlyMasked'  BY DEF Types, OnlyMasked
<1>2. Counter'  BY CountedStays DEF Counter
<1>3. WhenStopping'
  <2>1. \A c \in mask : thread[c] \in {"park", "schedule"}
    BY FinishedMeans DEF WhenRunning, Types
  <2> QED  BY <2>1 DEF WhenStopping, WhenRunning
<1>4. WhenIdle' /\ WhenSpawning' /\ WhenRunning'
  BY DEF WhenIdle, WhenSpawning, WhenRunning
<1> QED  BY <1>1, <1>2, <1>3, <1>4

LEMMA StopIInv == IInv /\ Stop => IInv'
<1> SUFFICES ASSUME IInv, NEW c \in todo, main = "stop",
                    todo' = todo \ {c}, target' = {c},
                    state' = [state EXCEPT ![c] = "running"], main' = "join",
                    UNCHANGED <<mask, thread, nr, go, failed>>
             PROVE  IInv'
  BY DEF Stop
<1> USE DEF IInv
<1>1. Types' /\ OnlyMasked'  BY DEF Types, OnlyMasked
<1>2. Counter'  BY CountedStays DEF Counter
<1>3. WhenStopping'  BY DEF WhenStopping
<1>4. WhenIdle' /\ WhenSpawning' /\ WhenRunning'
  BY DEF WhenIdle, WhenSpawning, WhenRunning
<1> QED  BY <1>1, <1>2, <1>3, <1>4

LEMMA JoinIInv == IInv /\ Join => IInv'
<1> SUFFICES ASSUME IInv, Join PROVE IInv'  OBVIOUS
<1> USE DEF IInv, Join
<1>1. Types' /\ OnlyMasked'  BY DEF Types, OnlyMasked
<1>2. Counter'  BY CountedStays DEF Counter
<1>3. WhenStopping'  BY DEF WhenStopping
<1>4. WhenIdle' /\ WhenSpawning' /\ WhenRunning'
  BY DEF WhenIdle, WhenSpawning, WhenRunning
<1> QED  BY <1>1, <1>2, <1>3, <1>4

LEMMA ReturnAllIInv == IInv /\ ReturnAll => IInv'
<1> SUFFICES ASSUME IInv, ReturnAll PROVE IInv'  OBVIOUS
<1> USE DEF IInv, ReturnAll
<1>1. target = {} /\ ~failed  BY DEF WhenStopping
<1>2. \A c \in Cpus : thread[c] = "gone"  BY <1>1 DEF WhenStopping, OnlyMasked
<1>3. Types' /\ OnlyMasked'  BY <1>1, <1>2 DEF Types, OnlyMasked
<1>4. Counter'  BY CountedStays DEF Counter
<1>5. WhenIdle'  BY <1>1, <1>2 DEF WhenIdle
<1>6. WhenSpawning' /\ WhenRunning' /\ WhenStopping'
  BY DEF WhenSpawning, WhenRunning, WhenStopping
<1> QED  BY <1>3, <1>4, <1>5, <1>6

(* A step of a thread moves it alone.                                        *)
LEMMA ThreadIInv ==
    ASSUME IInv, NEW c \in Cpus, Th(c)
    PROVE  IInv'
<1> USE DEF IInv
<1>0. UNCHANGED <<main, mask, todo, target, go, failed>>
  BY DEF Th, Arrive, WaitStart, BenchEnds, Park, Leave, MainUnchanged
<1>1. ASSUME NEW from \in {"new", "wait", "bench", "park", "schedule"},
             NEW to \in {"wait", "bench", "park", "schedule", "gone"},
             Moves(c, from, to)
      PROVE  /\ thread' \in [Cpus -> {"new", "wait", "bench", "park", "schedule", "gone"}]
             /\ thread[c] = from /\ thread'[c] = to
             /\ \A d \in Cpus \ {c} : thread'[d] = thread[d]
             /\ c \in mask /\ OnlyMasked'
  BY <1>0, <1>1 DEF Moves, Types, OnlyMasked
<1>2. CASE Arrive(c)
  <2> USE <1>0, <1>2 DEF Arrive
  <2>1. Moves(c, "new", "wait")  OBVIOUS
  <2>2. Types' /\ OnlyMasked'  BY <1>1, <2>1 DEF Types
  <2>3. Counter'  BY <2>1, CountedMoves, CountedFinite DEF Counter
  <2>4. WhenIdle' /\ WhenSpawning'  BY <1>1, <2>1 DEF WhenIdle, WhenSpawning, Types
  <2>5. WhenRunning' /\ WhenStopping'  BY <1>1, <2>1 DEF WhenRunning, WhenStopping, Types
  <2> QED  BY <2>2, <2>3, <2>4, <2>5
<1>3. CASE WaitStart(c)
  <2> USE <1>0, <1>3 DEF WaitStart
  <2>1. Moves(c, "wait", "bench")  OBVIOUS
  <2>2. Types' /\ OnlyMasked'  BY <1>1, <2>1 DEF Types
  <2>3. Counter'  BY <2>1, CountedMoves, CountedFinite DEF Counter
  <2>4. WhenIdle' /\ WhenSpawning'  BY <1>1, <2>1 DEF WhenIdle, WhenSpawning, Types
  <2>5. WhenRunning' /\ WhenStopping'  BY <1>1, <2>1 DEF WhenRunning, WhenStopping, Types
  <2> QED  BY <2>2, <2>3, <2>4, <2>5
<1>4. CASE BenchEnds(c)
  <2> USE <1>0, <1>4 DEF BenchEnds
  <2>1. Moves(c, "bench", "park")  OBVIOUS
  <2>2. Counter' /\ nr' \in Nat
    <3>1. Cardinality(Counted') = nr - 1  BY <2>1, CountedMoves, CountedFinite DEF Counter
    <3>2. IsFiniteSet(Counted')
      <4>1. Counted' \in SUBSET Cpus  BY DEF Counted
      <4> QED  BY <4>1, CpusAssumption, FS_Subset
    <3> QED  BY <3>1, <3>2, FS_CardinalityType DEF Counter
  <2>3. Types' /\ OnlyMasked'  BY <1>1, <2>1, <2>2 DEF Types
  <2>4. WhenIdle' /\ WhenSpawning'  BY <1>1, <2>1 DEF WhenIdle, WhenSpawning, Types
  <2>5. WhenRunning' /\ WhenStopping'  BY <1>1, <2>1 DEF WhenRunning, WhenStopping, Types
  <2> QED  BY <2>2, <2>3, <2>4, <2>5
<1>5. CASE Park(c)
  <2> USE <1>0, <1>5 DEF Park
  <2>1. Moves(c, "park", "schedule")  OBVIOUS
  <2>2. Types' /\ OnlyMasked'  BY <1>1, <2>1 DEF Types
  <2>3. Counter'  BY <2>1, CountedMoves, CountedFinite DEF Counter
  <2>4. WhenIdle' /\ WhenSpawning'  BY <1>1, <2>1 DEF WhenIdle, WhenSpawning, Types
  <2>5. WhenRunning' /\ WhenStopping'  BY <1>1, <2>1 DEF WhenRunning, WhenStopping, Types
  <2> QED  BY <2>2, <2>3, <2>4, <2>5
<1>6. CASE Leave(c)
  <2> USE <1>0, <1>6 DEF Leave
  <2>1. Moves(c, "schedule", "gone")  OBVIOUS
  <2>2. Types' /\ OnlyMasked'  BY <1>1, <2>1 DEF Types
  <2>3. Counter'  BY <2>1, CountedMoves, CountedFinite DEF Counter
  <2>4. WhenIdle' /\ WhenSpawning'  BY <1>1, <2>1 DEF WhenIdle, WhenSpawning, Types
  <2>5. WhenRunning' /\ WhenStopping'  BY <1>1, <2>1 DEF WhenRunning, WhenStopping, Types
  <2> QED  BY <2>2, <2>3, <2>4, <2>5
<1> QED  BY <1>2, <1>3, <1>4, <1>5, <1>6 DEF Th

LEMMA StutterIInv == IInv /\ UNCHANGED vars => IInv'
BY DEF IInv, vars, Types, OnlyMasked, Counter, Counted,
       WhenIdle, WhenSpawning, WhenRunning, WhenStopping

LEMMA NextIInv == IInv /\ [Next]_vars => IInv'
BY BeginIInv, SpawnIInv, SpawnFailsIInv, KickIInv, FinishIInv, StopIInv, JoinIInv,
   ReturnAllIInv, ThreadIInv, StutterIInv
   DEF Next, Main

-----------------------------------------------------------------------------
(* What the invariant says of the properties                                 *)

LEMMA IInvTypes == IInv => TypeOK
<1> SUFFICES ASSUME IInv PROVE TypeOK  OBVIOUS
<1> USE DEF IInv
<1>1. Counted \in SUBSET mask  BY DEF Counted, OnlyMasked
<1>2. IsFiniteSet(mask)  BY CpusAssumption, FS_Subset DEF Types
<1>3. Cardinality(Counted) <= Cardinality(mask)  BY <1>1, <1>2, FS_Subset
<1>4. Cardinality(mask) \in Nat  BY <1>2, FS_CardinalityType
<1> QED  BY <1>3, <1>4, CountedFinite DEF TypeOK, Types, Counter

LEMMA IInvStarts == IInv => StartTogether
BY DEF IInv, StartTogether, Types, OnlyMasked,
       WhenIdle, WhenSpawning, WhenRunning, WhenStopping

LEMMA IInvStops == IInv => StoppedAfterBench
BY DEF IInv, StoppedAfterBench, WhenStopping

-----------------------------------------------------------------------------
(* The benchmarks are runs of time_bench_run_concurrent: whatever a caller   *)
(* of run_parallel and its bench functions do, main and the threads take     *)
(* only the steps of TimeBench, each of them at the place it has there.      *)

LEMMA InitAllInit == InitAll => Init
BY DEF InitAll

LEMMA BeginBenchBegins ==
    ASSUME NEW b, NEW m, NEW queues, BeginBench(b, m, queues)
    PROVE  Begin
BY DEF BeginBench

LEMMA RunParallelBegins == RunParallel => Begin
BY DEF RunParallel, SkbTwoCPUs, SkbManyCPUs, AlfTwoCPUs, AlfManyCPUs, AlfManyCPUsBulk,
       PtrRingCrossCPU, AllocPutCrossCPU, Experiment1CrossCPU, Experiment3CrossCPU,
       TimingTests, AllocAllCPUs, AllocLimitedCPUs, FastpathSlab, FastpathQmempool,
       NPatternSlab, NPatternQmempool, BeginBench

LEMMA BodyStutters ==
    ASSUME NEW c \in Cpus, BenchLoop(c)
    PROVE  UNCHANGED vars
<1>1. ASSUME NEW n, EnqOrDeq(c, n) PROVE UNCHANGED vars
  BY <1>1 DEF EnqOrDeq, Leaves, Becomes
<1>2. SkbArrayLoop(c) \/ PtrRingLoop(c) \/ AlfLoop(c) \/ AlfBulkLoop(c) => UNCHANGED vars
  BY <1>1 DEF SkbArrayLoop, PtrRingLoop, AlfLoop, AlfBulkLoop
<1>3. AllocAndEnqueue(c) \/ DequeueAndPut(c) \/ StackPages(c) => UNCHANGED vars
  BY DEF AllocAndEnqueue, DequeueAndPut, StackPages, Leaves, Becomes
<1>4. Experiment3Loop(c) => UNCHANGED vars
  BY DEF Experiment3Loop, InitTake, InitMark, Take, Give, Drain, Leaves, Becomes
<1>5. LocksLoop(c) \/ AllocAndFree(c) \/ PatternLoop(c) => UNCHANGED vars
  BY DEF LocksLoop, AllocAndFree, PatternLoop, Leaves, Becomes
<1> QED
  BY <1>2, <1>3, <1>4, <1>5
     DEF BenchLoop, AllocPutLoop, Experiment1Loop, Order0Loop, FastpathLoop

LEMMA StepsOfTimeBench == [NextAll]_allVars => [Next]_vars
<1> SUFFICES ASSUME [NextAll]_allVars PROVE [Next]_vars  OBVIOUS
<1>1. CASE RunParallel  BY <1>1, RunParallelBegins DEF Next
<1>2. CASE SpawnFails /\ CleanUp  BY <1>2 DEF Next
<1>3. CASE MainSteps  BY <1>3 DEF MainSteps, Main, Next
<1>4. ASSUME NEW c \in Cpus, Thread(c) PROVE [Next]_vars
  <2>1. CASE (Arrive(c) \/ Park(c) \/ Leave(c)) /\ UNCHANGED benching
    BY <2>1 DEF Next, Th
  <2>2. CASE StartBody(c)  BY <2>2 DEF StartBody, Next, Th
  <2>3. CASE BenchLoop(c)  BY <2>3, BodyStutters
  <2>4. CASE EndBody(c)  BY <2>4 DEF EndBody, Next, Th
  <2> QED  BY <1>4, <2>1, <2>2, <2>3, <2>4 DEF Thread
<1>5. CASE UNCHANGED allVars  BY <1>5 DEF allVars
<1> QED  BY <1>1, <1>2, <1>3, <1>4, <1>5 DEF NextAll

(* Every benchmark run is a run of time_bench_run_concurrent as TimeBench    *)
(* specifies it, but for fairness.                                           *)
THEOREM BenchesRunOnTimeBench == SpecAll => Init /\ [][Next]_vars
BY InitAllInit, StepsOfTimeBench, PTL DEF SpecAll

(* The invariant of time_bench_run_concurrent, with any caller.              *)
THEOREM RunsInvariant == Init /\ [][Next]_vars => []IInv
BY InitIInv, NextIInv, PTL

(* The places of main and of the threads, their task states and the counter  *)
(* keep to their ranges; nr_tests_running never exceeds the number of CPUs   *)
(* in the mask nor falls below zero.                                         *)
THEOREM TypeCorrect == SpecAll => []TypeOK
BY BenchesRunOnTimeBench, RunsInvariant, IInvTypes, PTL

(* No bench function runs before the threads of all CPUs of the mask have    *)
(* come to wait_for_completion.                                              *)
THEOREM BenchesStartTogether == SpecAll => []StartTogether
BY BenchesRunOnTimeBench, RunsInvariant, IInvStarts, PTL

(* kthread_stop is called, and run_parallel returns and frees the records,   *)
(* only when all bench functions have ended.                                 *)
THEOREM StopsAfterBenches == SpecAll => []StoppedAfterBench
BY BenchesRunOnTimeBench, RunsInvariant, IInvStops, PTL

-----------------------------------------------------------------------------
(* The inductive invariant: the pages                                        *)

(* What holds pages, as sequences: the rings, the page that a CPU has in     *)
(* hand, and its stack.                                                      *)
RowIds == ({"ring"} \X (1 .. 2)) \cup ({"page", "stack"} \X Cpus)
Items  == Pages \cup {Fake}
InHand(p) == IF p = None THEN << >> ELSE <<p>>

RowsOf(rings, bodies) ==
    [x \in RowIds |->
        IF x[1] = "ring" THEN rings[x[2]]
        ELSE IF x[1] = "stack" THEN bodies[x[2]].stack ELSE InHand(bodies[x[2]].page)]
Rows == RowsOf(ring, body)

(* No page is in two places of rows; the pages that are in one.              *)
Once(R) ==
    \A x, y \in RowIds : \A i \in 1 .. Len(R[x]), j \in 1 .. Len(R[y]) :
        R[x][i] \in Pages /\ R[x][i] = R[y][j] => x = y /\ i = j
InRows(R) == {p \in Pages : \E x \in RowIds : \E i \in 1 .. Len(R[x]) : R[x][i] = p}

BodyType ==
    [pc : {"none", "loop", "init", "mark", "give", "drain", "free", "done"},
     i : Nat, page : Pages \cup {None}, stack : Seq(Pages)]

PageTypes ==
    /\ bench \in {"none"} \cup Benches
    /\ ring \in [1 .. 2 -> Seq(Items)] /\ body \in [Cpus -> BodyType]
    /\ ref \in [Pages -> Nat] /\ inited \subseteq Pages

RingsFit ==
    /\ bench \in {"none"} \cup OnTheirOwn => ring = NoRings
    /\ bench \in WithFakes => \A q \in 1 .. 2 : ring[q] \in Seq({Fake})
    /\ bench \in WithPages => \A q \in 1 .. 2 : ring[q] \in Seq(Pages)

BodyFits(b) ==
    /\ b.page # None => b.pc \in {"mark", "give", "free"}
    /\ b.pc \in {"mark", "give"} => b.page # None
    /\ b.pc \in {"init", "mark", "give", "drain"} => bench = "experiment3"
    /\ b.pc = "free" => (b.page = None <=> bench = "pattern")
    /\ Len(b.stack) <= Bulk + 1
    /\ bench \in WithFakes => b.page = None /\ b.stack = << >>
BodiesFit ==
    \A c \in Cpus : BodyFits(body[c]) /\ (body[c].page # None => thread[c] = "bench")

(* A bench function that has not begun.                                      *)
Unstarted ==
    /\ main = "spawn" => \A c \in Cpus : body[c].pc = "none"
    /\ \A c \in Cpus : thread[c] \in {"new", "wait"} => body[c].pc = "none"

Held == \A p \in InRows(Rows) : ref[p] >= 1
Own  == bench \in OnTheirOwn =>
            \A p \in Pages : ref[p] <= 1 /\ (ref[p] = 1 => p \in InRows(Rows))

(* Experiment 3.  The pages of ring 1 that have their second reference come  *)
(* last, and when a CPU has seen that the first one has it, they all have.   *)
Out == \E c \in Cpus : body[c].pc \notin {"none", "init", "mark"}
TwoRefs ==
    bench = "experiment3" =>
        /\ \A j \in 1 .. Len(ring[1]) : Out \/ ring[1][j] \in inited => ref[ring[1][j]] >= 2
        /\ ~Out => \A i, j \in 1 .. Len(ring[1]) :
                      i <= j /\ ring[1][i] \in inited => ring[1][j] \in inited
        /\ \A c \in Cpus : body[c].pc = "give" /\ c \notin Even => ref[body[c].page] >= 2

PagesInv ==
    /\ PageTypes /\ RingsFit /\ BodiesFit /\ Unstarted
    /\ Once(Rows) /\ Held /\ Own /\ TwoRefs

-----------------------------------------------------------------------------
(* Rows of pages *)

LEMMA RowsType ==
  ASSUME NEW rings \in [1 .. 2 -> Seq(Items)], NEW bodies \in [Cpus -> BodyType]
  PROVE  RowsOf(rings, bodies) \in [RowIds -> Seq(Items)]
<1> SUFFICES ASSUME NEW x \in RowIds PROVE RowsOf(rings, bodies)[x] \in Seq(Items)
  BY DEF RowsOf
<1>1. CASE x \in {"ring"} \X (1 .. 2)
  BY <1>1 DEF RowsOf
<1>2. CASE x \in {"page", "stack"} \X Cpus
  <2>1. x[2] \in Cpus /\ x[1] \in {"page", "stack"}
    BY <1>2
  <2>2. bodies[x[2]].page \in Pages \cup {None} /\ bodies[x[2]].stack \in Seq(Pages)
    BY <2>1 DEF BodyType
  <2>3. bodies[x[2]].stack \in Seq(Items)
    BY <2>2, SeqMonotonic DEF Items
  <2>4. InHand(bodies[x[2]].page) \in Seq(Items)
    <3>1. << >> \in Seq(Items)
      BY EmptySeq
    <3>2. ASSUME NEW p \in Pages PROVE <<p>> \in Seq(Items)
      BY DEF Items
    <3> QED
      BY <2>2, <3>1, <3>2 DEF InHand
  <2> QED
    BY <2>1, <2>3, <2>4 DEF RowsOf
<1> QED
  BY <1>1, <1>2 DEF RowIds

(* A step changes one ring, and one CPU's page and stack.                    *)
LEMMA RowsChange ==
  ASSUME PageTypes, NEW q \in 1 .. 2, NEW s, NEW c \in Cpus, NEW b,
         ring' = [ring EXCEPT ![q] = s], body' = [body EXCEPT ![c] = b]
  PROVE  /\ Rows'[<<"ring", q>>] = s
         /\ Rows'[<<"page", c>>] = InHand(b.page) /\ Rows'[<<"stack", c>>] = b.stack
         /\ \A x \in RowIds \ {<<"ring", q>>, <<"page", c>>, <<"stack", c>>} :
               Rows'[x] = Rows[x]
<1>1. ring'[q] = s /\ \A r \in 1 .. 2 : r # q => ring'[r] = ring[r]
  BY DEF PageTypes
<1>2. body'[c] = b /\ \A d \in Cpus : d # c => body'[d] = body[d]
  BY DEF PageTypes
<1>3. \A r \in 1 .. 2 : <<"ring", r>> \in RowIds /\ Rows'[<<"ring", r>>] = ring'[r]
                        /\ Rows[<<"ring", r>>] = ring[r]
  BY DEF Rows, RowsOf, RowIds
<1>4. \A d \in Cpus : /\ <<"page", d>> \in RowIds /\ <<"stack", d>> \in RowIds
                      /\ Rows'[<<"page", d>>] = InHand(body'[d].page)
                      /\ Rows[<<"page", d>>] = InHand(body[d].page)
                      /\ Rows'[<<"stack", d>>] = body'[d].stack
                      /\ Rows[<<"stack", d>>] = body[d].stack
  BY DEF Rows, RowsOf, RowIds, InHand
<1>5. ASSUME NEW x \in RowIds \ {<<"ring", q>>, <<"page", c>>, <<"stack", c>>}
      PROVE  Rows'[x] = Rows[x]
  <2>1. CASE x \in {"ring"} \X (1 .. 2)
    <3>1. PICK r \in 1 .. 2 : x = <<"ring", r>>
      BY <2>1
    <3> QED
      BY <1>1, <1>3, <1>5, <3>1
  <2>2. CASE x \in {"page", "stack"} \X Cpus
    <3>1. PICK d \in Cpus : x = <<"page", d>> \/ x = <<"stack", d>>
      BY <2>2
    <3>2. d # c
      BY <1>5, <3>1
    <3> QED
      BY <1>2, <1>4, <3>1, <3>2
  <2> QED
    BY <1>5, <2>1, <2>2 DEF RowIds
<1> QED
  BY <1>1, <1>2, <1>3, <1>4, <1>5

(* A row loses its first element, all of its elements, or gets one more.     *)
Others(R, S, x)    == \A y \in RowIds : y # x => S[y] = R[y]
Popped(R, S, x)    == R[x] # << >> /\ S[x] = Tail(R[x]) /\ Others(R, S, x)
Cleared(R, S, x)   == S[x] = << >> /\ Others(R, S, x)
Pushed(R, S, x, p) == S[x] = Append(R[x], p) /\ Others(R, S, x)

LEMMA NoRows ==
  ASSUME NEW R, \A x \in RowIds : \A i \in 1 .. Len(R[x]) : R[x][i] \notin Pages
  PROVE  Once(R) /\ InRows(R) = {}
BY DEF Once, InRows

LEMMA RowPop ==
  ASSUME NEW R \in [RowIds -> Seq(Items)], NEW S \in [RowIds -> Seq(Items)],
         NEW x \in RowIds, Popped(R, S, x), Once(R)
  PROVE  Once(S) /\ InRows(S) = InRows(R) \ {Head(R[x])}
<1> USE DEF Popped, Others
<1>1. /\ Len(S[x]) = Len(R[x]) - 1 /\ Len(R[x]) \in Nat \ {0}
      /\ \A i \in 1 .. Len(S[x]) : S[x][i] = R[x][i + 1]
  <2>1. R[x] \in Seq(Items)
    OBVIOUS
  <2> QED
    BY <2>1, HeadTailProperties, EmptySeq
<1>2. Head(R[x]) = R[x][1]
  OBVIOUS
<1>3. \A y \in RowIds : Len(R[y]) \in Nat /\ Len(S[y]) \in Nat
  BY LenProperties
<1> DEFINE at(y, i) == IF y = x THEN i + 1 ELSE i
<1>4. \A y \in RowIds : \A i \in 1 .. Len(S[y]) :
         at(y, i) \in 1 .. Len(R[y]) /\ S[y][i] = R[y][at(y, i)]
  <2> TAKE y \in RowIds
  <2> TAKE i \in 1 .. Len(S[y])
  <2>1. i \in Nat /\ i >= 1 /\ i <= Len(S[y])
    BY <1>3
  <2>2. CASE y = x
    <3>1. i \in 1 .. Len(S[x])
      BY <2>2
    <3>2. S[x][i] = R[x][i + 1] /\ i + 1 \in 1 .. Len(R[x])
      BY <1>1, <3>1
    <3> QED
      BY <2>2, <3>2
  <2>3. CASE y # x
    BY <2>3
  <2> QED
    BY <2>2, <2>3
<1>5. Once(S)
  <2> SUFFICES ASSUME NEW y \in RowIds, NEW z \in RowIds,
                      NEW i \in 1 .. Len(S[y]), NEW j \in 1 .. Len(S[z]),
                      S[y][i] \in Pages, S[y][i] = S[z][j]
               PROVE  y = z /\ i = j
    BY DEF Once
  <2>1. y = z /\ at(y, i) = at(z, j)
    BY <1>4 DEF Once
  <2> QED
    BY <2>1
<1>6. \A p \in InRows(S) : p \in InRows(R) /\ p # Head(R[x])
  <2> SUFFICES ASSUME NEW p \in Pages, NEW y \in RowIds, NEW i \in 1 .. Len(S[y]), S[y][i] = p
               PROVE  p \in InRows(R) /\ p # Head(R[x])
    BY DEF InRows
  <2>1. at(y, i) \in 1 .. Len(R[y]) /\ R[y][at(y, i)] = p
    BY <1>4
  <2>2. p \in InRows(R)
    BY <2>1 DEF InRows
  <2>3. ASSUME p = R[x][1] PROVE FALSE
    <3>1. 1 \in 1 .. Len(R[x])
      BY <1>1
    <3>2. y = x /\ at(y, i) = 1
      BY <2>1, <2>3, <3>1 DEF Once
    <3> QED
      BY <1>3, <3>2
  <2> QED
    BY <1>2, <2>2, <2>3
<1>7. \A p \in InRows(R) : p # Head(R[x]) => p \in InRows(S)
  <2> SUFFICES ASSUME NEW p \in Pages, NEW y \in RowIds, NEW i \in 1 .. Len(R[y]), R[y][i] = p,
                      p # R[x][1]
               PROVE  p \in InRows(S)
    BY <1>2 DEF InRows
  <2>1. CASE y # x
    BY <2>1 DEF InRows
  <2>2. CASE y = x
    <3>1. i # 1
      BY <2>2
    <3>2. i - 1 \in 1 .. Len(S[x]) /\ S[x][i - 1] = R[x][i]
      BY <1>1, <2>2, <3>1
    <3> QED
      BY <2>2, <3>2 DEF InRows
  <2> QED
    BY <2>1, <2>2
<1> QED
  BY <1>5, <1>6, <1>7

LEMMA RowClear ==
  ASSUME NEW R \in [RowIds -> Seq(Items)], NEW S \in [RowIds -> Seq(Items)],
         NEW x \in RowIds, Cleared(R, S, x), Once(R)
  PROVE  Once(S) /\ InRows(S) = InRows(R) \ {R[x][i] : i \in 1 .. Len(R[x])}
<1> USE DEF Cleared, Others
<1>1. Len(S[x]) = 0 /\ Len(R[x]) \in Nat
  OBVIOUS
<1>2. Once(S)
  <2> SUFFICES ASSUME NEW y \in RowIds, NEW z \in RowIds,
                      NEW i \in 1 .. Len(S[y]), NEW j \in 1 .. Len(S[z]),
                      S[y][i] \in Pages, S[y][i] = S[z][j]
               PROVE  y = z /\ i = j
    BY DEF Once
  <2>1. y # x /\ z # x
    BY <1>1
  <2>2. S[y] = R[y] /\ S[z] = R[z]
    BY <2>1
  <2> QED
    BY <2>2, Zenon DEF Once
<1>3. \A p \in InRows(S) : p \in InRows(R) /\ p \notin {R[x][i] : i \in 1 .. Len(R[x])}
  <2> SUFFICES ASSUME NEW p \in Pages, NEW y \in RowIds, NEW i \in 1 .. Len(S[y]), S[y][i] = p
               PROVE  p \in InRows(R) /\ p \notin {R[x][k] : k \in 1 .. Len(R[x])}
    BY DEF InRows
  <2>1. y # x /\ S[y] = R[y]
    BY <1>1
  <2>2. p \in InRows(R)
    BY <2>1 DEF InRows
  <2>3. \A k \in 1 .. Len(R[x]) : R[x][k] # p
    BY <2>1 DEF Once
  <2> QED
    BY <2>2, <2>3
<1>4. \A p \in InRows(R) : p \notin {R[x][i] : i \in 1 .. Len(R[x])} => p \in InRows(S)
  BY DEF InRows
<1> QED
  BY <1>2, <1>3, <1>4

LEMMA RowPush ==
  ASSUME NEW R \in [RowIds -> Seq(Items)], NEW S \in [RowIds -> Seq(Items)],
         NEW x \in RowIds, NEW p \in Pages, p \notin InRows(R), Pushed(R, S, x, p), Once(R)
  PROVE  Once(S) /\ InRows(S) = InRows(R) \cup {p}
<1> USE DEF Pushed, Others
<1>1. /\ Len(R[x]) \in Nat /\ Len(S[x]) = Len(R[x]) + 1 /\ S[x][Len(R[x]) + 1] = p
      /\ \A i \in 1 .. Len(R[x]) : S[x][i] = R[x][i]
  <2>1. R[x] \in Seq(Items) /\ p \in Items
    BY DEF Items
  <2> QED
    BY <2>1
<1>2. \A y \in RowIds : Len(R[y]) \in Nat /\ Len(S[y]) \in Nat
  BY LenProperties
<1>3. \A y \in RowIds : \A i \in 1 .. Len(S[y]) :
         \/ i \in 1 .. Len(R[y]) /\ S[y][i] = R[y][i]
         \/ y = x /\ i = Len(R[x]) + 1 /\ S[y][i] = p
  <2> TAKE y \in RowIds
  <2>1. CASE y = x
    <3> TAKE i \in 1 .. Len(S[y])
    <3>1. i \in 1 .. Len(R[x]) \/ i = Len(R[x]) + 1
      BY <1>1, <2>1
    <3> QED
      BY <1>1, <2>1, <3>1, Zenon
  <2>2. CASE y # x
    BY <2>2
  <2> QED
    BY <2>1, <2>2
<1>4. \A y \in RowIds : \A i \in 1 .. Len(R[y]) : R[y][i] # p
  BY DEF InRows
<1>5. Once(S)
  <2> SUFFICES ASSUME NEW y \in RowIds, NEW z \in RowIds,
                      NEW i \in 1 .. Len(S[y]), NEW j \in 1 .. Len(S[z]),
                      S[y][i] \in Pages, S[y][i] = S[z][j]
               PROVE  y = z /\ i = j
    BY DEF Once
  <2>1. \/ i \in 1 .. Len(R[y]) /\ S[y][i] = R[y][i]
        \/ y = x /\ i = Len(R[x]) + 1 /\ S[y][i] = p
    BY <1>3
  <2>2. \/ j \in 1 .. Len(R[z]) /\ S[z][j] = R[z][j]
        \/ z = x /\ j = Len(R[x]) + 1 /\ S[z][j] = p
    BY <1>3
  <2> QED
    BY <1>4, <2>1, <2>2 DEF Once
<1>6. InRows(S) \subseteq InRows(R) \cup {p}
  BY <1>3 DEF InRows
<1>7. InRows(R) \subseteq InRows(S)
  <2> SUFFICES ASSUME NEW o \in Pages, NEW y \in RowIds, NEW i \in 1 .. Len(R[y]), R[y][i] = o
               PROVE  o \in InRows(S)
    BY DEF InRows
  <2>1. i \in 1 .. Len(S[y]) /\ S[y][i] = o
    <3>1. CASE y = x
      <4>1. i \in 1 .. Len(R[x])
        BY <3>1
      <4>2. S[x][i] = R[x][i] /\ i \in 1 .. Len(S[x])
        BY <1>1, <4>1
      <4> QED
        BY <3>1, <4>2, Zenon
    <3>2. CASE y # x
      BY <3>2, Zenon
    <3> QED
      BY <3>1, <3>2
  <2> QED
    BY <2>1 DEF InRows
<1>8. p \in InRows(S)
  BY <1>1 DEF InRows
<1> QED
  BY <1>5, <1>6, <1>7, <1>8

(* The first element of a row becomes the last one of another.               *)
Moved(R, S, x, y) ==
    /\ x # y /\ R[x] # << >> /\ Head(R[x]) \in Pages
    /\ S[x] = Tail(R[x]) /\ S[y] = Append(R[y], Head(R[x]))
    /\ \A z \in RowIds : z # x /\ z # y => S[z] = R[z]

LEMMA RowMove ==
  ASSUME NEW R \in [RowIds -> Seq(Items)], NEW S \in [RowIds -> Seq(Items)],
         NEW x \in RowIds, NEW y \in RowIds, Moved(R, S, x, y), Once(R)
  PROVE  Once(S) /\ InRows(S) = InRows(R)
<1>0. /\ x # y /\ R[x] # << >> /\ Head(R[x]) \in Pages
      /\ S[x] = Tail(R[x]) /\ S[y] = Append(R[y], Head(R[x]))
      /\ \A z \in RowIds : z # x /\ z # y => S[z] = R[z]
  BY DEF Moved
<1> DEFINE T == [R EXCEPT ![x] = Tail(R[x])]
<1>1. T \in [RowIds -> Seq(Items)] /\ T[x] = Tail(R[x])
      /\ \A z \in RowIds : z # x => T[z] = R[z]
  <2>1. Tail(R[x]) \in Seq(Items)
    BY <1>0, HeadTailProperties
  <2> QED
    BY <2>1
<1> HIDE DEF T
<1>2. Once(T) /\ InRows(T) = InRows(R) \ {Head(R[x])}
  <2>1. Popped(R, T, x)
    BY <1>0, <1>1 DEF Popped, Others
  <2> QED
    BY <1>1, <2>1, RowPop
<1>3. Head(R[x]) \in InRows(R)
  <2>1. Len(R[x]) \in Nat \ {0} /\ Head(R[x]) = R[x][1]
    <3>1. R[x] \in Seq(Items)
      OBVIOUS
    <3> QED
      BY <1>0, <3>1, EmptySeq
  <2> QED
    BY <1>0, <2>1 DEF InRows
<1>4. Pushed(T, S, y, Head(R[x]))
  BY <1>0, <1>1 DEF Pushed, Others
<1>5. Head(R[x]) \notin InRows(T)
  BY <1>2
<1>6. Once(S) /\ InRows(S) = InRows(T) \cup {Head(R[x])}
  BY <1>0, <1>1, <1>2, <1>4, <1>5, RowPush
<1> QED
  BY <1>2, <1>3, <1>6

(* The first element of a row goes, and all those of another.                *)
PopsAndClears(R, S, x, y) ==
    /\ x # y /\ R[x] # << >> /\ S[x] = Tail(R[x]) /\ S[y] = << >>
    /\ \A z \in RowIds : z # x /\ z # y => S[z] = R[z]

LEMMA RowPopClear ==
  ASSUME NEW R \in [RowIds -> Seq(Items)], NEW S \in [RowIds -> Seq(Items)],
         NEW x \in RowIds, NEW y \in RowIds, PopsAndClears(R, S, x, y), Once(R)
  PROVE  /\ Once(S) /\ InRows(S) \subseteq InRows(R)
         /\ \A p \in InRows(S) : \A i \in 1 .. Len(R[y]) : R[y][i] # p
<1> USE DEF PopsAndClears
<1> DEFINE T == [R EXCEPT ![x] = Tail(R[x])]
<1>1. T \in [RowIds -> Seq(Items)] /\ T[x] = Tail(R[x])
      /\ \A z \in RowIds : z # x => T[z] = R[z]
  <2>1. Tail(R[x]) \in Seq(Items)
    BY HeadTailProperties
  <2> QED
    BY <2>1
<1> HIDE DEF T
<1>2. Once(T) /\ InRows(T) = InRows(R) \ {Head(R[x])}
  <2>1. Popped(R, T, x)
    BY <1>1 DEF Popped, Others
  <2> QED
    BY <1>1, <2>1, RowPop, Zenon
<1>3. Cleared(T, S, y) /\ T[y] = R[y]
  BY <1>1 DEF Cleared, Others
<1>4. Once(S) /\ InRows(S) = InRows(T) \ {T[y][i] : i \in 1 .. Len(T[y])}
  BY <1>1, <1>2, <1>3, RowClear
<1> QED
  BY <1>2, <1>3, <1>4

-----------------------------------------------------------------------------
(* Run by run, and the threads *)

LEMMA LeastPage ==
  ASSUME NEW S \in SUBSET Nat, NEW s \in S
  PROVE  \E m \in S : \A x \in S : m <= x
<1> DEFINE Less == {ss \in Nat \X Nat : ss[1] < ss[2]}
<1>1. IsWellFoundedOn(Less, Nat)
  BY NatLessThanWellFounded DEF OpToRel
<1>2. PICK m \in S : \A x \in S : <<x, m>> \notin Less
  <2> HIDE DEF Less
  <2> QED
    BY <1>1, WFMin
<1>3. ASSUME NEW x \in S PROVE m <= x
  <2>1. x \in Nat /\ m \in Nat
    OBVIOUS
  <2>2. ~ (x < m)
    BY <1>2, <2>1
  <2> QED
    BY <2>1, <2>2
<1> QED
  BY <1>3

(* alloc_pages gives no page that somebody has.                              *)
LEMMA FreePageIs ==
  ASSUME PagesInv, MemoryLeft
  PROVE  FreePage \in Pages /\ ref[FreePage] = 0 /\ FreePage \notin InRows(Rows)
<1> DEFINE Free == {p \in Pages : ref[p] = 0}
<1>1. Free \in SUBSET Nat
  BY BenchAssumption
<1>2. \E p \in Free : TRUE
  BY DEF MemoryLeft
<1>3. \E m \in Free : \A p \in Free : m <= p
  BY <1>1, <1>2, LeastPage
<1>4. \E p \in Pages : ref[p] = 0 /\ \A o \in Pages : ref[o] = 0 => p <= o
  BY <1>3
<1>5. FreePage \in Pages /\ ref[FreePage] = 0
  BY <1>4 DEF FreePage
<1>6. FreePage \notin InRows(Rows)
  BY <1>5 DEF PagesInv, Held
<1> QED
  BY <1>5, <1>6

LEMMA BenchesKinds ==
  /\ {"none"} \cap (WithFakes \cup WithPages \cup OnTheirOwn) = {}
  /\ WithFakes \cap WithPages = {} /\ WithFakes \cap OnTheirOwn = {}
  /\ WithPages \cap OnTheirOwn = {} /\ "experiment3" \in WithPages
  /\ "none" \notin Benches
BY BenchAssumption DEF WithFakes, WithPages, OnTheirOwn

LEMMA NoBodyFits ==
  /\ NoBody \in BodyType /\ BodyFits(NoBody) /\ NoBody.page = None /\ NoBody.stack = << >>
  /\ NoBody.pc = "none"
<1>1. NoBody \in BodyType
  <2>1. << >> \in Seq(Pages)
    BY EmptySeq
  <2> QED
    BY <2>1 DEF NoBody, BodyType
<1>2. Len(NoBody.stack) = 0 /\ 0 <= Bulk + 1
  BY BenchAssumption DEF NoBody
<1> QED
  BY <1>1, <1>2 DEF NoBody, BodyFits

(* The rows when no CPU has a page.                                          *)
LEMMA IdleRows ==
  ASSUME NEW rings \in [1 .. 2 -> Seq(Items)], NEW bodies, bodies = [c \in Cpus |-> NoBody]
  PROVE  /\ \A q \in 1 .. 2 : <<"ring", q>> \in RowIds /\ RowsOf(rings, bodies)[<<"ring", q>>] = rings[q]
         /\ \A x \in RowIds \ ({"ring"} \X (1 .. 2)) : RowsOf(rings, bodies)[x] = << >>
<1>1. ASSUME NEW q \in 1 .. 2
      PROVE  <<"ring", q>> \in RowIds /\ RowsOf(rings, bodies)[<<"ring", q>>] = rings[q]
  BY DEF RowIds, RowsOf
<1>2. ASSUME NEW x \in RowIds \ ({"ring"} \X (1 .. 2)) PROVE RowsOf(rings, bodies)[x] = << >>
  <2>1. x[2] \in Cpus /\ x[1] \in {"page", "stack"}
    BY DEF RowIds
  <2>2. bodies[x[2]] = NoBody
    BY <2>1
  <2> QED
    BY <2>1, <2>2, NoBodyFits DEF RowsOf, InHand
<1> QED
  BY <1>1, <1>2

LEMMA InitPages == InitAll => PagesInv
<1> SUFFICES ASSUME InitAll PROVE PagesInv
  OBVIOUS
<1>1. \A q \in 1 .. 2 : ring[q] = << >>
  BY DEF InitAll
<1>2. PageTypes
  <2>1. << >> \in Seq(Items)
    BY EmptySeq
  <2>2. ring \in [1 .. 2 -> Seq(Items)]
    BY <2>1 DEF InitAll
  <2>3. body \in [Cpus -> BodyType]
    BY NoBodyFits DEF InitAll
  <2> QED
    BY <2>2, <2>3 DEF InitAll, PageTypes
<1>3. ring = NoRings
  BY DEF InitAll, NoRings
<1>4. \A c \in Cpus : body[c] = NoBody
  BY DEF InitAll
<1>5. RingsFit /\ BodiesFit
  BY <1>3, <1>4, NoBodyFits, BenchesKinds DEF RingsFit, BodiesFit, InitAll
<1>6. \A x \in RowIds : Rows[x] = << >>
  <2>1. body = [c \in Cpus |-> NoBody] /\ ring \in [1 .. 2 -> Seq(Items)]
    BY <1>2 DEF InitAll, PageTypes
  <2>2. ASSUME NEW x \in RowIds PROVE Rows[x] = << >>
    <3>1. CASE x \in {"ring"} \X (1 .. 2)
      <4>1. PICK q \in 1 .. 2 : x = <<"ring", q>>
        BY <3>1
      <4> QED
        BY <1>1, <2>1, <4>1, IdleRows DEF Rows
    <3>2. CASE x \notin {"ring"} \X (1 .. 2)
      BY <2>1, <3>2, IdleRows DEF Rows
    <3> QED
      BY <3>1, <3>2
  <2> QED
    BY <2>2
<1>7. Once(Rows) /\ InRows(Rows) = {}
  <2>1. \A x \in RowIds : Len(Rows[x]) = 0
    BY <1>6
  <2> QED
    BY <2>1, NoRows
<1>8. Held /\ Own /\ TwoRefs
  BY <1>7, BenchesKinds DEF Held, Own, TwoRefs, InitAll
<1>9. Unstarted
  BY <1>4, NoBodyFits DEF Unstarted
<1> QED
  BY <1>2, <1>5, <1>7, <1>8, <1>9 DEF PagesInv

(* What run_parallel may be called with.                                     *)
BeginsWith(b, queues) ==
    /\ queues \in [1 .. 2 -> Seq(Items)] /\ \A q \in 1 .. 2 : Len(queues[q]) <= QSize
    /\ b \in OnTheirOwn => queues = NoRings
    /\ b \in WithFakes => \A q \in 1 .. 2 : queues[q] \in Seq({Fake})
    /\ b \in WithPages => \A q \in 1 .. 2 : queues[q] \in Seq(Pages)
    /\ \A q, r \in 1 .. 2 : \A i \in 1 .. Len(queues[q]), j \in 1 .. Len(queues[r]) :
          queues[q][i] \in Pages /\ queues[q][i] = queues[r][j] => q = r /\ i = j

LEMMA BeginPages ==
  ASSUME NEW b, NEW m, NEW queues, BeginBench(b, m, queues), BeginsWith(b, queues)
  PROVE  PagesInv'
<1>1. b \in Benches /\ bench' = b /\ ring' = queues /\ inited' = {}
      /\ body' = [c \in Cpus |-> NoBody]
  BY DEF BeginBench
<1>2. ref' = [p \in Pages |-> IF \E q \in 1 .. 2, j \in 1 .. QSize :
                                    j \in DOMAIN queues[q] /\ queues[q][j] = p THEN 1 ELSE 0]
  BY DEF BeginBench
<1>3. \A c \in Cpus : body'[c] = NoBody
  BY <1>1
<1>4. PageTypes'
  <2>1. ref' \in [Pages -> Nat]
    BY <1>2
  <2>2. body' \in [Cpus -> BodyType]
    BY <1>1, NoBodyFits
  <2> QED
    BY <1>1, <2>1, <2>2 DEF PageTypes, BeginsWith
<1>5. RingsFit'
  BY <1>1, BenchesKinds DEF RingsFit, BeginsWith
<1>6. BodiesFit'
  <2>1. BodyFits(NoBody)'
    BY NoBodyFits DEF BodyFits
  <2> QED
    BY <1>3, <2>1, NoBodyFits DEF BodiesFit
<1>7. Rows' = RowsOf(queues, body')
  BY <1>1 DEF Rows
<1>8. /\ \A q \in 1 .. 2 : <<"ring", q>> \in RowIds /\ Rows'[<<"ring", q>>] = queues[q]
      /\ \A x \in RowIds \ ({"ring"} \X (1 .. 2)) : Rows'[x] = << >>
  BY <1>1, <1>7, IdleRows DEF BeginsWith
<1>9. ASSUME NEW x \in RowIds, NEW i \in 1 .. Len(Rows'[x])
      PROVE  \E q \in 1 .. 2 : x = <<"ring", q>> /\ i \in 1 .. Len(queues[q])
                               /\ Rows'[x][i] = queues[q][i]
  <2>1. CASE x \in {"ring"} \X (1 .. 2)
    <3>1. PICK q \in 1 .. 2 : x = <<"ring", q>>
      BY <2>1
    <3> QED
      BY <1>8, <1>9, <3>1
  <2>2. CASE x \notin {"ring"} \X (1 .. 2)
    <3>1. Len(Rows'[x]) = 0
      BY <1>8, <2>2
    <3> QED
      BY <3>1
  <2> QED
    BY <2>1, <2>2
<1>10. Once(Rows')
  <2> SUFFICES ASSUME NEW x \in RowIds, NEW y \in RowIds,
                      NEW i \in 1 .. Len(Rows'[x]), NEW j \in 1 .. Len(Rows'[y]),
                      Rows'[x][i] \in Pages, Rows'[x][i] = Rows'[y][j]
               PROVE  x = y /\ i = j
    BY DEF Once
  <2>1. PICK q \in 1 .. 2 : x = <<"ring", q>> /\ i \in 1 .. Len(queues[q])
                            /\ Rows'[x][i] = queues[q][i]
    BY <1>9
  <2>2. PICK r \in 1 .. 2 : y = <<"ring", r>> /\ j \in 1 .. Len(queues[r])
                            /\ Rows'[y][j] = queues[r][j]
    BY <1>9
  <2>3. q = r /\ i = j
    BY <2>1, <2>2 DEF BeginsWith
  <2> QED
    BY <2>1, <2>2, <2>3
<1>11. \A p \in InRows(Rows') : ref'[p] = 1
  <2> SUFFICES ASSUME NEW p \in Pages, NEW x \in RowIds, NEW i \in 1 .. Len(Rows'[x]),
                      Rows'[x][i] = p
               PROVE  ref'[p] = 1
    BY DEF InRows
  <2>1. PICK q \in 1 .. 2 : i \in 1 .. Len(queues[q]) /\ Rows'[x][i] = queues[q][i]
    BY <1>9
  <2>2. Len(queues[q]) \in Nat /\ DOMAIN queues[q] = 1 .. Len(queues[q])
        /\ Len(queues[q]) <= QSize /\ QSize \in Nat
    <3>1. queues[q] \in Seq(Items)
      BY DEF BeginsWith
    <3> QED
      BY <3>1, BenchAssumption, LenProperties DEF BeginsWith
  <2>3. i \in 1 .. QSize /\ i \in DOMAIN queues[q]
    BY <2>1, <2>2
  <2> QED
    BY <1>2, <2>1, <2>3
<1>12. Held'
  BY <1>11 DEF Held
<1>13. Own'
  <2> SUFFICES ASSUME b \in OnTheirOwn, NEW p \in Pages PROVE ref'[p] = 0
    BY <1>1 DEF Own
  <2>1. \A q \in 1 .. 2 : queues[q] = << >>
    BY DEF BeginsWith, NoRings
  <2>2. \A q \in 1 .. 2 : DOMAIN queues[q] = {}
    BY <2>1
  <2> QED
    BY <1>2, <2>2
<1>14. TwoRefs' /\ Unstarted'
  BY <1>1, <1>3, NoBodyFits DEF TwoRefs, Out, Unstarted
<1> QED
  BY <1>4, <1>5, <1>6, <1>10, <1>12, <1>13, <1>14 DEF PagesInv

LEMMA FakesBegin ==
  ASSUME NEW b \in WithFakes
  PROVE  BeginsWith(b, <<Fakes, << >> >>)
<1> DEFINE queues == <<Fakes, << >> >>
<1>0. Prefill \in Nat /\ QSize \in Nat /\ Prefill <= QSize /\ Fake \notin Pages
  BY BenchAssumption
<1>1. Fakes \in Seq({Fake}) /\ Len(Fakes) = Prefill
  BY <1>0 DEF Fakes
<1>2. << >> \in Seq({Fake}) /\ Len(<< >>) = 0
  BY EmptySeq
<1>3. \A q \in 1 .. 2 : queues[q] \in Seq({Fake}) /\ Len(queues[q]) <= QSize
  <2>1. queues[1] = Fakes /\ queues[2] = << >>
    OBVIOUS
  <2> HIDE DEF queues
  <2> SUFFICES ASSUME NEW q \in 1 .. 2 PROVE queues[q] \in Seq({Fake}) /\ Len(queues[q]) <= QSize
    OBVIOUS
  <2>2. q = 1 \/ q = 2
    OBVIOUS
  <2>3. Fakes \in Seq({Fake}) /\ Len(Fakes) <= QSize
    BY <1>0, <1>1
  <2>4. << >> \in Seq({Fake}) /\ Len(<< >>) <= QSize
    BY <1>0, <1>2
  <2> QED
    BY <2>1, <2>2, <2>3, <2>4, Zenon
<1>4. \A q \in 1 .. 2 : queues[q] \in Seq(Items)
  BY <1>3, SeqMonotonic DEF Items
<1>5. queues \in [1 .. 2 -> Seq(Items)]
  <2>1. queues = [q \in 1 .. 2 |-> queues[q]]
    OBVIOUS
  <2> HIDE DEF queues
  <2> QED
    BY <1>4, <2>1
<1>6. \A q \in 1 .. 2 : \A i \in 1 .. Len(queues[q]) : queues[q][i] = Fake
  BY <1>3, ElementOfSeq
<1>7. b \notin OnTheirOwn /\ b \notin WithPages
  BY BenchesKinds
<1> HIDE DEF queues
<1>8. BeginsWith(b, queues)
  BY <1>0, <1>3, <1>5, <1>6, <1>7 DEF BeginsWith
<1> QED
  BY <1>8 DEF queues

LEMMA NoneBegin ==
  ASSUME NEW b \in OnTheirOwn
  PROVE  BeginsWith(b, NoRings)
<1>1. \A q \in 1 .. 2 : NoRings[q] = << >>
  BY DEF NoRings
<1>2. << >> \in Seq(Items) /\ Len(<< >>) = 0 /\ 0 <= QSize
  BY EmptySeq, BenchAssumption
<1>3. NoRings \in [1 .. 2 -> Seq(Items)]
  <2>1. NoRings = [q \in 1 .. 2 |-> << >>]
    BY DEF NoRings
  <2> QED
    BY <1>2, <2>1
<1> QED
  BY <1>1, <1>2, <1>3, BenchesKinds DEF BeginsWith

LEMMA FilledBegin ==
  ASSUME NEW b \in WithPages, NEW two \in {PtrRing(2), << >>}
  PROVE  BeginsWith(b, <<PtrRing(1), two>>)
<1> DEFINE q2 == <<PtrRing(1), two>>
<1>0. Prefill \in Nat /\ QSize \in Nat /\ Loops \in Nat /\ 2 * Prefill <= QSize
      /\ 1 .. QSize + Loops \subseteq Pages
  BY BenchAssumption
<1>1. PtrRing(1) = [j \in 1 .. Prefill |-> j]
  BY <1>0 DEF PtrRing
<1>2. PtrRing(2) = [j \in 1 .. Prefill |-> Prefill + j]
  BY <1>0 DEF PtrRing
<1>3. \A j \in 1 .. Prefill : j \in Pages /\ Prefill + j \in Pages
  BY <1>0
<1>4. PtrRing(1) \in Seq(Pages) /\ Len(PtrRing(1)) = Prefill
  BY <1>0, <1>1, <1>3
<1>5. two \in Seq(Pages) /\ Len(two) \in {0, Prefill}
  <2>1. CASE two = << >>
    BY <2>1, EmptySeq
  <2>2. CASE two = PtrRing(2)
    BY <1>0, <1>2, <1>3, <2>2
  <2> QED
    BY <2>1, <2>2
<1>6. \A j \in 1 .. Len(two) : two[j] = Prefill + j /\ j \in 1 .. Prefill
  <2>1. CASE two = << >>
    BY <2>1
  <2>2. CASE two = PtrRing(2)
    BY <1>0, <1>2, <2>2
  <2> QED
    BY <2>1, <2>2
<1>7. \A q \in 1 .. 2 : q2[q] \in Seq(Pages) /\ q2[q] \in Seq(Items) /\ Len(q2[q]) <= QSize
  <2>1. \A q \in 1 .. 2 : q2[q] \in Seq(Pages) /\ Len(q2[q]) <= QSize
    BY <1>0, <1>4, <1>5
  <2> QED
    BY <2>1, SeqMonotonic DEF Items
<1>8. \A j \in 1 .. Len(PtrRing(1)) : PtrRing(1)[j] = j /\ j \in 1 .. Prefill
  BY <1>1, <1>4
<1>9. \A q, r \in 1 .. 2 : \A i \in 1 .. Len(q2[q]), j \in 1 .. Len(q2[r]) :
          q2[q][i] \in Pages /\ q2[q][i] = q2[r][j] => q = r /\ i = j
  <2> SUFFICES ASSUME NEW q \in 1 .. 2, NEW r \in 1 .. 2,
                      NEW i \in 1 .. Len(q2[q]), NEW j \in 1 .. Len(q2[r]), q2[q][i] = q2[r][j]
               PROVE  q = r /\ i = j
    OBVIOUS
  <2>1. CASE q = 1 /\ r = 1
    BY <1>8, <2>1
  <2>2. CASE q = 1 /\ r = 2
    <3>1. i = Prefill + j /\ i \in 1 .. Prefill /\ j \in 1 .. Prefill
      BY <1>6, <1>8, <2>2
    <3> QED
      BY <1>0, <3>1
  <2>3. CASE q = 2 /\ r = 1
    <3>1. j = Prefill + i /\ i \in 1 .. Prefill /\ j \in 1 .. Prefill
      BY <1>6, <1>8, <2>3
    <3> QED
      BY <1>0, <3>1
  <2>4. CASE q = 2 /\ r = 2
    <3>1. Prefill + i = Prefill + j /\ i \in 1 .. Prefill /\ j \in 1 .. Prefill
      BY <1>6, <2>4
    <3> QED
      BY <1>0, <2>4, <3>1
  <2> QED
    BY <2>1, <2>2, <2>3, <2>4
<1> QED
  BY <1>7, <1>9, BenchesKinds DEF BeginsWith

LEMMA RunParallelPages == RunParallel => PagesInv'
<1>1. SkbTwoCPUs \/ SkbManyCPUs => PagesInv'
  <2>1. BeginsWith("skb_array", SkbRing)
    BY FakesBegin DEF SkbRing, WithFakes
  <2> QED
    BY <2>1, BeginPages DEF SkbTwoCPUs, SkbManyCPUs
<1>2. AlfTwoCPUs \/ AlfManyCPUs \/ AlfManyCPUsBulk => PagesInv'
  <2>1. BeginsWith("alf_queue", AlfRing) /\ BeginsWith("alf_bulk", AlfRing)
    BY FakesBegin DEF AlfRing, WithFakes
  <2> QED
    BY <2>1, BeginPages DEF AlfTwoCPUs, AlfManyCPUs, AlfManyCPUsBulk
<1>3. PtrRingCrossCPU => PagesInv'
  <2>1. BeginsWith("ptr_ring", <<PtrRing(0), << >> >>)
    BY FakesBegin DEF PtrRing, WithFakes
  <2> QED
    BY <2>1, BeginPages DEF PtrRingCrossCPU
<1>4. AllocPutCrossCPU \/ Experiment1CrossCPU \/ Experiment3CrossCPU => PagesInv'
  <2>1. /\ BeginsWith("alloc_put", <<PtrRing(1), << >> >>)
        /\ BeginsWith("experiment1", <<PtrRing(1), << >> >>)
        /\ BeginsWith("experiment3", <<PtrRing(1), PtrRing(2)>>)
    BY FilledBegin DEF WithPages
  <2> QED
    BY <2>1, BeginPages DEF AllocPutCrossCPU, Experiment1CrossCPU, Experiment3CrossCPU
<1>5. ASSUME NEW b \in {"locks", "order0", "fastpath", "pattern"}, NEW m, BeginBench(b, m, NoRings)
      PROVE  PagesInv'
  BY <1>5, NoneBegin, BeginPages DEF OnTheirOwn
<1>6. TimingTests \/ AllocAllCPUs \/ AllocLimitedCPUs => PagesInv'
  BY <1>5 DEF TimingTests, AllocAllCPUs, AllocLimitedCPUs
<1>7. FastpathSlab \/ FastpathQmempool \/ NPatternSlab \/ NPatternQmempool => PagesInv'
  BY <1>5 DEF FastpathSlab, FastpathQmempool, NPatternSlab, NPatternQmempool
<1> QED
  BY <1>1, <1>2, <1>3, <1>4, <1>6, <1>7 DEF RunParallel

-----------------------------------------------------------------------------
(* The end of a run, and the steps of the threads                            *)

LEMMA RowsAt ==
  /\ \A q \in 1 .. 2 : <<"ring", q>> \in RowIds /\ Rows[<<"ring", q>>] = ring[q]
  /\ \A c \in Cpus : /\ <<"page", c>> \in RowIds
                     /\ Rows[<<"page", c>>] = InHand(body[c].page)
                     /\ <<"stack", c>> \in RowIds
                     /\ Rows[<<"stack", c>>] = body[c].stack
BY DEF Rows, RowsOf, RowIds, InHand

LEMMA RowsTyped == PageTypes => Rows \in [RowIds -> Seq(Items)]
BY RowsType DEF PageTypes, Rows

LEMMA RowsTypedThen == PageTypes' => Rows' \in [RowIds -> Seq(Items)]
<1> SUFFICES ASSUME PageTypes' PROVE Rows' \in [RowIds -> Seq(Items)]
  OBVIOUS
<1>1. ring' \in [1 .. 2 -> Seq(Items)] /\ body' \in [Cpus -> BodyType]
  BY DEF PageTypes
<1>2. Rows' = RowsOf(ring', body')
  BY DEF Rows
<1> QED
  BY <1>1, <1>2, RowsType

(* The page in the hands of a CPU is nowhere else.                           *)
LEMMA HandIs ==
  ASSUME PagesInv, NEW c \in Cpus, body[c].page # None
  PROVE  /\ body[c].page \in Pages /\ body[c].page \in InRows(Rows)
         /\ Rows[<<"page", c>>] = <<body[c].page>>
         /\ \A x \in RowIds : x # <<"page", c>> =>
               \A i \in 1 .. Len(Rows[x]) : Rows[x][i] # body[c].page
<1>1. body[c].page \in Pages
  BY DEF PagesInv, PageTypes, BodyType
<1>2. <<"page", c>> \in RowIds /\ Rows[<<"page", c>>] = <<body[c].page>>
  BY RowsAt DEF InHand
<1>3. 1 \in 1 .. Len(Rows[<<"page", c>>]) /\ Rows[<<"page", c>>][1] = body[c].page
  BY <1>2
<1>4. body[c].page \in InRows(Rows)
  BY <1>1, <1>2, <1>3 DEF InRows
<1>5. Once(Rows)
  BY DEF PagesInv
<1> QED
  BY <1>1, <1>2, <1>3, <1>4, <1>5 DEF Once

LEMMA OnRingIs ==
  ASSUME PagesInv, NEW q \in 1 .. 2, NEW j \in 1 .. Len(ring[q]), ring[q][j] \in Pages
  PROVE  ring[q][j] \in InRows(Rows) /\ ref[ring[q][j]] >= 1
<1>1. <<"ring", q>> \in RowIds /\ Rows[<<"ring", q>>] = ring[q]
  BY RowsAt
<1>2. ring[q][j] \in InRows(Rows)
  BY <1>1 DEF InRows
<1> QED
  BY <1>2 DEF PagesInv, Held

LEMMA CleanUpPages ==
  ASSUME PagesInv, CleanUp, UNCHANGED thread, main' # "spawn"
  PROVE  PagesInv'
<1>1. /\ ring' = [q \in 1 .. 2 |-> << >>] /\ UNCHANGED <<bench, inited, body>>
      /\ ref' = [p \in Pages |-> IF p \in OnRing(1) \cup OnRing(2) THEN ref[p] - 1 ELSE ref[p]]
  BY DEF CleanUp
<1>2. \A p \in Pages : p \in OnRing(1) \cup OnRing(2) => p \in InRows(Rows) /\ ref[p] >= 1
  <2> SUFFICES ASSUME NEW q \in 1 .. 2, NEW p \in Pages, p \in OnRing(q)
               PROVE  p \in InRows(Rows) /\ ref[p] >= 1
    OBVIOUS
  <2>1. PICK j \in 1 .. Len(ring[q]) : ring[q][j] = p
    BY DEF OnRing
  <2> QED
    BY <2>1, OnRingIs
<1>3. PageTypes'
  <2>1. ref' \in [Pages -> Nat]
    <3> SUFFICES ASSUME NEW p \in Pages PROVE ref'[p] \in Nat
      BY <1>1
    <3>1. ref[p] \in Nat
      BY DEF PagesInv, PageTypes
    <3>2. CASE p \in OnRing(1) \cup OnRing(2)
      BY <1>1, <1>2, <3>1, <3>2
    <3>3. CASE p \notin OnRing(1) \cup OnRing(2)
      BY <1>1, <3>1, <3>3
    <3> QED
      BY <3>2, <3>3
  <2>2. ring' \in [1 .. 2 -> Seq(Items)]
    BY <1>1, EmptySeq
  <2> QED
    BY <1>1, <2>1, <2>2 DEF PagesInv, PageTypes
<1>4. ring' = NoRings /\ \A q \in 1 .. 2 : ring'[q] = << >>
  BY <1>1 DEF NoRings
<1>5. RingsFit'
  BY <1>1, <1>4, EmptySeq DEF RingsFit
<1>6. BodiesFit'
  BY <1>1 DEF PagesInv, BodiesFit, BodyFits
<1>7. /\ \A q \in 1 .. 2 : Rows'[<<"ring", q>>] = << >>
      /\ \A x \in RowIds \ ({"ring"} \X (1 .. 2)) : Rows'[x] = Rows[x]
  <2>1. \A q \in 1 .. 2 : Rows'[<<"ring", q>>] = ring'[q]
    BY DEF Rows, RowsOf, RowIds
  <2>2. \A x \in RowIds \ ({"ring"} \X (1 .. 2)) : x[1] # "ring"
    BY DEF RowIds
  <2> QED
    BY <1>1, <1>4, <2>1, <2>2 DEF Rows, RowsOf
<1>8. \A x \in RowIds : \A i \in 1 .. Len(Rows'[x]) :
         x \notin {"ring"} \X (1 .. 2) /\ Rows'[x] = Rows[x]
  <2> SUFFICES ASSUME NEW x \in RowIds, NEW i \in 1 .. Len(Rows'[x])
               PROVE  x \notin {"ring"} \X (1 .. 2)
    BY <1>7
  <2> SUFFICES ASSUME x \in {"ring"} \X (1 .. 2) PROVE FALSE
    OBVIOUS
  <2>1. PICK q \in 1 .. 2 : x = <<"ring", q>>
    OBVIOUS
  <2>2. Len(Rows'[x]) = 0
    BY <1>7, <2>1
  <2> QED
    BY <2>2
<1>9. Once(Rows')
  BY <1>8 DEF PagesInv, Once
<1>10. ASSUME NEW p \in InRows(Rows')
       PROVE  p \in InRows(Rows) /\ p \notin OnRing(1) \cup OnRing(2)
  <2>1. p \in Pages
    BY DEF InRows
  <2>2. PICK x \in RowIds : \E i \in 1 .. Len(Rows'[x]) : Rows'[x][i] = p
    BY DEF InRows
  <2>3. PICK i \in 1 .. Len(Rows'[x]) : Rows'[x][i] = p
    BY <2>2
  <2>4. x \notin {"ring"} \X (1 .. 2) /\ i \in 1 .. Len(Rows[x]) /\ Rows[x][i] = p
    BY <1>8, <2>3
  <2>5. ASSUME NEW q \in 1 .. 2, p \in OnRing(q) PROVE FALSE
    <3>1. PICK j \in 1 .. Len(ring[q]) : ring[q][j] = p
      BY <2>5 DEF OnRing
    <3>2. x = <<"ring", q>>
      BY <2>1, <2>4, <3>1, RowsAt DEF PagesInv, Once
    <3> QED
      BY <2>4, <3>2
  <2> QED
    BY <2>1, <2>4, <2>5 DEF InRows
<1>11. Held'
  <2> SUFFICES ASSUME NEW p \in InRows(Rows') PROVE ref'[p] >= 1
    BY DEF Held
  <2>1. p \in Pages
    BY DEF InRows
  <2> QED
    BY <1>1, <1>10, <2>1 DEF PagesInv, Held
<1>12. Own'
  <2> SUFFICES ASSUME bench \in OnTheirOwn PROVE Own'
    BY <1>1 DEF Own
  <2>1. ring = NoRings
    BY DEF PagesInv, RingsFit
  <2>2. OnRing(1) = {} /\ OnRing(2) = {}
    BY <2>1 DEF OnRing, NoRings
  <2>3. ref' = ref
    BY <1>1, <2>2 DEF PagesInv, PageTypes
  <2>4. Rows' = Rows
    BY <1>1, <1>4, <2>1 DEF Rows
  <2> QED
    BY <1>1, <2>3, <2>4 DEF PagesInv, Own
<1>13. TwoRefs'
  <2>1. Len(ring'[1]) = 0
    BY <1>4
  <2>2. ASSUME NEW c \in Cpus, bench = "experiment3", body[c].pc = "give", c \notin Even
        PROVE  ref'[body[c].page] >= 2
    <3>1. body[c].page # None
      BY <2>2 DEF PagesInv, BodiesFit, BodyFits
    <3>2. ref[body[c].page] >= 2 /\ body[c].page \in Pages
      BY <2>2, <3>1, HandIs DEF PagesInv, TwoRefs
    <3>3. \A q \in 1 .. 2 : body[c].page \notin OnRing(q)
      <4>1. \A q \in 1 .. 2 : <<"ring", q>> # <<"page", c>>
        OBVIOUS
      <4>2. ASSUME NEW q \in 1 .. 2, NEW j \in 1 .. Len(ring[q]), ring[q][j] = body[c].page
            PROVE  FALSE
        <5>1. <<"ring", q>> \in RowIds /\ Rows[<<"ring", q>>] = ring[q]
          BY RowsAt
        <5>2. \A x \in RowIds : x # <<"page", c>> =>
                 \A i \in 1 .. Len(Rows[x]) : Rows[x][i] # body[c].page
          BY <3>1, HandIs
        <5>3. \A i \in 1 .. Len(Rows[<<"ring", q>>]) : Rows[<<"ring", q>>][i] # body[c].page
          BY <4>1, <5>1, <5>2
        <5> QED
          BY <4>2, <5>1, <5>3
      <4> QED
        BY <4>2 DEF OnRing
    <3> QED
      BY <1>1, <3>2, <3>3
  <2> QED
    BY <1>1, <2>1, <2>2 DEF TwoRefs
<1>14. Unstarted'
  BY <1>1 DEF PagesInv, Unstarted
<1> QED
  BY <1>3, <1>5, <1>6, <1>9, <1>11, <1>12, <1>13, <1>14 DEF PagesInv

(* The threads' steps outside of their bench functions.                      *)
LEMMA ThreadsPages ==
  ASSUME PagesInv, UNCHANGED benching, main' = "spawn" => main = "spawn",
         \A c \in Cpus : thread[c] = "bench" /\ body[c].page # None => thread'[c] = "bench",
         \A c \in Cpus : thread'[c] \in {"new", "wait"} =>
                            thread[c] \in {"new", "wait"} \/ main = "spawn"
  PROVE  PagesInv'
<1> USE DEF benching, pages, PagesInv
<1>1. UNCHANGED <<bench, ring, ref, inited, body>>
  OBVIOUS
<1>2. PageTypes' /\ RingsFit'
  BY <1>1 DEF PageTypes, RingsFit
<1>3. BodiesFit' /\ Unstarted'
  BY <1>1 DEF BodiesFit, BodyFits, Unstarted
<1>4. Rows' = Rows
  BY <1>1 DEF Rows
<1>5. Held' /\ Own' /\ TwoRefs'
  BY <1>1, <1>4 DEF Held, Own, TwoRefs, Out
<1> QED
  BY <1>2, <1>3, <1>4, <1>5

(* A CPU moves on, with what it has.                                         *)
LEMMA BodySteps ==
  ASSUME PagesInv, NEW c \in Cpus, NEW b \in BodyType, thread'[c] = "bench", BodyFits(b),
         body' = [body EXCEPT ![c] = b], UNCHANGED <<main, bench>>, main # "spawn",
         \A d \in Cpus : d # c => thread'[d] = thread[d]
  PROVE  BodiesFit' /\ Unstarted' /\ body' \in [Cpus -> BodyType] /\ body'[c] = b
         /\ \A d \in Cpus : d # c => body'[d] = body[d]
<1> USE DEF PagesInv, PageTypes
<1>1. body' \in [Cpus -> BodyType] /\ body'[c] = b
      /\ \A d \in Cpus : d # c => body'[d] = body[d]
  OBVIOUS
<1>2. \A d \in BodyType : BodyFits(d)' <=> BodyFits(d)
  BY DEF BodyFits
<1> QED
  BY <1>1, <1>2 DEF BodiesFit, Unstarted

LEMMA RowsStay ==
  ASSUME PageTypes, NEW c \in Cpus, NEW b, UNCHANGED ring, body' = [body EXCEPT ![c] = b],
         b.page = body[c].page, b.stack = body[c].stack
  PROVE  Rows' = Rows
<1>1. \A d \in Cpus : body'[d].page = body[d].page /\ body'[d].stack = body[d].stack
  BY DEF PageTypes
<1>2. \A x \in RowIds : x[1] = "ring" \/ x[2] \in Cpus
  BY DEF RowIds
<1> QED
  BY <1>1, <1>2 DEF Rows, RowsOf

(* In a step where the rows, the rings and the counts stay.                  *)
LEMMA MovesOn ==
  ASSUME PagesInv, NEW c \in Cpus, NEW b \in BodyType, thread'[c] = "bench", BodyFits(b),
         body' = [body EXCEPT ![c] = b], UNCHANGED <<main, bench, ring, pages>>, main # "spawn",
         \A d \in Cpus : d # c => thread'[d] = thread[d],
         b.page = body[c].page, b.stack = body[c].stack, b.pc # "give",
         bench = "experiment3" =>
            (b.pc \in {"none", "init", "mark"} <=> body[c].pc \in {"none", "init", "mark"})
  PROVE  PagesInv'
<1>1. BodiesFit' /\ Unstarted' /\ body' \in [Cpus -> BodyType] /\ body'[c] = b
      /\ \A d \in Cpus : d # c => body'[d] = body[d]
  BY BodySteps
<1>2. Rows' = Rows
  BY RowsStay DEF PagesInv
<1>3. UNCHANGED <<bench, ring, ref, inited>>
  BY DEF pages
<1>4. PageTypes' /\ RingsFit' /\ Held' /\ Own'
  BY <1>1, <1>2, <1>3 DEF PagesInv, PageTypes, RingsFit, Held, Own
<1>5. bench = "experiment3" => (Out' <=> Out)
  BY <1>1 DEF Out
<1>6. \A d \in Cpus : body'[d].pc = "give" => body'[d] = body[d]
  BY <1>1
<1>7. TwoRefs'
  BY <1>3, <1>5, <1>6 DEF PagesInv, TwoRefs
<1> QED
  BY <1>1, <1>2, <1>4, <1>7 DEF PagesInv

LEMMA BodyIs ==
  ASSUME PagesInv, NEW c \in Cpus
  PROVE  /\ body[c] \in BodyType /\ BodyFits(body[c])
         /\ body[c].pc \notin {"mark", "give", "free"} => body[c].page = None
         /\ body[c].stack \in Seq(Pages) /\ body[c].page \in Pages \cup {None}
         /\ body[c].i \in Nat
BY DEF PagesInv, PageTypes, BodiesFit, BodyFits, BodyType

LEMMA StartPages ==
  ASSUME PagesInv, NEW c \in Cpus, StartBody(c), Types, WhenSpawning
  PROVE  PagesInv'
<1> DEFINE b == [body[c] EXCEPT !.pc = IF bench = "experiment3" THEN "init" ELSE "loop"]
<1>1. /\ thread[c] = "wait" /\ thread' = [thread EXCEPT ![c] = "bench"]
      /\ body' = [body EXCEPT ![c] = b] /\ UNCHANGED <<main, bench, ring, pages>>
      /\ main # "spawn"
  BY DEF StartBody, WaitStart, Moves, MainUnchanged, WhenSpawning
<1>2. body[c].page = None
  BY <1>1 DEF PagesInv, BodiesFit
<1>3. b \in BodyType /\ b.page = body[c].page /\ b.stack = body[c].stack
      /\ b.pc = IF bench = "experiment3" THEN "init" ELSE "loop"
  BY BodyIs DEF BodyType
<1> HIDE DEF b
<1>4. BodyFits(b)
  BY <1>2, <1>3, BodyIs DEF BodyFits
<1>5. thread'[c] = "bench" /\ \A d \in Cpus : d # c => thread'[d] = thread[d]
  BY <1>1 DEF Types
<1>6. bench = "experiment3" => body[c].pc \in {"none", "init", "mark"}
  BY <1>1 DEF PagesInv, Unstarted
<1> QED
  BY <1>1, <1>3, <1>4, <1>5, <1>6, MovesOn

-----------------------------------------------------------------------------
(* The loops *)

(* A CPU in its bench function.                                              *)
LEMMA InBench ==
  ASSUME PagesInv, NEW c \in Cpus, NEW pc, At(c, pc), pc # "none"
  PROVE  /\ thread[c] = "bench" /\ body[c].pc = pc /\ main # "spawn"
         /\ pc \notin {"mark", "give", "free"} => body[c].page = None
BY BodyIs DEF At, PagesInv, Unstarted

LEMMA CountsIs ==
  ASSUME PagesInv, NEW c \in Cpus, NEW n \in Nat
  PROVE  /\ Counts(c, n) \in BodyType /\ Counts(c, n).page = None
         /\ Counts(c, n).stack = body[c].stack /\ Counts(c, n).pc = "loop"
         /\ BodyFits(Counts(c, n))
<1>1. body[c] \in BodyType /\ BodyFits(body[c])
  BY BodyIs
<1>2. PICK i \in Nat : i = body[c].i + n
  BY <1>1 DEF BodyType
<1>3. Counts(c, n) = [body[c] EXCEPT !.pc = "loop", !.i = i, !.page = None]
  BY <1>1, <1>2 DEF Counts, BodyType
<1>4. /\ Counts(c, n) \in BodyType /\ Counts(c, n).page = None
      /\ Counts(c, n).stack = body[c].stack /\ Counts(c, n).pc = "loop"
  BY <1>1, <1>3 DEF BodyType
<1> QED
  BY <1>1, <1>4 DEF BodyFits

LEMMA LeavesIs ==
  ASSUME PagesInv, NEW c \in Cpus, At(c, "loop"), Leaves(c)
  PROVE  \E b \in BodyType :
           /\ body' = [body EXCEPT ![c] = b] /\ UNCHANGED <<vars, bench>>
           /\ b.page = body[c].page /\ b.stack = body[c].stack
           /\ b.pc = IF bench = "experiment3" THEN "drain" ELSE "done"
           /\ BodyFits(b)
<1> DEFINE b == [body[c] EXCEPT !.pc = IF bench = "experiment3" THEN "drain" ELSE "done",
                                !.page = None]
<1>1. body[c].pc = "loop" /\ body[c].page = None
  BY InBench
<1>2. body' = [body EXCEPT ![c] = b] /\ UNCHANGED <<vars, bench>>
  BY DEF Leaves, Becomes
<1>3. b \in BodyType /\ b.page = body[c].page /\ b.stack = body[c].stack
      /\ b.pc = IF bench = "experiment3" THEN "drain" ELSE "done"
  BY <1>1, BodyIs DEF BodyType
<1> HIDE DEF b
<1>4. BodyFits(b)
  BY <1>1, <1>3, BodyIs DEF BodyFits
<1> QED
  BY <1>2, <1>3, <1>4

LEMMA LeavesPages ==
  ASSUME PagesInv, NEW c \in Cpus, At(c, "loop"), Leaves(c), UNCHANGED <<ring, pages>>
  PROVE  PagesInv'
<1>1. thread[c] = "bench" /\ body[c].pc = "loop" /\ main # "spawn" /\ body[c].page = None
  BY InBench
<1>2. PICK b \in BodyType :
           /\ body' = [body EXCEPT ![c] = b] /\ UNCHANGED <<vars, bench>>
           /\ b.page = body[c].page /\ b.stack = body[c].stack
           /\ b.pc = IF bench = "experiment3" THEN "drain" ELSE "done"
           /\ BodyFits(b)
  BY LeavesIs
<1>3. UNCHANGED <<main, thread>>
  BY <1>2 DEF vars
<1> QED
  BY <1>1, <1>2, <1>3, MovesOn

(* With fake pointers there are no pages to account for.                     *)
LEMMA FakesPages ==
  ASSUME PagesInv, bench \in WithFakes, NEW c \in Cpus, NEW n \in Nat \ {0}, EnqOrDeq(c, n)
  PROVE  PagesInv'
<1>1. /\ thread[c] = "bench" /\ body[c].pc = "loop" /\ main # "spawn" /\ body[c].page = None
      /\ At(c, "loop")
  BY InBench DEF EnqOrDeq
<1>2. CASE Leaves(c) /\ UNCHANGED ring
  BY <1>1, <1>2, LeavesPages DEF EnqOrDeq
<1>3. ASSUME NEW s \in Seq({Fake}), ring' = [ring EXCEPT ![1] = s],
             NEW b \in BodyType, BodyFits(b),
             body' = [body EXCEPT ![c] = b], UNCHANGED <<vars, bench>>
      PROVE  PagesInv'
  <2>1. body' = [body EXCEPT ![c] = b] /\ UNCHANGED <<main, thread, bench>>
    BY <1>3 DEF vars
  <2>4. BodiesFit' /\ Unstarted' /\ body' \in [Cpus -> BodyType]
    BY <1>1, <1>3, <2>1, BodySteps
  <2>5. UNCHANGED <<ref, inited>>
    BY DEF EnqOrDeq, pages
  <2>6. \A q \in 1 .. 2 : ring'[q] \in Seq({Fake}) /\ ring'[q] \in Seq(Items)
    <3>1. \A q \in 1 .. 2 : ring'[q] \in Seq({Fake})
      BY <1>3 DEF PagesInv, PageTypes, RingsFit
    <3> QED
      BY <3>1, SeqMonotonic DEF Items
  <2>7. PageTypes'
    BY <1>3, <2>1, <2>4, <2>5, <2>6 DEF PagesInv, PageTypes
  <2>8. RingsFit'
    BY <2>1, <2>6, BenchesKinds DEF RingsFit
  <2>9. \A x \in RowIds : \A i \in 1 .. Len(Rows'[x]) : Rows'[x][i] \notin Pages
    <3> SUFFICES ASSUME NEW x \in RowIds, NEW i \in 1 .. Len(Rows'[x]) PROVE Rows'[x][i] = Fake
      BY BenchAssumption
    <3>1. CASE x \in {"ring"} \X (1 .. 2)
      <4>1. PICK q \in 1 .. 2 : x = <<"ring", q>>
        BY <3>1
      <4>2. Rows'[x] = ring'[q]
        BY <4>1 DEF Rows, RowsOf, RowIds
      <4> QED
        BY <2>6, <4>2, ElementOfSeq
    <3>2. CASE x \in {"page", "stack"} \X Cpus
      <4>1. x[1] \in {"page", "stack"} /\ x[2] \in Cpus
        BY <3>2
      <4>2. body'[x[2]].page = None /\ body'[x[2]].stack = << >>
        BY <2>1, <2>4, <4>1 DEF BodiesFit, BodyFits
      <4>3. Rows'[x] = << >>
        BY <4>1, <4>2 DEF Rows, RowsOf, InHand
      <4>4. Len(Rows'[x]) = 0
        BY <4>3
      <4> QED
        BY <4>4
    <3> QED
      BY <3>1, <3>2 DEF RowIds
  <2>10. Once(Rows') /\ InRows(Rows') = {}
    BY <2>9, NoRows
  <2>11. Held' /\ Own' /\ TwoRefs'
    BY <2>1, <2>10, BenchesKinds DEF Held, Own, TwoRefs
  <2> QED
    BY <2>4, <2>7, <2>8, <2>10, <2>11 DEF PagesInv
<1>4. ring[1] \in Seq({Fake})
  BY DEF PagesInv, RingsFit
<1>5. ASSUME NEW s \in Seq({Fake}), ring' = [ring EXCEPT ![1] = s],
             Becomes(c, Counts(c, n)) \/ Leaves(c)
      PROVE  PagesInv'
  <2>1. CASE Becomes(c, Counts(c, n))
    <3> DEFINE b == Counts(c, n)
    <3>1. b \in BodyType /\ BodyFits(b)
      BY CountsIs
    <3>2. body' = [body EXCEPT ![c] = b] /\ UNCHANGED <<vars, bench>>
      BY <2>1 DEF Becomes
    <3> HIDE DEF b
    <3> QED
      BY <1>3, <1>5, <3>1, <3>2
  <2>2. CASE Leaves(c)
    BY <1>1, <1>3, <1>5, <2>2, LeavesIs
  <2> QED
    BY <1>5, <2>1, <2>2
<1>6. CASE Put(1, [j \in 1 .. n |-> Fake]) /\ Becomes(c, Counts(c, n))
  <2>1. [j \in 1 .. n |-> Fake] \in Seq({Fake})
    OBVIOUS
  <2>2. ring[1] \o [j \in 1 .. n |-> Fake] \in Seq({Fake})
    BY <1>4, <2>1, ConcatProperties
  <2> QED
    BY <1>5, <1>6, <2>2 DEF Put
<1>7. CASE Drop(1, n) /\ (Becomes(c, Counts(c, n)) \/ Leaves(c))
  <2>1. \A i \in n + 1 .. Len(ring[1]) : ring[1][i] \in {Fake}
    BY <1>4, ElementOfSeq
  <2>2. SubSeq(ring[1], n + 1, Len(ring[1])) \in Seq({Fake})
    BY <1>4, <2>1, SubSeqProperties
  <2> QED
    BY <1>5, <1>7, <2>2 DEF Drop
<1> QED
  BY <1>2, <1>6, <1>7 DEF EnqOrDeq

LEMMA LocksPages ==
  ASSUME PagesInv, NEW c \in Cpus, LocksLoop(c)
  PROVE  PagesInv'
<1> DEFINE b == Counts(c, 1)
<1>1. /\ thread[c] = "bench" /\ body[c].pc = "loop" /\ main # "spawn" /\ body[c].page = None
      /\ At(c, "loop") /\ UNCHANGED <<ring, pages>> /\ bench = "locks"
  BY InBench DEF LocksLoop
<1>2. CASE Leaves(c)
  BY <1>1, <1>2, LeavesPages
<1>3. CASE Becomes(c, b)
  <2>1. body' = [body EXCEPT ![c] = b] /\ UNCHANGED <<main, thread, bench>>
    BY <1>3 DEF Becomes, vars
  <2>2. b \in BodyType /\ b.page = body[c].page /\ b.stack = body[c].stack /\ b.pc = "loop"
    BY <1>1, CountsIs
  <2> HIDE DEF b
  <2>3. BodyFits(b)
    BY CountsIs DEF b
  <2> QED
    BY <1>1, <2>1, <2>2, <2>3, MovesOn
<1> QED
  BY <1>2, <1>3 DEF LocksLoop

(* What every step of a bench function with pages does: it changes a ring,   *)
(* and what its CPU has.                                                     *)
StepsTo(c, b, q, s) ==
    /\ c \in Cpus /\ q \in 1 .. 2 /\ b \in BodyType /\ BodyFits(b)
    /\ thread[c] = "bench" /\ main # "spawn" /\ bench \notin WithFakes
    /\ body' = [body EXCEPT ![c] = b] /\ ring' = [ring EXCEPT ![q] = s]
    /\ s \in Seq(Pages) /\ (bench \notin WithPages => s = ring[q])
    /\ ref' \in [Pages -> Nat] /\ inited' \subseteq Pages
    /\ UNCHANGED <<main, thread, bench>>

LEMMA StepTypes ==
  ASSUME PagesInv, NEW c, NEW b, NEW q, NEW s, StepsTo(c, b, q, s)
  PROVE  /\ PageTypes' /\ RingsFit' /\ BodiesFit' /\ Unstarted'
         /\ Rows \in [RowIds -> Seq(Items)] /\ Rows' \in [RowIds -> Seq(Items)]
         /\ body'[c] = b /\ \A d \in Cpus : d # c => body'[d] = body[d]
<1> USE DEF StepsTo
<1>1. /\ BodiesFit' /\ Unstarted' /\ body' \in [Cpus -> BodyType] /\ body'[c] = b
      /\ \A d \in Cpus : d # c => body'[d] = body[d]
  BY BodySteps
<1>2. s \in Seq(Items)
  BY SeqMonotonic DEF Items
<1>3. PageTypes'
  BY <1>1, <1>2 DEF PagesInv, PageTypes
<1>4. RingsFit'
  <2>1. CASE bench \in WithPages
    BY <2>1, BenchesKinds DEF PagesInv, PageTypes, RingsFit
  <2>2. CASE bench \notin WithPages
    <3>1. ring' = ring
      BY <2>2 DEF PagesInv, PageTypes
    <3> QED
      BY <3>1 DEF PagesInv, RingsFit
  <2> QED
    BY <2>1, <2>2
<1>5. Rows \in [RowIds -> Seq(Items)] /\ Rows' \in [RowIds -> Seq(Items)]
  BY <1>3, RowsTyped, RowsTypedThen DEF PagesInv
<1> QED
  BY <1>1, <1>3, <1>4, <1>5

RowsChanged(c, b, q, s) ==
    /\ Rows'[<<"ring", q>>] = s /\ Rows[<<"ring", q>>] = ring[q]
    /\ Rows'[<<"page", c>>] = InHand(b.page) /\ Rows[<<"page", c>>] = InHand(body[c].page)
    /\ Rows'[<<"stack", c>>] = b.stack /\ Rows[<<"stack", c>>] = body[c].stack
    /\ \A x \in RowIds : x \notin {<<"ring", q>>, <<"page", c>>, <<"stack", c>>} =>
          Rows'[x] = Rows[x]
    /\ <<"ring", q>> \in RowIds /\ <<"page", c>> \in RowIds /\ <<"stack", c>> \in RowIds
    /\ <<"ring", q>> # <<"page", c>> /\ <<"ring", q>> # <<"stack", c>>
    /\ <<"page", c>> # <<"stack", c>>

LEMMA StepRows ==
  ASSUME PagesInv, NEW c, NEW b, NEW q, NEW s, StepsTo(c, b, q, s)
  PROVE  RowsChanged(c, b, q, s)
<1> USE DEF RowsChanged
<1>1. c \in Cpus /\ q \in 1 .. 2
  BY DEF StepsTo
<1>2. /\ Rows'[<<"ring", q>>] = s
      /\ Rows'[<<"page", c>>] = InHand(b.page) /\ Rows'[<<"stack", c>>] = b.stack
      /\ \A x \in RowIds \ {<<"ring", q>>, <<"page", c>>, <<"stack", c>>} : Rows'[x] = Rows[x]
  <2>1. PageTypes /\ ring' = [ring EXCEPT ![q] = s] /\ body' = [body EXCEPT ![c] = b]
    BY DEF PagesInv, StepsTo
  <2> QED
    BY <1>1, <2>1, RowsChange
<1> QED
  BY <1>1, <1>2, RowsAt

LEMMA StepOthers ==
  ASSUME PagesInv, NEW c, NEW b, NEW q, NEW s, StepsTo(c, b, q, s)
  PROVE  /\ b.page = body[c].page /\ b.stack = body[c].stack =>
               Others(Rows, Rows', <<"ring", q>>)
         /\ s = ring[q] /\ b.stack = body[c].stack => Others(Rows, Rows', <<"page", c>>)
         /\ s = ring[q] /\ b.page = body[c].page => Others(Rows, Rows', <<"stack", c>>)
<1>0. RowsChanged(c, b, q, s)
  BY StepRows
<1>1. ASSUME NEW x \in RowIds
      PROVE  \/ x = <<"ring", q>> \/ x = <<"page", c>> \/ x = <<"stack", c>>
             \/ Rows'[x] = Rows[x]
  BY <1>0 DEF RowsChanged
<1>2. s = ring[q] => Rows'[<<"ring", q>>] = Rows[<<"ring", q>>]
  BY <1>0 DEF RowsChanged
<1>3. b.page = body[c].page => Rows'[<<"page", c>>] = Rows[<<"page", c>>]
  BY <1>0 DEF RowsChanged
<1>4. b.stack = body[c].stack => Rows'[<<"stack", c>>] = Rows[<<"stack", c>>]
  BY <1>0 DEF RowsChanged
<1> QED
  BY <1>1, <1>2, <1>3, <1>4 DEF Others

LEMMA StepEnds ==
  ASSUME PagesInv, NEW c, NEW b, NEW q, NEW s, StepsTo(c, b, q, s),
         Once(Rows'), \A p \in InRows(Rows') : ref'[p] >= 1, Own', TwoRefs'
  PROVE  PagesInv'
BY StepTypes DEF PagesInv, Held

(* What put_page does.                                                       *)
LEMMA PutOne ==
  ASSUME PageTypes, NEW h \in Pages, PutPages(<<h>>), ref[h] >= 1
  PROVE  /\ ref' \in [Pages -> Nat] /\ ref'[h] = ref[h] - 1
         /\ \A p \in Pages : p # h => ref'[p] = ref[p]
<1>1. \A p \in Pages : (\E j \in 1 .. Len(<<h>>) : <<h>>[j] = p) <=> p = h
  OBVIOUS
<1>2. ref' = [p \in Pages |-> IF p = h THEN ref[p] - 1 ELSE ref[p]]
  BY <1>1 DEF PutPages
<1> QED
  BY <1>2 DEF PageTypes

LEMMA PutAll ==
  ASSUME PageTypes, NEW s, PutPages(s), \A j \in 1 .. Len(s) : s[j] \in Pages => ref[s[j]] >= 1
  PROVE  /\ ref' \in [Pages -> Nat]
         /\ \A p \in Pages : (\A j \in 1 .. Len(s) : s[j] # p) => ref'[p] = ref[p]
<1>1. \A p \in Pages : ref[p] \in Nat
  BY DEF PageTypes
<1>2. ASSUME NEW p \in Pages
      PROVE  /\ ref'[p] \in Nat
             /\ (\A j \in 1 .. Len(s) : s[j] # p) => ref'[p] = ref[p]
  <2>1. CASE \E j \in 1 .. Len(s) : s[j] = p
    <3>1. ref[p] >= 1 /\ ref'[p] = ref[p] - 1
      BY <2>1 DEF PutPages
    <3> QED
      BY <1>1, <2>1, <3>1
  <2>2. CASE ~ \E j \in 1 .. Len(s) : s[j] = p
    <3>1. ref'[p] = ref[p]
      BY <2>2 DEF PutPages
    <3> QED
      BY <1>1, <3>1
  <2> QED
    BY <2>1, <2>2
<1>3. ref' = [p \in Pages |-> ref'[p]]
  BY DEF PutPages
<1> QED
  BY <1>2, <1>3

LEMMA HeadOf ==
  ASSUME PagesInv, NEW q \in 1 .. 2, bench \in WithPages, ring[q] # << >>
  PROVE  /\ Head(ring[q]) \in Pages /\ Head(ring[q]) \in InRows(Rows)
         /\ ref[Head(ring[q])] >= 1 /\ Head(ring[q]) = ring[q][1] /\ 1 \in 1 .. Len(ring[q])
         /\ Tail(ring[q]) \in Seq(Pages)
         /\ SubSeq(ring[q], 1 + 1, Len(ring[q])) = Tail(ring[q])
<1>1. ring[q] \in Seq(Pages)
  BY DEF PagesInv, RingsFit
<1>2. 1 \in 1 .. Len(ring[q]) /\ Head(ring[q]) = ring[q][1]
  BY <1>1, EmptySeq
<1>3. Head(ring[q]) \in Pages /\ Tail(ring[q]) \in Seq(Pages)
  BY <1>1, HeadTailProperties
<1>4. Tail(ring[q]) = SubSeq(ring[q], 2, Len(ring[q]))
  BY <1>1, TailIsSubSeq
<1> QED
  BY <1>2, <1>3, <1>4, OnRingIs

(* What a step does to the rows: it takes the first page off a ring, adds    *)
(* one to it, or moves one between a ring and the hand or the stack of a CPU.*)
Moving(c, b, q, s) ==
    /\ PagesInv /\ StepsTo(c, b, q, s)
    /\ Once(Rows) /\ Rows \in [RowIds -> Seq(Items)] /\ Rows' \in [RowIds -> Seq(Items)]
    /\ RowsChanged(c, b, q, s)

LEMMA StepMoves ==
  ASSUME PagesInv, NEW c, NEW b, NEW q, NEW s, StepsTo(c, b, q, s)
  PROVE  Moving(c, b, q, s)
BY StepTypes, StepRows DEF Moving, PagesInv

LEMMA PopRing ==
  ASSUME PagesInv, NEW c, NEW b, NEW q, StepsTo(c, b, q, Tail(ring[q])), ring[q] # << >>,
         b.page = body[c].page, b.stack = body[c].stack
  PROVE  Once(Rows') /\ InRows(Rows') = InRows(Rows) \ {Head(ring[q])}
<1> DEFINE s == Tail(ring[q])
<1> HIDE DEF s
<1>1. Moving(c, b, q, s)
  BY StepMoves DEF s
<1>2. Others(Rows, Rows', <<"ring", q>>)
  BY StepOthers DEF s
<1>3. /\ Rows'[<<"ring", q>>] = s /\ Rows[<<"ring", q>>] = ring[q] /\ <<"ring", q>> \in RowIds
  BY <1>1 DEF Moving, RowsChanged
<1>4. Popped(Rows, Rows', <<"ring", q>>)
  BY <1>2, <1>3 DEF Popped, s
<1>5. Once(Rows) /\ Rows \in [RowIds -> Seq(Items)] /\ Rows' \in [RowIds -> Seq(Items)]
  BY <1>1 DEF Moving
<1>6. Once(Rows') /\ InRows(Rows') = InRows(Rows) \ {Head(Rows[<<"ring", q>>])}
  BY <1>3, <1>4, <1>5, RowPop
<1> QED
  BY <1>3, <1>6

LEMMA PushRing ==
  ASSUME PagesInv, NEW c, NEW b, NEW q, NEW p \in Pages, p \notin InRows(Rows),
         StepsTo(c, b, q, Append(ring[q], p)),
         b.page = body[c].page, b.stack = body[c].stack
  PROVE  Once(Rows') /\ InRows(Rows') = InRows(Rows) \cup {p}
<1> DEFINE s == Append(ring[q], p)
<1> HIDE DEF s
<1>1. Moving(c, b, q, s)
  BY StepMoves DEF s
<1>2. Others(Rows, Rows', <<"ring", q>>)
  BY StepOthers DEF s
<1>3. /\ Rows'[<<"ring", q>>] = s /\ Rows[<<"ring", q>>] = ring[q] /\ <<"ring", q>> \in RowIds
  BY <1>1 DEF Moving, RowsChanged
<1>4. Pushed(Rows, Rows', <<"ring", q>>, p)
  BY <1>2, <1>3 DEF Pushed, s
<1>5. Once(Rows) /\ Rows \in [RowIds -> Seq(Items)] /\ Rows' \in [RowIds -> Seq(Items)]
  BY <1>1 DEF Moving
<1> QED
  BY <1>3, <1>4, <1>5, RowPush

(* Append(<<>>, p), Tail(<<p>>), Head(<<p>>).                                *)
LEMMA Single ==
  ASSUME NEW p
  PROVE  /\ Append(<< >>, p) = <<p>> /\ Tail(<<p>>) = << >> /\ Head(<<p>>) = p /\ <<p>> # << >>
         /\ {<<p>>[i] : i \in 1 .. Len(<<p>>)} = {p}
OBVIOUS

(* From a ring into the hands of a CPU, or on its stack.                     *)
LEMMA RingToHand ==
  ASSUME PagesInv, NEW c, NEW b, NEW q, NEW h \in Pages, StepsTo(c, b, q, Tail(ring[q])),
         ring[q] # << >>, Head(ring[q]) = h,
         \/ body[c].page = None /\ b.page = h /\ b.stack = body[c].stack
         \/ b.page = body[c].page /\ b.stack = Append(body[c].stack, h)
  PROVE  Once(Rows') /\ InRows(Rows') = InRows(Rows)
<1> DEFINE s == Tail(ring[q])
<1> HIDE DEF s
<1>1. Moving(c, b, q, s)
  BY StepMoves DEF s
<1>2. Once(Rows) /\ Rows \in [RowIds -> Seq(Items)] /\ Rows' \in [RowIds -> Seq(Items)]
  BY <1>1 DEF Moving
<1>3. RowsChanged(c, b, q, s)
  BY <1>1 DEF Moving
<1>4. h # None
  BY BenchAssumption
<1>5. ASSUME NEW x \in RowIds
      PROVE  \/ x = <<"ring", q>> \/ x = <<"page", c>> \/ x = <<"stack", c>>
             \/ Rows'[x] = Rows[x]
  BY <1>3 DEF RowsChanged
<1>6. CASE body[c].page = None /\ b.page = h /\ b.stack = body[c].stack
  <2>1. Rows[<<"page", c>>] = << >> /\ Rows'[<<"page", c>>] = <<h>>
    BY <1>3, <1>4, <1>6 DEF RowsChanged, InHand
  <2>2. Rows'[<<"page", c>>] = Append(Rows[<<"page", c>>], h)
    BY <2>1, Single
  <2>3. \A z \in RowIds : z # <<"ring", q>> /\ z # <<"page", c>> => Rows'[z] = Rows[z]
    BY <1>3, <1>5, <1>6 DEF RowsChanged
  <2>4. /\ Rows'[<<"ring", q>>] = Tail(Rows[<<"ring", q>>]) /\ Rows[<<"ring", q>>] # << >>
        /\ Head(Rows[<<"ring", q>>]) = h /\ <<"ring", q>> # <<"page", c>>
        /\ <<"ring", q>> \in RowIds /\ <<"page", c>> \in RowIds
    BY <1>3 DEF RowsChanged, s
  <2>5. Moved(Rows, Rows', <<"ring", q>>, <<"page", c>>)
    BY <2>2, <2>3, <2>4 DEF Moved
  <2> QED
    BY <1>2, <2>4, <2>5, RowMove
<1>7. CASE b.page = body[c].page /\ b.stack = Append(body[c].stack, h)
  <2>2. Rows'[<<"stack", c>>] = Append(Rows[<<"stack", c>>], h)
    BY <1>3, <1>7 DEF RowsChanged
  <2>3. \A z \in RowIds : z # <<"ring", q>> /\ z # <<"stack", c>> => Rows'[z] = Rows[z]
    BY <1>3, <1>5, <1>7 DEF RowsChanged
  <2>4. /\ Rows'[<<"ring", q>>] = Tail(Rows[<<"ring", q>>]) /\ Rows[<<"ring", q>>] # << >>
        /\ Head(Rows[<<"ring", q>>]) = h /\ <<"ring", q>> # <<"stack", c>>
        /\ <<"ring", q>> \in RowIds /\ <<"stack", c>> \in RowIds
    BY <1>3 DEF RowsChanged, s
  <2>5. Moved(Rows, Rows', <<"ring", q>>, <<"stack", c>>)
    BY <2>2, <2>3, <2>4 DEF Moved
  <2> QED
    BY <1>2, <2>4, <2>5, RowMove
<1> QED
  BY <1>6, <1>7

(* From the hands of a CPU to a ring.                                        *)
LEMMA HandToRing ==
  ASSUME PagesInv, NEW c, NEW b, NEW q, NEW h \in Pages, body[c].page = h,
         StepsTo(c, b, q, Append(ring[q], h)), b.page = None, b.stack = body[c].stack
  PROVE  Once(Rows') /\ InRows(Rows') = InRows(Rows)
<1> DEFINE s == Append(ring[q], h)
<1> HIDE DEF s
<1>1. Moving(c, b, q, s)
  BY StepMoves DEF s
<1>2. Once(Rows) /\ Rows \in [RowIds -> Seq(Items)] /\ Rows' \in [RowIds -> Seq(Items)]
  BY <1>1 DEF Moving
<1>3. RowsChanged(c, b, q, s)
  BY <1>1 DEF Moving
<1>4. h # None
  BY BenchAssumption
<1>5. ASSUME NEW x \in RowIds
      PROVE  \/ x = <<"ring", q>> \/ x = <<"page", c>> \/ x = <<"stack", c>>
             \/ Rows'[x] = Rows[x]
  BY <1>3 DEF RowsChanged
<1>6. Rows[<<"page", c>>] = <<h>> /\ Rows'[<<"page", c>>] = << >>
  BY <1>3, <1>4 DEF RowsChanged, InHand
<1>7. /\ Rows'[<<"page", c>>] = Tail(Rows[<<"page", c>>])
      /\ Rows[<<"page", c>>] # << >> /\ Head(Rows[<<"page", c>>]) = h
  BY <1>6, Single
<1>8. \A z \in RowIds : z # <<"page", c>> /\ z # <<"ring", q>> => Rows'[z] = Rows[z]
  BY <1>3, <1>5 DEF RowsChanged
<1>9. /\ Rows'[<<"ring", q>>] = Append(Rows[<<"ring", q>>], h) /\ <<"page", c>> # <<"ring", q>>
      /\ <<"ring", q>> \in RowIds /\ <<"page", c>> \in RowIds
  BY <1>3 DEF RowsChanged, s
<1>10. Moved(Rows, Rows', <<"page", c>>, <<"ring", q>>)
  BY <1>7, <1>8, <1>9 DEF Moved
<1> QED
  BY <1>2, <1>9, <1>10, RowMove

(* A CPU gets a page that was nowhere, or gives up the one it has.           *)
LEMMA HandGets ==
  ASSUME PagesInv, NEW c, NEW b, NEW q, NEW p \in Pages, p \notin InRows(Rows),
         StepsTo(c, b, q, ring[q]),
         \/ body[c].page = None /\ b.page = p /\ b.stack = body[c].stack
         \/ b.page = body[c].page /\ b.stack = Append(body[c].stack, p)
  PROVE  Once(Rows') /\ InRows(Rows') = InRows(Rows) \cup {p}
<1>1. Moving(c, b, q, ring[q])
  BY StepMoves
<1>2. Once(Rows) /\ Rows \in [RowIds -> Seq(Items)] /\ Rows' \in [RowIds -> Seq(Items)]
  BY <1>1 DEF Moving
<1>3. RowsChanged(c, b, q, ring[q])
  BY <1>1 DEF Moving
<1>4. p # None
  BY BenchAssumption
<1>5. CASE body[c].page = None /\ b.page = p /\ b.stack = body[c].stack
  <2>1. Rows[<<"page", c>>] = << >> /\ Rows'[<<"page", c>>] = <<p>> /\ <<"page", c>> \in RowIds
    BY <1>3, <1>4, <1>5 DEF RowsChanged, InHand
  <2>2. Rows'[<<"page", c>>] = Append(Rows[<<"page", c>>], p)
    BY <2>1, Single
  <2>3. Others(Rows, Rows', <<"page", c>>)
    BY <1>5, StepOthers
  <2>4. Pushed(Rows, Rows', <<"page", c>>, p)
    BY <2>2, <2>3 DEF Pushed
  <2> QED
    BY <1>2, <2>1, <2>4, RowPush
<1>6. CASE b.page = body[c].page /\ b.stack = Append(body[c].stack, p)
  <2>1. Rows'[<<"stack", c>>] = Append(Rows[<<"stack", c>>], p) /\ <<"stack", c>> \in RowIds
    BY <1>3, <1>6 DEF RowsChanged
  <2>2. Others(Rows, Rows', <<"stack", c>>)
    BY <1>6, StepOthers
  <2>3. Pushed(Rows, Rows', <<"stack", c>>, p)
    BY <2>1, <2>2 DEF Pushed
  <2> QED
    BY <1>2, <2>1, <2>3, RowPush
<1> QED
  BY <1>5, <1>6

LEMMA HandLoses ==
  ASSUME PagesInv, NEW c, NEW b, NEW q, NEW h \in Pages, StepsTo(c, b, q, ring[q]),
         \/ body[c].page = h /\ b.page = None /\ b.stack = body[c].stack
         \/ /\ b.page = body[c].page /\ body[c].stack # << >>
            /\ h = Head(body[c].stack) /\ b.stack = Tail(body[c].stack)
  PROVE  Once(Rows') /\ InRows(Rows') = InRows(Rows) \ {h}
<1>1. Moving(c, b, q, ring[q])
  BY StepMoves
<1>2. Once(Rows) /\ Rows \in [RowIds -> Seq(Items)] /\ Rows' \in [RowIds -> Seq(Items)]
  BY <1>1 DEF Moving
<1>3. RowsChanged(c, b, q, ring[q])
  BY <1>1 DEF Moving
<1>4. h # None
  BY BenchAssumption
<1>5. CASE body[c].page = h /\ b.page = None /\ b.stack = body[c].stack
  <2>1. Rows[<<"page", c>>] = <<h>> /\ Rows'[<<"page", c>>] = << >> /\ <<"page", c>> \in RowIds
    BY <1>3, <1>4, <1>5 DEF RowsChanged, InHand
  <2>2. /\ Rows[<<"page", c>>] # << >> /\ Rows'[<<"page", c>>] = Tail(Rows[<<"page", c>>])
        /\ Head(Rows[<<"page", c>>]) = h
    BY <2>1, Single
  <2>3. Others(Rows, Rows', <<"page", c>>)
    BY <1>5, StepOthers
  <2>4. Popped(Rows, Rows', <<"page", c>>)
    BY <2>2, <2>3 DEF Popped
  <2>5. Once(Rows') /\ InRows(Rows') = InRows(Rows) \ {Head(Rows[<<"page", c>>])}
    BY <1>2, <2>1, <2>4, RowPop
  <2> QED
    BY <2>2, <2>5
<1>6. CASE /\ b.page = body[c].page /\ body[c].stack # << >>
           /\ h = Head(body[c].stack) /\ b.stack = Tail(body[c].stack)
  <2>1. /\ Rows[<<"stack", c>>] # << >> /\ Rows'[<<"stack", c>>] = Tail(Rows[<<"stack", c>>])
        /\ Head(Rows[<<"stack", c>>]) = h /\ <<"stack", c>> \in RowIds
    BY <1>3, <1>6 DEF RowsChanged
  <2>2. Others(Rows, Rows', <<"stack", c>>)
    BY <1>6, StepOthers
  <2>3. Popped(Rows, Rows', <<"stack", c>>)
    BY <2>1, <2>2 DEF Popped
  <2>4. Once(Rows') /\ InRows(Rows') = InRows(Rows) \ {Head(Rows[<<"stack", c>>])}
    BY <1>2, <2>1, <2>3, RowPop
  <2> QED
    BY <2>1, <2>4
<1> QED
  BY <1>5, <1>6

LEMMA AllocPages ==
  ASSUME PagesInv, NEW c \in Cpus, bench \in {"alloc_put", "experiment1"}, AllocAndEnqueue(c)
  PROVE  PagesInv'
<1>0. bench \in WithPages /\ bench \notin WithFakes /\ bench \notin OnTheirOwn
      /\ bench # "experiment3"
  BY BenchesKinds DEF WithPages
<1>1. /\ thread[c] = "bench" /\ body[c].pc = "loop" /\ main # "spawn" /\ body[c].page = None
      /\ At(c, "loop") /\ inited' = inited
  BY InBench DEF AllocAndEnqueue
<1>2. CASE Leaves(c) /\ UNCHANGED <<ring, ref>>
  BY <1>1, <1>2, LeavesPages DEF pages
<1>3. ring[1] \in Seq(Pages) /\ ref \in [Pages -> Nat] /\ ring \in [1 .. 2 -> Seq(Items)]
      /\ inited \subseteq Pages
  BY <1>0 DEF PagesInv, RingsFit, PageTypes
<1>4. ASSUME MemoryLeft, ref' = [ref EXCEPT ![FreePage] = 1]
      PROVE  /\ ref' \in [Pages -> Nat] /\ FreePage \in Pages /\ FreePage \notin InRows(Rows)
             /\ \A p \in InRows(Rows) \cup {FreePage} : ref'[p] >= 1
  <2>1. FreePage \in Pages /\ FreePage \notin InRows(Rows)
    BY <1>4, FreePageIs
  <2>2. \A p \in InRows(Rows) : p \in Pages /\ ref[p] >= 1
    BY DEF PagesInv, Held, InRows
  <2> QED
    BY <1>3, <1>4, <2>1, <2>2
<1>5. CASE MemoryLeft /\ ref' = [ref EXCEPT ![FreePage] = 1]
           /\ Put(1, <<FreePage>>) /\ Becomes(c, Counts(c, 1))
  <2> DEFINE b == Counts(c, 1)
             s == Append(ring[1], FreePage)
  <2>0. FreePage \in Pages
    BY <1>4, <1>5
  <2>1. ring[1] \o <<FreePage>> = s /\ s \in Seq(Pages)
    BY <1>3, <2>0
  <2>2. b \in BodyType /\ b.page = None /\ b.stack = body[c].stack /\ BodyFits(b)
    BY CountsIs
  <2>3. /\ body' = [body EXCEPT ![c] = b] /\ ring' = [ring EXCEPT ![1] = s]
        /\ UNCHANGED <<main, thread, bench>>
    BY <1>5, <2>1 DEF Put, Becomes, vars
  <2> HIDE DEF b, s
  <2>4. StepsTo(c, b, 1, s)
    BY <1>0, <1>1, <1>3, <1>4, <1>5, <2>1, <2>2, <2>3 DEF StepsTo
  <2>6. Once(Rows') /\ InRows(Rows') = InRows(Rows) \cup {FreePage}
    BY <1>1, <1>4, <1>5, <2>0, <2>2, <2>4, PushRing DEF s
  <2>7. Own' /\ TwoRefs'
    BY <1>0, <2>3 DEF Own, TwoRefs
  <2> QED
    BY <1>4, <1>5, <2>4, <2>6, <2>7, StepEnds
<1>6. CASE MemoryLeft /\ ref' = [ref EXCEPT ![FreePage] = 1] /\ Leaves(c) /\ UNCHANGED ring
  <2> DEFINE b == [body[c] EXCEPT !.pc = "done", !.page = None]
  <2>1. body' = [body EXCEPT ![c] = b] /\ UNCHANGED <<main, thread, bench>>
    BY <1>0, <1>6 DEF Leaves, Becomes, vars
  <2>2. b \in BodyType /\ b.page = None /\ b.stack = body[c].stack /\ b.pc = "done"
    BY BodyIs DEF BodyType
  <2> HIDE DEF b
  <2>3. BodyFits(b)
    BY <2>2, BodyIs DEF BodyFits
  <2>4. StepsTo(c, b, 1, ring[1])
    BY <1>0, <1>1, <1>3, <1>4, <1>6, <2>1, <2>2, <2>3 DEF StepsTo
  <2>5. Rows' = Rows
    BY <1>1, <1>6, <2>1, <2>2, RowsStay DEF PagesInv
  <2>6. Own' /\ TwoRefs'
    BY <1>0, <2>1 DEF Own, TwoRefs
  <2>7. Once(Rows') /\ \A p \in InRows(Rows') : ref'[p] >= 1
    BY <1>4, <1>6, <2>5 DEF PagesInv
  <2> QED
    BY <2>4, <2>6, <2>7, StepEnds
<1> QED
  BY <1>2, <1>5, <1>6 DEF AllocAndEnqueue

LEMMA DequeuePages ==
  ASSUME PagesInv, NEW c \in Cpus, bench = "alloc_put", DequeueAndPut(c)
  PROVE  PagesInv'
<1>0. bench \in WithPages /\ bench \notin WithFakes /\ bench \notin OnTheirOwn
      /\ bench # "experiment3"
  BY BenchesKinds DEF WithPages
<1>1. /\ thread[c] = "bench" /\ body[c].pc = "loop" /\ main # "spawn" /\ body[c].page = None
      /\ At(c, "loop") /\ inited' = inited
  BY InBench DEF DequeueAndPut
<1>2. CASE Leaves(c) /\ UNCHANGED <<ring, ref>>
  BY <1>1, <1>2, LeavesPages DEF pages
<1>3. CASE ring[1] # << >> /\ PutPages(<<Head(ring[1])>>) /\ Drop(1, 1)
           /\ Becomes(c, Counts(c, 1))
  <2> DEFINE b == Counts(c, 1)
             s == Tail(ring[1])
  <2>1. PICK h \in Pages : h = Head(ring[1])
    BY <1>0, <1>3, HeadOf
  <2>2. ref[h] >= 1 /\ s \in Seq(Pages) /\ SubSeq(ring[1], 1 + 1, Len(ring[1])) = s
    BY <1>0, <1>3, <2>1, HeadOf
  <2>3. b \in BodyType /\ b.page = None /\ b.stack = body[c].stack /\ BodyFits(b)
    BY CountsIs
  <2>4. /\ body' = [body EXCEPT ![c] = b] /\ ring' = [ring EXCEPT ![1] = s]
        /\ UNCHANGED <<main, thread, bench>>
    BY <1>3, <2>2 DEF Drop, Becomes, vars
  <2>5. /\ ref' \in [Pages -> Nat] /\ \A p \in Pages : p # h => ref'[p] = ref[p]
    BY <1>3, <2>1, <2>2, PutOne DEF PagesInv
  <2> HIDE DEF b
  <2>6. StepsTo(c, b, 1, s)
    BY <1>0, <1>1, <2>2, <2>3, <2>4, <2>5 DEF StepsTo, PagesInv, PageTypes
  <2>8. Once(Rows') /\ InRows(Rows') = InRows(Rows) \ {h}
    <3>1. b.page = body[c].page /\ b.stack = body[c].stack /\ ring[1] # << >>
      BY <1>1, <1>3, <2>3
    <3>2. Once(Rows') /\ InRows(Rows') = InRows(Rows) \ {Head(ring[1])}
      BY <2>6, <3>1, PopRing, Zenon
    <3> QED
      BY <2>1, <3>2
  <2>9. \A p \in InRows(Rows') : ref'[p] >= 1
    BY <2>5, <2>8 DEF PagesInv, Held, InRows
  <2>10. Own' /\ TwoRefs'
    BY <1>0, <2>4 DEF Own, TwoRefs
  <2> QED
    BY <2>6, <2>8, <2>9, <2>10, StepEnds
<1> QED
  BY <1>2, <1>3 DEF DequeueAndPut

LEMMA StackPagesKept ==
  ASSUME PagesInv, NEW c \in Cpus, bench = "experiment1", StackPages(c)
  PROVE  PagesInv'
<1>0. bench \in WithPages /\ bench \notin WithFakes /\ bench \notin OnTheirOwn
      /\ bench # "experiment3"
  BY BenchesKinds DEF WithPages
<1>1. /\ thread[c] = "bench" /\ body[c].pc = "loop" /\ main # "spawn" /\ body[c].page = None
      /\ At(c, "loop") /\ inited' = inited
  BY InBench DEF StackPages
<1>2. CASE Leaves(c) /\ UNCHANGED <<ring, ref>>
  BY <1>1, <1>2, LeavesPages DEF pages
<1>3. body[c].stack \in Seq(Pages) /\ ref \in [Pages -> Nat] /\ inited \subseteq Pages
  BY BodyIs DEF PagesInv, PageTypes
<1>4. \A p \in InRows(Rows) : p \in Pages /\ ref[p] >= 1
  BY DEF PagesInv, Held, InRows
<1>5. CASE ring[1] # << >> /\ Drop(1, 1) /\ Len(body[c].stack) < 2 /\ UNCHANGED ref
           /\ Becomes(c, [Counts(c, 1) EXCEPT !.stack = Append(@, Head(ring[1]))])
  <2> DEFINE b == [Counts(c, 1) EXCEPT !.stack = Append(@, Head(ring[1]))]
             s == Tail(ring[1])
  <2>1. PICK h \in Pages : h = Head(ring[1])
    BY <1>0, <1>5, HeadOf
  <2>2. s \in Seq(Pages) /\ SubSeq(ring[1], 1 + 1, Len(ring[1])) = s
    BY <1>0, <1>5, HeadOf
  <2>3. b \in BodyType /\ b.page = None /\ b.stack = Append(body[c].stack, h) /\ b.pc = "loop"
    <3>1. /\ Counts(c, 1) \in BodyType /\ Counts(c, 1).page = None
          /\ Counts(c, 1).stack = body[c].stack /\ Counts(c, 1).pc = "loop"
      BY CountsIs
    <3>2. Append(body[c].stack, h) \in Seq(Pages)
      BY <1>3, <2>1
    <3> QED
      BY <2>1, <3>1, <3>2 DEF BodyType
  <2>4. /\ body' = [body EXCEPT ![c] = b] /\ ring' = [ring EXCEPT ![1] = s]
        /\ UNCHANGED <<main, thread, bench>>
    BY <1>5, <2>2 DEF Drop, Becomes, vars
  <2> HIDE DEF b
  <2>5. BodyFits(b)
    <3>1. Len(b.stack) <= 2
      BY <1>3, <1>5, <2>1, <2>3
    <3>2. 2 <= Bulk + 1
      BY BenchAssumption
    <3>3. Len(b.stack) <= Bulk + 1
      <4>1. Len(b.stack) \in Nat /\ Bulk \in Nat
        BY <1>3, <2>1, <2>3, BenchAssumption
      <4> QED
        BY <3>1, <3>2, <4>1
    <3> QED
      BY <1>0, <2>3, <3>3 DEF BodyFits
  <2>6. StepsTo(c, b, 1, s)
    BY <1>0, <1>1, <1>3, <1>5, <2>2, <2>3, <2>4, <2>5 DEF StepsTo
  <2>7. Once(Rows') /\ InRows(Rows') = InRows(Rows)
    <3>1. b.page = body[c].page /\ b.stack = Append(body[c].stack, h) /\ Head(ring[1]) = h
      BY <1>1, <2>1, <2>3
    <3> QED
      BY <1>5, <2>6, <3>1, RingToHand, Zenon
  <2>8. Own' /\ TwoRefs'
    BY <1>0, <2>4 DEF Own, TwoRefs
  <2>9. \A p \in InRows(Rows') : ref'[p] >= 1
    BY <1>4, <1>5, <2>7
  <2> QED
    BY <2>6, <2>7, <2>8, <2>9, StepEnds
<1>6. CASE ring[1] # << >> /\ Drop(1, 1) /\ PutPages(body[c].stack)
           /\ Becomes(c, [Counts(c, 1) EXCEPT !.stack = << >>])
  <2> DEFINE b == [Counts(c, 1) EXCEPT !.stack = << >>]
             s == Tail(ring[1])
  <2>1. s \in Seq(Pages) /\ SubSeq(ring[1], 1 + 1, Len(ring[1])) = s
    BY <1>0, <1>6, HeadOf
  <2>2. b \in BodyType /\ b.page = None /\ b.stack = << >> /\ b.pc = "loop"
    <3>1. Counts(c, 1) \in BodyType /\ Counts(c, 1).page = None /\ Counts(c, 1).pc = "loop"
      BY CountsIs
    <3>2. << >> \in Seq(Pages)
      BY EmptySeq
    <3> QED
      BY <3>1, <3>2 DEF BodyType
  <2>3. /\ body' = [body EXCEPT ![c] = b] /\ ring' = [ring EXCEPT ![1] = s]
        /\ UNCHANGED <<main, thread, bench>>
    BY <1>6, <2>1 DEF Drop, Becomes, vars
  <2> HIDE DEF b, s
  <2>4. BodyFits(b)
    <3>1. Len(b.stack) = 0 /\ 0 <= Bulk + 1
      BY <2>2, BenchAssumption
    <3> QED
      BY <1>0, <2>2, <3>1 DEF BodyFits
  <2>5. ASSUME NEW j \in 1 .. Len(body[c].stack) PROVE body[c].stack[j] \in InRows(Rows)
    <3>1. body[c].stack[j] \in Pages
      BY <1>3, ElementOfSeq
    <3>2. <<"stack", c>> \in RowIds /\ Rows[<<"stack", c>>] = body[c].stack
      BY RowsAt
    <3> QED
      BY <3>1, <3>2 DEF InRows
  <2>6. /\ ref' \in [Pages -> Nat]
        /\ \A p \in Pages : (\A j \in 1 .. Len(body[c].stack) : body[c].stack[j] # p) => ref'[p] = ref[p]
    BY <1>4, <1>6, <2>5, PutAll DEF PagesInv
  <2>7. StepsTo(c, b, 1, s)
    BY <1>0, <1>1, <1>3, <1>6, <2>1, <2>2, <2>3, <2>4, <2>6 DEF StepsTo
  <2>8. Moving(c, b, 1, s)
    BY <2>7, StepMoves
  <2>9. Once(Rows) /\ Rows \in [RowIds -> Seq(Items)] /\ Rows' \in [RowIds -> Seq(Items)]
    BY <2>8 DEF Moving
  <2>10. PopsAndClears(Rows, Rows', <<"ring", 1>>, <<"stack", c>>)
    <3>1. RowsChanged(c, b, 1, s)
      BY <2>8 DEF Moving
    <3>2. Rows'[<<"stack", c>>] = << >> /\ Rows'[<<"ring", 1>>] = Tail(Rows[<<"ring", 1>>])
          /\ Rows[<<"ring", 1>>] # << >>
      BY <1>6, <2>2, <3>1 DEF RowsChanged, s
    <3>3. ASSUME NEW z \in RowIds, z # <<"ring", 1>>, z # <<"stack", c>> PROVE Rows'[z] = Rows[z]
      BY <1>1, <2>2, <3>1, <3>3 DEF RowsChanged
    <3> QED
      BY <3>1, <3>2, <3>3 DEF PopsAndClears, RowsChanged
  <2>11. <<"ring", 1>> \in RowIds /\ <<"stack", c>> \in RowIds
         /\ Rows[<<"stack", c>>] = body[c].stack
    BY <2>8 DEF Moving, RowsChanged
  <2>12. /\ Once(Rows') /\ InRows(Rows') \subseteq InRows(Rows)
         /\ \A p \in InRows(Rows') : \A i \in 1 .. Len(body[c].stack) : body[c].stack[i] # p
    BY <2>9, <2>10, <2>11, RowPopClear
  <2>13. \A p \in InRows(Rows') : ref'[p] >= 1
    BY <1>4, <2>6, <2>12
  <2>14. Own' /\ TwoRefs'
    BY <1>0, <2>3 DEF Own, TwoRefs
  <2> QED
    BY <2>7, <2>12, <2>13, <2>14, StepEnds
<1> QED
  BY <1>2, <1>5, <1>6 DEF StackPages

(* A CPU on its own: what it allocates, it has; what it frees, it had.       *)
OwnStep(b) == /\ bench \in OnTheirOwn /\ bench \notin WithFakes /\ bench \notin WithPages
              /\ bench # "experiment3" /\ b.pc \in {"loop", "free"}

LEMMA OwnAllocates ==
  ASSUME PagesInv, NEW c \in Cpus, NEW b \in BodyType, OwnStep(b), BodyFits(b),
         thread[c] = "bench", main # "spawn", Becomes(c, b), MemoryLeft,
         ref' = [ref EXCEPT ![FreePage] = 1], UNCHANGED <<ring, inited>>,
         \/ body[c].page = None /\ b.page = FreePage /\ b.stack = body[c].stack
         \/ b.page = body[c].page /\ b.stack = Append(body[c].stack, FreePage)
  PROVE  PagesInv'
<1> USE DEF OwnStep
<1>1. FreePage \in Pages /\ ref[FreePage] = 0 /\ FreePage \notin InRows(Rows)
  BY FreePageIs
<1>2. ring[1] \in Seq(Pages) /\ ref \in [Pages -> Nat] /\ inited \subseteq Pages
      /\ ring \in [1 .. 2 -> Seq(Items)]
  <2>1. ring[1] = << >>
    BY DEF PagesInv, RingsFit, NoRings
  <2> QED
    BY <2>1, EmptySeq DEF PagesInv, PageTypes
<1>3. body' = [body EXCEPT ![c] = b] /\ UNCHANGED <<main, thread, bench>>
      /\ ring' = [ring EXCEPT ![1] = ring[1]]
  BY <1>2 DEF Becomes, vars
<1>4. StepsTo(c, b, 1, ring[1])
  <2>1. ref' \in [Pages -> Nat] /\ inited' \subseteq Pages /\ 1 \in 1 .. 2
    BY <1>1, <1>2
  <2> QED
    BY <1>2, <1>3, <2>1, Zenon DEF StepsTo
<1>5. Once(Rows') /\ InRows(Rows') = InRows(Rows) \cup {FreePage}
  BY <1>1, <1>4, HandGets
<1>6. \A p \in Pages : ref'[p] = IF p = FreePage THEN 1 ELSE ref[p]
  BY <1>1, <1>2
<1>7. \A p \in InRows(Rows') : ref'[p] >= 1
  BY <1>1, <1>5, <1>6 DEF PagesInv, Held, InRows
<1>8. Own' /\ TwoRefs'
  BY <1>1, <1>3, <1>5, <1>6 DEF PagesInv, Own, TwoRefs
<1> QED
  BY <1>4, <1>5, <1>7, <1>8, StepEnds

LEMMA OwnFrees ==
  ASSUME PagesInv, NEW c \in Cpus, NEW b \in BodyType, OwnStep(b), BodyFits(b),
         thread[c] = "bench", main # "spawn", Becomes(c, b), UNCHANGED <<ring, inited>>,
         NEW h \in Pages, PutPages(<<h>>), h \in InRows(Rows),
         \/ body[c].page = h /\ b.page = None /\ b.stack = body[c].stack
         \/ /\ b.page = body[c].page /\ body[c].stack # << >>
            /\ h = Head(body[c].stack) /\ b.stack = Tail(body[c].stack)
  PROVE  PagesInv'
<1> USE DEF OwnStep
<1>1. ref[h] >= 1 /\ ref[h] <= 1 /\ ref[h] \in Nat
  BY DEF PagesInv, Held, Own, PageTypes
<1>2. ring[1] \in Seq(Pages) /\ ref \in [Pages -> Nat] /\ inited \subseteq Pages
      /\ ring \in [1 .. 2 -> Seq(Items)]
  <2>1. ring[1] = << >>
    BY DEF PagesInv, RingsFit, NoRings
  <2> QED
    BY <2>1, EmptySeq DEF PagesInv, PageTypes
<1>3. body' = [body EXCEPT ![c] = b] /\ UNCHANGED <<main, thread, bench>>
      /\ ring' = [ring EXCEPT ![1] = ring[1]]
  BY <1>2 DEF Becomes, vars
<1>4. /\ ref' \in [Pages -> Nat] /\ ref'[h] = 0 /\ \A p \in Pages : p # h => ref'[p] = ref[p]
  BY <1>1, PutOne DEF PagesInv
<1>5. StepsTo(c, b, 1, ring[1])
  <2>1. inited' \subseteq Pages /\ 1 \in 1 .. 2
    BY <1>2
  <2> QED
    BY <1>2, <1>3, <1>4, <2>1, Zenon DEF StepsTo
<1>6. Once(Rows') /\ InRows(Rows') = InRows(Rows) \ {h}
  BY <1>5, HandLoses
<1>7. \A p \in InRows(Rows') : ref'[p] >= 1
  BY <1>4, <1>6 DEF PagesInv, Held, InRows
<1>8. Own' /\ TwoRefs'
  BY <1>3, <1>4, <1>6 DEF PagesInv, Own, TwoRefs
<1> QED
  BY <1>5, <1>6, <1>7, <1>8, StepEnds

LEMMA AllocFreePages ==
  ASSUME PagesInv, NEW c \in Cpus, bench \in {"order0", "fastpath"}, AllocAndFree(c)
  PROVE  PagesInv'
<1>0. bench \in OnTheirOwn /\ bench \notin WithFakes /\ bench \notin WithPages
      /\ bench # "experiment3" /\ bench # "pattern"
  BY BenchesKinds DEF OnTheirOwn, WithPages
<1>1. UNCHANGED <<ring, inited>>
  BY DEF AllocAndFree
<1>2. CASE At(c, "loop") /\ MemoryLeft /\ ref' = [ref EXCEPT ![FreePage] = 1]
           /\ Becomes(c, [body[c] EXCEPT !.pc = "free", !.page = FreePage])
  <2> DEFINE b == [body[c] EXCEPT !.pc = "free", !.page = FreePage]
  <2>1. thread[c] = "bench" /\ main # "spawn" /\ body[c].page = None
    BY <1>2, InBench
  <2>2. FreePage \in Pages /\ FreePage # None
    BY <1>2, FreePageIs, BenchAssumption
  <2>3. /\ b \in BodyType /\ b.page = FreePage /\ b.stack = body[c].stack /\ b.pc = "free"
    BY <2>2, BodyIs DEF BodyType
  <2>4. Becomes(c, b)
    BY <1>2
  <2> HIDE DEF b
  <2>5. BodyFits(b) /\ OwnStep(b)
    BY <1>0, <2>2, <2>3, BodyIs DEF BodyFits, OwnStep
  <2> QED
    BY <1>1, <1>2, <2>1, <2>3, <2>4, <2>5, OwnAllocates
<1>3. CASE At(c, "loop") /\ Leaves(c) /\ UNCHANGED ref
  BY <1>1, <1>3, LeavesPages DEF pages
<1>4. CASE At(c, "free") /\ PutPages(<<body[c].page>>) /\ Becomes(c, Counts(c, 1))
  <2>1. thread[c] = "bench" /\ main # "spawn" /\ body[c].pc = "free"
    BY <1>4, InBench
  <2>2. CASE body[c].page # None
    <3> DEFINE b == Counts(c, 1)
    <3>1. PICK h \in Pages : h = body[c].page /\ h \in InRows(Rows)
      BY <2>2, HandIs
    <3>2. b \in BodyType /\ b.page = None /\ b.stack = body[c].stack /\ b.pc = "loop" /\ BodyFits(b)
      BY CountsIs
    <3>3. Becomes(c, b) /\ PutPages(<<h>>)
      BY <1>4, <3>1
    <3> HIDE DEF b
    <3>4. OwnStep(b)
      BY <1>0, <3>2 DEF OwnStep
    <3> QED
      BY <1>1, <2>1, <3>1, <3>2, <3>3, <3>4, OwnFrees
  <2>3. body[c].page # None
    BY <1>0, <2>1, BodyIs DEF BodyFits
  <2> QED
    BY <2>2, <2>3
<1> QED
  BY <1>2, <1>3, <1>4 DEF AllocAndFree

LEMMA PatternPages ==
  ASSUME PagesInv, NEW c \in Cpus, PatternLoop(c)
  PROVE  PagesInv'
<1>0. bench \in OnTheirOwn /\ bench \notin WithFakes /\ bench \notin WithPages
      /\ bench # "experiment3" /\ bench = "pattern"
  BY BenchesKinds DEF OnTheirOwn, WithPages, PatternLoop
<1>1. UNCHANGED <<ring, inited>>
  BY DEF PatternLoop
<1>2. body[c].stack \in Seq(Pages) /\ Bulk \in Nat
  BY BodyIs, BenchAssumption
<1>3. CASE At(c, "loop") /\ Len(body[c].stack) < Bulk /\ MemoryLeft
           /\ ref' = [ref EXCEPT ![FreePage] = 1]
           /\ Becomes(c, [body[c] EXCEPT !.stack = Append(@, FreePage)])
  <2> DEFINE b == [body[c] EXCEPT !.stack = Append(@, FreePage)]
  <2>1. thread[c] = "bench" /\ main # "spawn" /\ body[c].pc = "loop"
    BY <1>3, InBench
  <2>2. Append(body[c].stack, FreePage) \in Seq(Pages)
        /\ Len(Append(body[c].stack, FreePage)) <= Bulk + 1
    <3>1. FreePage \in Pages
      BY <1>3, FreePageIs
    <3> QED
      BY <1>2, <1>3, <3>1
  <2>3. /\ b \in BodyType /\ b.page = body[c].page /\ b.pc = "loop"
        /\ b.stack = Append(body[c].stack, FreePage)
    BY <2>1, <2>2, BodyIs DEF BodyType
  <2>4. Becomes(c, b)
    BY <1>3
  <2> HIDE DEF b
  <2>5. BodyFits(b) /\ OwnStep(b)
    <3>1. b.page = None
      BY <2>1, <2>3, BodyIs
    <3> QED
      BY <1>0, <2>2, <2>3, <3>1 DEF BodyFits, OwnStep
  <2> QED
    BY <1>1, <1>3, <2>1, <2>3, <2>4, <2>5, OwnAllocates
<1>4. CASE At(c, "loop") /\ Becomes(c, [body[c] EXCEPT !.pc = "free"]) /\ UNCHANGED ref
  <2> DEFINE b == [body[c] EXCEPT !.pc = "free"]
  <2>1. thread[c] = "bench" /\ main # "spawn"
    BY <1>4, InBench
  <2>2. /\ b \in BodyType /\ b.page = body[c].page /\ b.pc = "free" /\ b.stack = body[c].stack
    BY BodyIs DEF BodyType
  <2>3. body' = [body EXCEPT ![c] = b] /\ UNCHANGED <<main, thread, bench, pages>>
    BY <1>1, <1>4 DEF Becomes, vars, pages
  <2> HIDE DEF b
  <2>4. BodyFits(b)
    BY <1>0, <2>2, BodyIs DEF BodyFits
  <2> QED
    BY <1>0, <1>1, <2>1, <2>2, <2>3, <2>4, MovesOn
<1>5. CASE At(c, "free") /\ body[c].stack # << >> /\ PutPages(<<Head(body[c].stack)>>)
           /\ Becomes(c, [body[c] EXCEPT !.stack = Tail(@)])
  <2> DEFINE b == [body[c] EXCEPT !.stack = Tail(@)]
  <2>1. thread[c] = "bench" /\ main # "spawn" /\ body[c].pc = "free"
    BY <1>5, InBench
  <2>2. /\ Tail(body[c].stack) \in Seq(Pages) /\ Len(Tail(body[c].stack)) <= Len(body[c].stack)
        /\ Head(body[c].stack) = body[c].stack[1] /\ 1 \in 1 .. Len(body[c].stack)
        /\ Head(body[c].stack) \in Pages
    BY <1>2, <1>5, HeadTailProperties, EmptySeq
  <2>3. /\ b \in BodyType /\ b.page = body[c].page /\ b.pc = "free"
        /\ b.stack = Tail(body[c].stack)
    BY <2>1, <2>2, BodyIs DEF BodyType
  <2>4. Becomes(c, b)
    BY <1>5
  <2> HIDE DEF b
  <2>5. BodyFits(b) /\ OwnStep(b)
    <3>1. Len(b.stack) <= Bulk + 1
      <4>1. Len(body[c].stack) <= Bulk + 1 /\ Len(body[c].stack) \in Nat /\ Len(b.stack) \in Nat
        BY <1>2, <2>2, <2>3, BodyIs, LenProperties DEF BodyFits
      <4>2. Len(b.stack) <= Len(body[c].stack)
        BY <2>2, <2>3
      <4> QED
        BY <1>2, <4>1, <4>2
    <3> QED
      BY <1>0, <2>3, <3>1, BodyIs DEF BodyFits, OwnStep
  <2>6. PICK h \in Pages : h = Head(body[c].stack)
    BY <2>2
  <2>7. h \in InRows(Rows)
    <3>1. <<"stack", c>> \in RowIds /\ Rows[<<"stack", c>>] = body[c].stack
      BY RowsAt
    <3> QED
      BY <2>2, <2>6, <3>1 DEF InRows
  <2>8. PutPages(<<h>>)
    BY <1>5, <2>6
  <2> QED
    BY <1>1, <1>5, <2>1, <2>3, <2>4, <2>5, <2>6, <2>7, <2>8, OwnFrees
<1>6. CASE At(c, "free") /\ Becomes(c, Counts(c, 1)) /\ UNCHANGED ref
  <2>1. thread[c] = "bench" /\ main # "spawn" /\ body[c].pc = "free"
    BY <1>6, InBench
  <2>2. CASE body[c].page = None
    <3> DEFINE b == Counts(c, 1)
    <3>1. b \in BodyType /\ b.page = body[c].page /\ b.stack = body[c].stack
          /\ b.pc = "loop" /\ BodyFits(b)
      BY <2>2, CountsIs
    <3>2. body' = [body EXCEPT ![c] = b] /\ UNCHANGED <<main, thread, bench, pages>>
      BY <1>1, <1>6 DEF Becomes, vars, pages
    <3> HIDE DEF b
    <3> QED
      BY <1>0, <1>1, <2>1, <3>1, <3>2, MovesOn
  <2>3. body[c].page = None
    BY <1>0, <2>1, BodyIs DEF BodyFits
  <2> QED
    BY <2>2, <2>3
<1>7. CASE At(c, "loop") /\ Leaves(c) /\ UNCHANGED ref
  BY <1>1, <1>7, LeavesPages DEF pages
<1> QED
  BY <1>3, <1>4, <1>5, <1>6, <1>7 DEF PatternLoop

-----------------------------------------------------------------------------
(* Experiment 3 *)

Exp3 == /\ PagesInv /\ bench = "experiment3"
        /\ bench \in WithPages /\ bench \notin WithFakes /\ bench \notin OnTheirOwn

LEMMA Exp3Is == PagesInv /\ bench = "experiment3" => Exp3
BY BenchesKinds DEF Exp3

(* The parts of TwoRefs.                                                     *)
LastHave == \A j \in 1 .. Len(ring[1]) : Out \/ ring[1][j] \in inited => ref[ring[1][j]] >= 2
InitedLast == ~Out => \A i, j \in 1 .. Len(ring[1]) :
                         i <= j /\ ring[1][i] \in inited => ring[1][j] \in inited
GivesHave == \A c \in Cpus : body[c].pc = "give" /\ c \notin Even => ref[body[c].page] >= 2

LEMMA TwoRefsIs == bench = "experiment3" => (TwoRefs <=> LastHave /\ InitedLast /\ GivesHave)
BY DEF TwoRefs, LastHave, InitedLast, GivesHave

(* A ring that has lost its first page.                                      *)
LEMMA TailOf ==
  ASSUME Exp3, NEW q \in 1 .. 2, ring[q] # << >>
  PROVE  /\ Tail(ring[q]) \in Seq(Pages)
         /\ Len(Tail(ring[q])) \in Nat /\ Len(ring[q]) = Len(Tail(ring[q])) + 1
         /\ \A j \in 1 .. Len(Tail(ring[q])) :
               j + 1 \in 1 .. Len(ring[q]) /\ Tail(ring[q])[j] = ring[q][j + 1]
<1>1. ring[q] \in Seq(Pages)
  BY DEF Exp3, PagesInv, RingsFit
<1>2. Tail(ring[q]) \in Seq(Pages) /\ Len(Tail(ring[q])) = Len(ring[q]) - 1
      /\ Len(ring[q]) \in Nat \ {0}
      /\ \A j \in 1 .. Len(Tail(ring[q])) : Tail(ring[q])[j] = ring[q][j + 1]
  BY <1>1, HeadTailProperties, EmptySeq
<1> QED
  BY <1>2

(* One that has got a page.                                                  *)
LEMMA AppendOf ==
  ASSUME Exp3, NEW q \in 1 .. 2, NEW p \in Pages
  PROVE  /\ Append(ring[q], p) \in Seq(Pages) /\ ring[q] \o <<p>> = Append(ring[q], p)
         /\ Len(ring[q]) \in Nat /\ Len(Append(ring[q], p)) = Len(ring[q]) + 1
         /\ \A j \in 1 .. Len(ring[q]) + 1 :
               Append(ring[q], p)[j] = IF j <= Len(ring[q]) THEN ring[q][j] ELSE p
<1>1. ring[q] \in Seq(Pages)
  BY DEF Exp3, PagesInv, RingsFit
<1> QED
  BY <1>1, AppendProperties, LenProperties

(* Where ring q becomes s: the other one stays.                              *)
LEMMA RingOne ==
  ASSUME PagesInv, NEW q \in 1 .. 2, NEW s, ring' = [ring EXCEPT ![q] = s]
  PROVE  ring'[q] = s /\ \A r \in 1 .. 2 : r # q => ring'[r] = ring[r]
BY DEF PagesInv, PageTypes

(* The page in the hands of another CPU stays on its own.                    *)
LEMMA HandsApart ==
  ASSUME PagesInv, NEW d \in Cpus, body[d].page # None
  PROVE  /\ \A c \in Cpus : c # d => body[c].page # body[d].page
         /\ \A q \in 1 .. 2 : \A j \in 1 .. Len(ring[q]) : ring[q][j] # body[d].page
<1>1. \A x \in RowIds : x # <<"page", d>> => \A i \in 1 .. Len(Rows[x]) : Rows[x][i] # body[d].page
  BY HandIs
<1>2. ASSUME NEW c \in Cpus, c # d, body[c].page = body[d].page PROVE FALSE
  <2>1. <<"page", c>> \in RowIds /\ Rows[<<"page", c>>] = <<body[d].page>>
        /\ <<"page", c>> # <<"page", d>>
    BY <1>2, RowsAt DEF InHand
  <2>2. 1 \in 1 .. Len(<<body[d].page>>) /\ <<body[d].page>>[1] = body[d].page
    OBVIOUS
  <2> QED
    BY <1>1, <2>1, <2>2
<1>3. ASSUME NEW q \in 1 .. 2, NEW j \in 1 .. Len(ring[q]) PROVE ring[q][j] # body[d].page
  <2>1. <<"ring", q>> \in RowIds /\ Rows[<<"ring", q>>] = ring[q] /\ <<"ring", q>> # <<"page", d>>
    BY RowsAt
  <2>2. \A i \in 1 .. Len(Rows[<<"ring", q>>]) : Rows[<<"ring", q>>][i] # body[d].page
    BY <1>1, <2>1
  <2> QED
    BY <2>1, <2>2
<1> QED
  BY <1>2, <1>3

Beginning == {"none", "init", "mark"}

LEMMA OutThen ==
  ASSUME PagesInv, NEW c, NEW b, NEW q, NEW s, StepsTo(c, b, q, s)
  PROVE  /\ b.pc \notin Beginning => Out'
         /\ (b.pc \in Beginning <=> body[c].pc \in Beginning) => (Out' <=> Out)
<1>1. c \in Cpus /\ body'[c] = b /\ \A d \in Cpus : d # c => body'[d] = body[d]
  BY StepTypes DEF StepsTo
<1> QED
  BY <1>1 DEF Out, Beginning

LEMMA GivesThen ==
  ASSUME Exp3, NEW c, NEW b, NEW q, NEW s, StepsTo(c, b, q, s),
         \A d \in Cpus : d # c /\ body[d].page # None => ref'[body[d].page] = ref[body[d].page],
         b.pc = "give" /\ c \notin Even => ref'[b.page] >= 2
  PROVE  GivesHave'
<1>1. body'[c] = b /\ \A d \in Cpus : d # c => body'[d] = body[d]
  BY StepTypes DEF Exp3
<1>2. ASSUME NEW d \in Cpus, body'[d].pc = "give", d \notin Even PROVE ref'[body'[d].page] >= 2
  <2>1. CASE d = c
    BY <1>1, <1>2, <2>1
  <2>2. CASE d # c
    <3>1. body'[d] = body[d]
      BY <1>1, <2>2
    <3>2. body[d].page # None /\ ref[body[d].page] >= 2
      BY <1>2, <3>1, BodyIs, TwoRefsIs DEF Exp3, BodyFits, PagesInv, GivesHave
    <3> QED
      BY <2>2, <3>1, <3>2
  <2> QED
    BY <2>1, <2>2
<1> QED
  BY <1>2 DEF GivesHave

(* What is left to show of a step.                                           *)
LEMMA Exp3Ends ==
  ASSUME Exp3, NEW c, NEW b, NEW q, NEW s, StepsTo(c, b, q, s), Once(Rows'),
         \A p \in InRows(Rows') : ref'[p] >= 1,
         \A d \in Cpus : d # c /\ body[d].page # None => ref'[body[d].page] = ref[body[d].page],
         b.pc = "give" /\ c \notin Even => ref'[b.page] >= 2,
         LastHave', InitedLast'
  PROVE  PagesInv'
<1>1. GivesHave'
  BY GivesThen
<1>2. bench' = bench
  BY DEF StepsTo
<1>3. TwoRefs' /\ Own'
  BY <1>1, <1>2 DEF Exp3, TwoRefs, LastHave, InitedLast, GivesHave, Own
<1> QED
  BY <1>3, StepEnds DEF Exp3

(* What is on ring 1 when a page has gone from it.                           *)
LEMMA LastStays ==
  ASSUME Exp3, ring[1] # << >>, ring'[1] = Tail(ring[1]), UNCHANGED inited, Out' <=> Out,
         \A j \in 1 .. Len(Tail(ring[1])) : ref'[Tail(ring[1])[j]] = ref[Tail(ring[1])[j]]
  PROVE  LastHave' /\ InitedLast'
<1>1. LastHave /\ InitedLast
  BY TwoRefsIs DEF Exp3, PagesInv
<1>2. LastHave'
  <2>1. ASSUME NEW j \in 1 .. Len(Tail(ring[1])), Out \/ Tail(ring[1])[j] \in inited
        PROVE  ref'[Tail(ring[1])[j]] >= 2
    <3>1. j + 1 \in 1 .. Len(ring[1]) /\ Tail(ring[1])[j] = ring[1][j + 1]
      BY TailOf
    <3>2. ref[ring[1][j + 1]] >= 2
      BY <1>1, <2>1, <3>1 DEF LastHave
    <3> QED
      BY <3>1, <3>2
  <2> QED
    BY <2>1 DEF LastHave
<1>3. InitedLast'
  <2>1. ASSUME ~Out, NEW i \in 1 .. Len(Tail(ring[1])), NEW j \in 1 .. Len(Tail(ring[1])),
               i <= j, Tail(ring[1])[i] \in inited
        PROVE  Tail(ring[1])[j] \in inited
    <3>1. /\ i + 1 \in 1 .. Len(ring[1]) /\ Tail(ring[1])[i] = ring[1][i + 1]
          /\ j + 1 \in 1 .. Len(ring[1]) /\ Tail(ring[1])[j] = ring[1][j + 1]
      BY TailOf
    <3>2. i + 1 <= j + 1
      BY <2>1, TailOf
    <3> QED
      BY <1>1, <2>1, <3>1, <3>2 DEF InitedLast
  <2> QED
    BY <2>1 DEF InitedLast
<1> QED
  BY <1>2, <1>3

(* When a CPU is out, the second part says nothing, and the first one is     *)
(* about all of ring 1.                                                      *)
LEMMA LastOut ==
  ASSUME Out', NEW s, ring'[1] = s, \A j \in 1 .. Len(s) : ref'[s[j]] >= 2
  PROVE  LastHave' /\ InitedLast'
BY DEF LastHave, InitedLast

LEMMA InitTakePages ==
  ASSUME PagesInv, NEW c \in Cpus, InitTake(c)
  PROVE  PagesInv'
<1>0. /\ thread[c] = "bench" /\ body[c].pc = "init" /\ main # "spawn" /\ body[c].page = None
      /\ UNCHANGED <<ref, inited>> /\ ref \in [Pages -> Nat] /\ inited \subseteq Pages
  BY InBench DEF InitTake, PagesInv, PageTypes, pages
<1>1. Exp3
  BY <1>0, BodyIs, Exp3Is DEF BodyFits
<1>2. ring \in [1 .. 2 -> Seq(Items)] /\ ring[1] \in Seq(Pages)
  BY <1>1 DEF Exp3, PagesInv, PageTypes, RingsFit
<1>3. \A p \in InRows(Rows) : p \in Pages /\ ref'[p] >= 1
  BY <1>0 DEF PagesInv, Held, InRows
<1>4. LastHave /\ InitedLast
  BY <1>1, TwoRefsIs DEF Exp3, PagesInv
<1>5. CASE Becomes(c, [body[c] EXCEPT !.pc = "loop"])
           /\ (ring[1] = << >> \/ Head(ring[1]) \in inited)
  <2> DEFINE b == [body[c] EXCEPT !.pc = "loop"]
  <2>1. body' = [body EXCEPT ![c] = b] /\ UNCHANGED <<main, thread, bench>>
    BY <1>5 DEF Becomes, vars
  <2>2. b \in BodyType /\ b.page = body[c].page /\ b.stack = body[c].stack /\ b.pc = "loop"
    BY BodyIs DEF BodyType
  <2> HIDE DEF b
  <2>3. BodyFits(b)
    BY <1>0, <2>2, BodyIs DEF BodyFits
  <2>4. b.pc \notin Beginning /\ b.pc # "give"
    BY <2>2 DEF Beginning
  <2>5. CASE ring[1] = << >>
    <3>1. ring' = [ring EXCEPT ![1] = ring[1]]
      BY <1>2, <2>5 DEF InitTake
    <3>2. StepsTo(c, b, 1, ring[1])
      BY <1>0, <1>1, <1>2, <2>1, <2>2, <2>3, <3>1 DEF StepsTo, Exp3
    <3>3. Rows' = Rows
      BY <1>2, <2>1, <2>2, <3>1, RowsStay DEF PagesInv
    <3>4. Once(Rows')
      BY <3>3 DEF PagesInv
    <3>5. LastHave' /\ InitedLast'
      <4>1. ring'[1] = << >> /\ Len(<< >>) = 0
        BY <1>2, <2>5, <3>1
      <4>2. Out'
        BY <2>4, <3>2, OutThen
      <4> QED
        BY <4>1, <4>2, LastOut
    <3> QED
      BY <1>0, <1>1, <1>3, <2>4, <3>2, <3>3, <3>4, <3>5, Exp3Ends
  <2>6. CASE ring[1] # << >> /\ Head(ring[1]) \in inited
    <3>1. /\ Head(ring[1]) = ring[1][1] /\ 1 \in 1 .. Len(ring[1]) /\ Tail(ring[1]) \in Seq(Pages)
          /\ SubSeq(ring[1], 1 + 1, Len(ring[1])) = Tail(ring[1])
      BY <1>1, <2>6, HeadOf DEF Exp3
    <3>2. ring' = [ring EXCEPT ![1] = Tail(ring[1])]
      BY <2>6, <3>1 DEF InitTake, Drop
    <3>3. StepsTo(c, b, 1, Tail(ring[1]))
      BY <1>0, <1>1, <2>1, <2>2, <2>3, <3>1, <3>2 DEF StepsTo, Exp3
    <3>4. Once(Rows') /\ InRows(Rows') = InRows(Rows) \ {Head(ring[1])}
      BY <2>2, <2>6, <3>3, PopRing
    <3>5. \A j \in 1 .. Len(ring[1]) : ref[ring[1][j]] >= 2
      BY <1>4, <2>6, <3>1 DEF LastHave, InitedLast
    <3>6. LastHave' /\ InitedLast'
      <4>1. ring'[1] = Tail(ring[1])
        BY <1>2, <3>2
      <4>2. Out'
        BY <2>4, <3>3, OutThen
      <4>3. \A j \in 1 .. Len(Tail(ring[1])) : ref'[Tail(ring[1])[j]] >= 2
        BY <1>0, <1>1, <2>6, <3>5, TailOf
      <4> QED
        BY <4>1, <4>2, <4>3, LastOut
    <3> QED
      BY <1>0, <1>1, <1>3, <2>4, <3>3, <3>4, <3>6, Exp3Ends
  <2> QED
    BY <1>5, <2>5, <2>6
<1>6. CASE ring[1] # << >>
           /\ Becomes(c, [body[c] EXCEPT !.pc = "mark", !.page = Head(ring[1])])
  <2> DEFINE b == [body[c] EXCEPT !.pc = "mark", !.page = Head(ring[1])]
  <2>1. body' = [body EXCEPT ![c] = b] /\ UNCHANGED <<main, thread, bench>>
    BY <1>6 DEF Becomes, vars
  <2>2. PICK h \in Pages : h = Head(ring[1])
    BY <1>1, <1>6, HeadOf DEF Exp3
  <2>3. b \in BodyType /\ b.page = h /\ b.stack = body[c].stack /\ b.pc = "mark"
    BY <2>2, BodyIs DEF BodyType
  <2> HIDE DEF b
  <2>4. BodyFits(b)
    <3>1. h # None
      BY BenchAssumption
    <3> QED
      BY <1>1, <2>3, <3>1, BodyIs DEF BodyFits, Exp3
  <2>5. Tail(ring[1]) \in Seq(Pages) /\ SubSeq(ring[1], 1 + 1, Len(ring[1])) = Tail(ring[1])
    BY <1>1, <1>6, HeadOf DEF Exp3
  <2>6. ring' = [ring EXCEPT ![1] = Tail(ring[1])]
    BY <1>6, <2>5 DEF InitTake, Drop
  <2>7. StepsTo(c, b, 1, Tail(ring[1]))
    BY <1>0, <1>1, <2>1, <2>3, <2>4, <2>5, <2>6 DEF StepsTo, Exp3
  <2>8. Once(Rows') /\ InRows(Rows') = InRows(Rows)
    BY <1>0, <1>6, <2>2, <2>3, <2>7, RingToHand
  <2>9. Out' <=> Out
    BY <1>0, <2>3, <2>7, OutThen DEF Beginning
  <2>10. ring'[1] = Tail(ring[1])
    BY <1>2, <2>6
  <2>11. LastHave' /\ InitedLast'
    BY <1>0, <1>1, <1>6, <2>9, <2>10, LastStays
  <2>12. b.pc # "give"
    BY <2>3
  <2> QED
    BY <1>0, <1>1, <1>3, <2>7, <2>8, <2>11, <2>12, Exp3Ends
<1> QED
  BY <1>5, <1>6 DEF InitTake

LEMMA InitMarkPages ==
  ASSUME PagesInv, NEW c \in Cpus, InitMark(c)
  PROVE  PagesInv'
<1>0. /\ thread[c] = "bench" /\ body[c].pc = "mark" /\ main # "spawn" /\ body[c].page # None
      /\ ref \in [Pages -> Nat] /\ inited \subseteq Pages
  BY InBench, BodyIs DEF InitMark, PagesInv, PageTypes, BodyFits
<1>1. Exp3
  BY <1>0, BodyIs, Exp3Is DEF BodyFits
<1>2. PICK h \in Pages : h = body[c].page /\ h \in InRows(Rows)
  BY <1>0, HandIs
<1>3. /\ inited' = inited \cup {h} /\ ref' = [ref EXCEPT ![h] = @ + 1]
      /\ ring' = [ring EXCEPT ![1] = @ \o <<h>>]
      /\ body' = [body EXCEPT ![c] = [body[c] EXCEPT !.pc = "init", !.page = None]]
      /\ UNCHANGED <<main, thread, bench>>
  BY <1>2 DEF InitMark, Put, Becomes, vars
<1> DEFINE b == [body[c] EXCEPT !.pc = "init", !.page = None]
           s == Append(ring[1], h)
<1>4. b \in BodyType /\ b.page = None /\ b.stack = body[c].stack /\ b.pc = "init"
  BY BodyIs DEF BodyType
<1>5. body' = [body EXCEPT ![c] = b]
  BY <1>3
<1> HIDE DEF b
<1>6. BodyFits(b)
  BY <1>1, <1>4, BodyIs DEF BodyFits, Exp3
<1>7. /\ s \in Seq(Pages) /\ ring[1] \o <<h>> = s /\ Len(ring[1]) \in Nat /\ Len(s) = Len(ring[1]) + 1
      /\ \A j \in 1 .. Len(ring[1]) + 1 : s[j] = IF j <= Len(ring[1]) THEN ring[1][j] ELSE h
  BY <1>1, AppendOf
<1>8. ring' = [ring EXCEPT ![1] = s]
  BY <1>3, <1>7
<1>9. ref' \in [Pages -> Nat] /\ ref'[h] = ref[h] + 1 /\ \A p \in Pages : p # h => ref'[p] = ref[p]
  BY <1>0, <1>3
<1>10. ref[h] \in Nat /\ ref[h] >= 1 /\ ref'[h] >= 2
  BY <1>0, <1>2, <1>9 DEF PagesInv, Held
<1>11. StepsTo(c, b, 1, s)
  <2>1. inited' \subseteq Pages /\ 1 \in 1 .. 2
    BY <1>0, <1>3
  <2>2. bench \in WithPages /\ bench \notin WithFakes
    BY <1>1 DEF Exp3
  <2> HIDE DEF s
  <2> QED
    BY <1>0, <1>3, <1>4, <1>5, <1>6, <1>7, <1>8, <1>9, <2>1, <2>2, Zenon DEF StepsTo
<1>12. Once(Rows') /\ InRows(Rows') = InRows(Rows)
  BY <1>2, <1>4, <1>11, HandToRing
<1>13. \A p \in InRows(Rows') : ref'[p] >= 1
  BY <1>9, <1>10, <1>12 DEF PagesInv, Held, InRows
<1>14. Out' <=> Out
  BY <1>0, <1>4, <1>11, OutThen DEF Beginning
<1>15. /\ \A d \in Cpus : d # c => body[d].page # h
       /\ \A j \in 1 .. Len(ring[1]) : ring[1][j] # h /\ ring[1][j] \in Pages
  <2>1. ring[1] \in Seq(Pages)
    BY <1>1 DEF Exp3, PagesInv, RingsFit
  <2> QED
    BY <1>0, <1>2, <2>1, HandsApart, ElementOfSeq
<1>16. \A d \in Cpus : d # c /\ body[d].page # None => ref'[body[d].page] = ref[body[d].page]
  BY <1>9, <1>15, HandIs
<1>17. LastHave /\ InitedLast
  BY <1>1, TwoRefsIs DEF Exp3, PagesInv
<1>18. ring'[1] = s
  BY <1>8 DEF PagesInv, PageTypes
<1>19. LastHave'
  <2>1. ASSUME NEW j \in 1 .. Len(s), Out' \/ s[j] \in inited' PROVE ref'[s[j]] >= 2
    <3>1. CASE j = Len(ring[1]) + 1
      BY <1>7, <1>10, <3>1
    <3>2. CASE j \in 1 .. Len(ring[1])
      <4>1. s[j] = ring[1][j] /\ ring[1][j] # h /\ ring[1][j] \in Pages
        BY <1>7, <1>15, <3>2
      <4>2. Out \/ ring[1][j] \in inited
        BY <1>3, <1>14, <2>1, <4>1
      <4>3. ref[ring[1][j]] >= 2
        BY <1>17, <3>2, <4>2 DEF LastHave
      <4> QED
        BY <1>9, <4>1, <4>3
    <3> QED
      BY <1>7, <3>1, <3>2
  <2> HIDE DEF s
  <2> QED
    BY <1>18, <2>1 DEF LastHave
<1>20. InitedLast'
  <2>1. ASSUME ~Out, NEW i \in 1 .. Len(s), NEW j \in 1 .. Len(s), i <= j, s[i] \in inited'
        PROVE  s[j] \in inited'
    <3>1. CASE j = Len(ring[1]) + 1
      BY <1>3, <1>7, <3>1
    <3>2. CASE j \in 1 .. Len(ring[1])
      <4>1. i \in 1 .. Len(ring[1])
        BY <1>7, <2>1, <3>2
      <4>2. s[i] = ring[1][i] /\ s[j] = ring[1][j] /\ ring[1][i] # h
        BY <1>7, <1>15, <3>2, <4>1
      <4>3. ring[1][i] \in inited
        BY <1>3, <2>1, <4>2
      <4>4. ring[1][j] \in inited
        BY <1>17, <2>1, <3>2, <4>1, <4>3 DEF InitedLast
      <4> QED
        BY <1>3, <4>2, <4>4
    <3> QED
      BY <1>7, <3>1, <3>2
  <2> HIDE DEF s
  <2> QED
    BY <1>14, <1>18, <2>1 DEF InitedLast
<1>21. b.pc # "give"
  BY <1>4
<1> QED
  BY <1>1, <1>11, <1>12, <1>13, <1>16, <1>19, <1>20, <1>21, Exp3Ends

LEMMA TakePages ==
  ASSUME PagesInv, NEW c \in Cpus, Take(c)
  PROVE  PagesInv'
<1>0. /\ thread[c] = "bench" /\ body[c].pc = "loop" /\ main # "spawn" /\ body[c].page = None
      /\ At(c, "loop") /\ UNCHANGED <<ref, inited>> /\ ref \in [Pages -> Nat]
      /\ inited \subseteq Pages /\ bench = "experiment3"
  BY InBench DEF Take, PagesInv, PageTypes, pages
<1>1. Exp3
  BY <1>0, Exp3Is
<1>2. CASE Leaves(c) /\ UNCHANGED ring
  BY <1>0, <1>2, LeavesPages DEF pages
<1>3. ASSUME NEW q \in 1 .. 2, q = From(c), ring[q] # << >>, Drop(q, 1),
             Becomes(c, [body[c] EXCEPT !.pc = "give", !.page = Head(ring[q])])
      PROVE  PagesInv'
  <2> DEFINE b == [body[c] EXCEPT !.pc = "give", !.page = Head(ring[q])]
  <2>1. body' = [body EXCEPT ![c] = b] /\ UNCHANGED <<main, thread, bench>>
    BY <1>3 DEF Becomes, vars
  <2>2. PICK h \in Pages : h = Head(ring[q]) /\ h = ring[q][1] /\ 1 \in 1 .. Len(ring[q])
    BY <1>1, <1>3, HeadOf DEF Exp3
  <2>3. b \in BodyType /\ b.page = h /\ b.stack = body[c].stack /\ b.pc = "give"
    BY <2>2, BodyIs DEF BodyType
  <2> HIDE DEF b
  <2>4. BodyFits(b)
    <3>1. h # None
      BY BenchAssumption
    <3> QED
      BY <1>1, <2>3, <3>1, BodyIs DEF BodyFits, Exp3
  <2>5. Tail(ring[q]) \in Seq(Pages) /\ SubSeq(ring[q], 1 + 1, Len(ring[q])) = Tail(ring[q])
    BY <1>1, <1>3, HeadOf DEF Exp3
  <2>6. ring' = [ring EXCEPT ![q] = Tail(ring[q])]
    BY <1>3, <2>5 DEF Drop
  <2>7. StepsTo(c, b, q, Tail(ring[q]))
    BY <1>0, <1>1, <2>1, <2>3, <2>4, <2>5, <2>6 DEF StepsTo, Exp3
  <2>8. Once(Rows') /\ InRows(Rows') = InRows(Rows)
    BY <1>0, <1>3, <2>2, <2>3, <2>7, RingToHand
  <2>9. \A p \in InRows(Rows') : ref'[p] >= 1
    BY <1>0, <2>8 DEF PagesInv, Held
  <2>10. Out /\ (Out' <=> Out)
    <3>1. Out
      BY <1>0 DEF Out
    <3>2. Out'
      BY <2>3, <2>7, OutThen DEF Beginning
    <3> QED
      BY <3>1, <3>2
  <2>11. LastHave /\ InitedLast
    BY <1>1, TwoRefsIs DEF Exp3, PagesInv
  <2>12. c \notin Even => ref'[b.page] >= 2
    <3> SUFFICES ASSUME c \notin Even PROVE ref[h] >= 2
      BY <1>0, <2>3
    <3>1. q = 1
      BY <1>3 DEF From
    <3> QED
      BY <2>2, <2>10, <2>11, <3>1 DEF LastHave
  <2>13. LastHave' /\ InitedLast'
    <3>1. CASE q = 1
      <4>1. ring'[1] = Tail(ring[1]) /\ ring[1] # << >>
        BY <1>3, <2>6, <3>1, RingOne
      <4> QED
        BY <1>0, <1>1, <2>10, <4>1, LastStays
    <3>2. CASE q # 1
      <4>1. ring'[1] = ring[1]
        BY <2>6, <3>2, RingOne
      <4>2. \A j \in 1 .. Len(ring[1]) : ref'[ring[1][j]] >= 2
        BY <1>0, <2>10, <2>11 DEF LastHave
      <4> QED
        BY <2>10, <4>1, <4>2, LastOut
    <3> QED
      BY <3>1, <3>2
  <2> QED
    BY <1>0, <1>1, <2>7, <2>8, <2>9, <2>12, <2>13, Exp3Ends
<1>4. From(c) \in 1 .. 2
  BY DEF From
<1> QED
  BY <1>2, <1>3, <1>4 DEF Take

LEMMA GivePages ==
  ASSUME PagesInv, NEW c \in Cpus, Give(c)
  PROVE  PagesInv'
<1>0. /\ thread[c] = "bench" /\ body[c].pc = "give" /\ main # "spawn" /\ body[c].page # None
      /\ ref \in [Pages -> Nat] /\ inited \subseteq Pages /\ inited' = inited
  BY InBench, BodyIs DEF Give, PagesInv, PageTypes, BodyFits
<1>1. Exp3
  BY <1>0, BodyIs, Exp3Is DEF BodyFits
<1>2. PICK h \in Pages : h = body[c].page /\ h \in InRows(Rows)
  BY <1>0, HandIs
<1>3. LastHave /\ InitedLast /\ GivesHave
  BY <1>1, TwoRefsIs DEF Exp3, PagesInv
<1>4. ref[h] \in Nat /\ ref[h] >= 1 /\ (c \notin Even => ref[h] >= 2)
  BY <1>0, <1>2, <1>3 DEF PagesInv, Held, GivesHave
<1>5. /\ ref' \in [Pages -> Nat] /\ ref'[h] = IF c \in Even THEN ref[h] + 1 ELSE ref[h] - 1
      /\ \A p \in Pages : p # h => ref'[p] = ref[p]
  <2>1. ref' = [ref EXCEPT ![h] = IF c \in Even THEN ref[h] + 1 ELSE ref[h] - 1]
    BY <1>2 DEF Give
  <2>2. (IF c \in Even THEN ref[h] + 1 ELSE ref[h] - 1) \in Nat
    BY <1>4
  <2> QED
    BY <1>0, <2>1, <2>2
<1>6. ref'[h] >= 1 /\ (c \in Even => ref'[h] >= 2)
  BY <1>4, <1>5
<1>7. /\ \A d \in Cpus : d # c => body[d].page # h
      /\ \A q \in 1 .. 2 : \A j \in 1 .. Len(ring[q]) : ring[q][j] # h
  BY <1>0, <1>2, HandsApart
<1>8. \A d \in Cpus : d # c /\ body[d].page # None => ref'[body[d].page] = ref[body[d].page]
  BY <1>5, <1>7, HandIs
<1>9. Out
  BY <1>0 DEF Out
<1>10. ring[1] \in Seq(Pages)
  BY <1>1 DEF Exp3, PagesInv, RingsFit
<1>11. \A j \in 1 .. Len(ring[1]) : ring[1][j] \in Pages /\ ref'[ring[1][j]] >= 2
  <2>1. ASSUME NEW j \in 1 .. Len(ring[1]) PROVE ring[1][j] \in Pages /\ ref'[ring[1][j]] >= 2
    <3>1. ring[1][j] \in Pages
      BY <1>10, ElementOfSeq
    <3>2. ring[1][j] # h /\ ref[ring[1][j]] >= 2
      BY <1>3, <1>7, <1>9 DEF LastHave
    <3> QED
      BY <1>5, <3>1, <3>2
  <2> QED
    BY <2>1
<1>12. \A p \in InRows(Rows) : ref'[p] >= 1
  BY <1>5, <1>6 DEF PagesInv, Held, InRows
<1>13. ASSUME NEW q \in 1 .. 2, q = To(c), Put(q, <<h>>), Becomes(c, Counts(c, 1))
       PROVE  PagesInv'
  <2> DEFINE b == Counts(c, 1)
             s == Append(ring[q], h)
  <2>1. b \in BodyType /\ b.page = None /\ b.stack = body[c].stack /\ b.pc = "loop" /\ BodyFits(b)
    BY CountsIs
  <2>2. body' = [body EXCEPT ![c] = b] /\ UNCHANGED <<main, thread, bench>>
    BY <1>13 DEF Becomes, vars
  <2> HIDE DEF b
  <2>3. /\ s \in Seq(Pages) /\ ring[q] \o <<h>> = s /\ Len(ring[q]) \in Nat
        /\ Len(s) = Len(ring[q]) + 1
        /\ \A j \in 1 .. Len(ring[q]) + 1 : s[j] = IF j <= Len(ring[q]) THEN ring[q][j] ELSE h
    BY <1>1, AppendOf
  <2>4. ring' = [ring EXCEPT ![q] = s]
    BY <1>13, <2>3 DEF Put
  <2> HIDE DEF s
  <2>5. StepsTo(c, b, q, s)
    <3>1. bench \in WithPages /\ bench \notin WithFakes /\ inited' \subseteq Pages
      BY <1>0, <1>1 DEF Exp3
    <3> QED
      BY <1>0, <1>5, <2>1, <2>2, <2>3, <2>4, <3>1, Zenon DEF StepsTo
  <2>6. Once(Rows') /\ InRows(Rows') = InRows(Rows)
    BY <1>2, <2>1, <2>5, HandToRing DEF s
  <2>7. Out'
    BY <2>1, <2>5, OutThen DEF Beginning
  <2>8. LastHave' /\ InitedLast'
    <3>1. CASE q = 1
      <4>1. ring'[1] = s
        BY <2>4, <3>1, RingOne
      <4>2. c \in Even
        BY <1>13, <3>1 DEF To
      <4>3. ASSUME NEW j \in 1 .. Len(s) PROVE ref'[s[j]] >= 2
        <5>1. CASE j <= Len(ring[1])
          <6>1. j \in 1 .. Len(ring[1]) /\ s[j] = ring[1][j]
            BY <2>3, <3>1, <5>1
          <6> QED
            BY <1>11, <6>1
        <5>2. CASE ~ (j <= Len(ring[1]))
          <6>1. s[j] = h
            BY <2>3, <3>1, <5>2
          <6> QED
            BY <1>6, <4>2, <6>1
        <5> QED
          BY <5>1, <5>2
      <4> QED
        BY <2>7, <4>1, <4>3, LastOut
    <3>2. CASE q # 1
      <4>1. ring'[1] = ring[1]
        BY <2>4, <3>2, RingOne
      <4> QED
        BY <1>11, <2>7, <4>1, LastOut
    <3> QED
      BY <3>1, <3>2
  <2>9. b.pc # "give"
    BY <2>1
  <2> QED
    BY <1>1, <1>8, <1>12, <2>5, <2>6, <2>8, <2>9, Exp3Ends
<1>14. CASE Leaves(c) /\ UNCHANGED ring
  <2> DEFINE b == [body[c] EXCEPT !.pc = "drain", !.page = None]
  <2>1. body' = [body EXCEPT ![c] = b] /\ UNCHANGED <<main, thread, bench>>
    BY <1>1, <1>14 DEF Leaves, Becomes, vars, Exp3
  <2>2. b \in BodyType /\ b.page = None /\ b.stack = body[c].stack /\ b.pc = "drain"
    BY BodyIs DEF BodyType
  <2> HIDE DEF b
  <2>3. BodyFits(b)
    BY <1>1, <2>2, BodyIs DEF BodyFits, Exp3
  <2>4. ring' = [ring EXCEPT ![1] = ring[1]]
    BY <1>14 DEF PagesInv, PageTypes
  <2>5. StepsTo(c, b, 1, ring[1])
    <3>1. bench \in WithPages /\ bench \notin WithFakes /\ inited' \subseteq Pages /\ 1 \in 1 .. 2
      BY <1>0, <1>1 DEF Exp3
    <3> QED
      BY <1>0, <1>5, <1>10, <2>1, <2>2, <2>3, <2>4, <3>1, Zenon DEF StepsTo
  <2>6. Once(Rows') /\ InRows(Rows') = InRows(Rows) \ {h}
    BY <1>2, <2>2, <2>5, HandLoses
  <2>7. Out'
    BY <2>2, <2>5, OutThen DEF Beginning
  <2>8. LastHave' /\ InitedLast'
    BY <1>11, <1>14, <2>7, LastOut
  <2>9. \A p \in InRows(Rows') : ref'[p] >= 1
    BY <1>12, <2>6
  <2>10. b.pc # "give"
    BY <2>2
  <2> QED
    BY <1>1, <1>8, <2>5, <2>6, <2>8, <2>9, <2>10, Exp3Ends
<1>15. To(c) \in 1 .. 2
  BY DEF To
<1> QED
  BY <1>2, <1>13, <1>14, <1>15 DEF Give

LEMMA DrainPages ==
  ASSUME PagesInv, NEW c \in Cpus, Drain(c)
  PROVE  PagesInv'
<1>0. /\ thread[c] = "bench" /\ body[c].pc = "drain" /\ main # "spawn" /\ body[c].page = None
      /\ inited \subseteq Pages /\ inited' = inited
  BY InBench DEF Drain, PagesInv, PageTypes
<1>1. Exp3
  BY <1>0, BodyIs, Exp3Is DEF BodyFits
<1>2. CASE Becomes(c, [body[c] EXCEPT !.pc = "done"]) /\ UNCHANGED <<ring, ref>>
  <2> DEFINE b == [body[c] EXCEPT !.pc = "done"]
  <2>1. b \in BodyType /\ b.page = body[c].page /\ b.stack = body[c].stack /\ b.pc = "done"
    BY BodyIs DEF BodyType
  <2>2. body' = [body EXCEPT ![c] = b] /\ UNCHANGED <<main, thread, bench, ring, pages>>
    BY <1>0, <1>2 DEF Becomes, vars, pages
  <2> HIDE DEF b
  <2>3. BodyFits(b)
    BY <1>0, <2>1, BodyIs DEF BodyFits
  <2> QED
    BY <1>0, <2>1, <2>2, <2>3, MovesOn
<1>3. CASE ring[1] # << >> /\ Becomes(c, body[c]) /\ Drop(1, 1) /\ PutPages(<<Head(ring[1])>>)
  <2> DEFINE b == body[c]
  <2>1. PICK h \in Pages : h = Head(ring[1]) /\ h = ring[1][1] /\ 1 \in 1 .. Len(ring[1])
                           /\ h \in InRows(Rows) /\ ref[h] >= 1
    BY <1>1, <1>3, HeadOf DEF Exp3
  <2>2. Tail(ring[1]) \in Seq(Pages) /\ SubSeq(ring[1], 1 + 1, Len(ring[1])) = Tail(ring[1])
    BY <1>1, <1>3, HeadOf DEF Exp3
  <2>3. ring' = [ring EXCEPT ![1] = Tail(ring[1])] /\ UNCHANGED <<main, thread, bench>>
        /\ body' = [body EXCEPT ![c] = b]
    BY <1>3, <2>2 DEF Drop, Becomes, vars
  <2>4. /\ ref' \in [Pages -> Nat] /\ \A p \in Pages : p # h => ref'[p] = ref[p]
    BY <1>3, <2>1, PutOne DEF PagesInv
  <2>5. b \in BodyType /\ BodyFits(b)
    BY BodyIs
  <2>6. b.page = body[c].page /\ b.stack = body[c].stack /\ b.pc = "drain"
    BY <1>0
  <2> HIDE DEF b
  <2>7. StepsTo(c, b, 1, Tail(ring[1]))
    BY <1>0, <1>1, <2>2, <2>3, <2>4, <2>5 DEF StepsTo, Exp3
  <2>8. Once(Rows') /\ InRows(Rows') = InRows(Rows) \ {Head(ring[1])}
    BY <1>3, <2>6, <2>7, PopRing
  <2>9. \A p \in InRows(Rows') : ref'[p] >= 1
    BY <2>1, <2>4, <2>8 DEF PagesInv, Held, InRows
  <2>10. \A d \in Cpus : d # c /\ body[d].page # None => ref'[body[d].page] = ref[body[d].page]
    <3>1. ASSUME NEW d \in Cpus, body[d].page # None PROVE ref'[body[d].page] = ref[body[d].page]
      <4>1. body[d].page \in Pages
        BY <3>1, HandIs
      <4>2. \A j \in 1 .. Len(ring[1]) : ring[1][j] # body[d].page
        BY <3>1, HandsApart
      <4> QED
        BY <2>1, <2>4, <4>1, <4>2
    <3> QED
      BY <3>1
  <2>11. Out /\ (Out' <=> Out)
    <3>1. Out
      BY <1>0 DEF Out
    <3>2. Out'
      BY <2>6, <2>7, OutThen DEF Beginning
    <3> QED
      BY <3>1, <3>2
  <2>12. \A j \in 1 .. Len(Tail(ring[1])) : ref'[Tail(ring[1])[j]] = ref[Tail(ring[1])[j]]
    <3> TAKE j \in 1 .. Len(Tail(ring[1]))
    <3>1. j + 1 \in 1 .. Len(ring[1]) /\ Tail(ring[1])[j] = ring[1][j + 1] /\ j \in Nat
          /\ j >= 1
      BY <1>1, <1>3, TailOf
    <3>2. ring[1][j + 1] # h
      <4>1. <<"ring", 1>> \in RowIds /\ Rows[<<"ring", 1>>] = ring[1]
        BY RowsAt
      <4>2. Once(Rows)
        BY DEF PagesInv
      <4>3. ring[1][j + 1] = ring[1][1] => j + 1 = 1
        BY <2>1, <3>1, <4>1, <4>2 DEF Once
      <4> QED
        BY <2>1, <3>1, <4>3
    <3>3. ring[1][j + 1] \in Pages
      <4>1. ring[1] \in Seq(Pages)
        BY <1>1 DEF Exp3, PagesInv, RingsFit
      <4> QED
        BY <3>1, <4>1, ElementOfSeq
    <3> QED
      BY <2>4, <3>1, <3>2, <3>3
  <2>13. LastHave' /\ InitedLast'
    <3>1. ring'[1] = Tail(ring[1])
      BY <2>3 DEF PagesInv, PageTypes
    <3> QED
      BY <1>0, <1>1, <1>3, <2>11, <2>12, <3>1, LastStays
  <2>14. b.pc # "give"
    BY <2>6
  <2> QED
    BY <1>1, <2>7, <2>8, <2>9, <2>10, <2>13, <2>14, Exp3Ends
<1> QED
  BY <1>2, <1>3 DEF Drain

-----------------------------------------------------------------------------
(* Every step *)

LEMMA BenchLoopPages ==
  ASSUME PagesInv, NEW c \in Cpus, BenchLoop(c)
  PROVE  PagesInv'
<1>1. ASSUME NEW n \in Nat \ {0}, bench \in WithFakes, EnqOrDeq(c, n) PROVE PagesInv'
  BY <1>1, FakesPages
<1>2. CASE SkbArrayLoop(c) \/ PtrRingLoop(c) \/ AlfLoop(c) \/ AlfBulkLoop(c)
  <2>1. Bulk \in Nat \ {0} /\ 1 \in Nat \ {0}
    BY BenchAssumption
  <2>2. (SkbArrayLoop(c) \/ PtrRingLoop(c) \/ AlfLoop(c)) => bench \in WithFakes /\ EnqOrDeq(c, 1)
    BY DEF SkbArrayLoop, PtrRingLoop, AlfLoop, WithFakes
  <2>3. AlfBulkLoop(c) => bench \in WithFakes /\ EnqOrDeq(c, Bulk)
    BY DEF AlfBulkLoop, WithFakes
  <2> QED
    BY <1>1, <1>2, <2>1, <2>2, <2>3
<1>3. CASE AllocPutLoop(c)
  BY <1>3, AllocPages, DequeuePages DEF AllocPutLoop
<1>4. CASE Experiment1Loop(c)
  BY <1>4, AllocPages, StackPagesKept DEF Experiment1Loop
<1>5. CASE Experiment3Loop(c)
  BY <1>5, InitTakePages, InitMarkPages, TakePages, GivePages, DrainPages DEF Experiment3Loop
<1>6. CASE LocksLoop(c) \/ PatternLoop(c)
  BY <1>6, LocksPages, PatternPages
<1>7. CASE Order0Loop(c) \/ FastpathLoop(c)
  BY <1>7, AllocFreePages DEF Order0Loop, FastpathLoop
<1> QED
  BY <1>2, <1>3, <1>4, <1>5, <1>6, <1>7 DEF BenchLoop

LEMMA ThreadPages ==
  ASSUME PagesInv, IInv, NEW c \in Cpus, Thread(c)
  PROVE  PagesInv'
<1>1. Types /\ WhenSpawning
  BY DEF IInv
<1>2. ASSUME NEW from \in {"new", "bench", "park", "schedule"}, NEW to \in {"wait", "bench", "park", "schedule", "gone"},
             Moves(c, from, to), UNCHANGED main, UNCHANGED benching,
             from = "bench" => body[c].page = None,
             to = "wait" => from = "new"
      PROVE  PagesInv'
  <2>1. thread[c] = from /\ thread'[c] = to /\ \A d \in Cpus : d # c => thread'[d] = thread[d]
    BY <1>1, <1>2 DEF Moves, Types
  <2>2. \A d \in Cpus : thread[d] = "bench" /\ body[d].page # None => thread'[d] = "bench"
    BY <1>2, <2>1
  <2>3. \A d \in Cpus : thread'[d] \in {"new", "wait"} => thread[d] \in {"new", "wait"}
    BY <1>2, <2>1
  <2> QED
    BY <1>2, <2>2, <2>3, ThreadsPages
<1>3. CASE (Arrive(c) \/ Park(c) \/ Leave(c)) /\ UNCHANGED benching
  <2>1. /\ UNCHANGED <<main, benching>>
        /\ Moves(c, "new", "wait") \/ Moves(c, "park", "schedule") \/ Moves(c, "schedule", "gone")
    BY <1>3 DEF Arrive, Park, Leave, MainUnchanged
  <2>2. CASE Moves(c, "new", "wait")
    BY <1>2, <2>1, <2>2
  <2>3. CASE Moves(c, "park", "schedule")
    BY <1>2, <2>1, <2>3
  <2>4. CASE Moves(c, "schedule", "gone")
    BY <1>2, <2>1, <2>4
  <2> QED
    BY <2>1, <2>2, <2>3, <2>4
<1>4. CASE StartBody(c)
  BY <1>1, <1>4, StartPages
<1>5. CASE BenchLoop(c)
  BY <1>5, BenchLoopPages
<1>6. CASE EndBody(c)
  <2>1. UNCHANGED <<main, benching>> /\ Moves(c, "bench", "park") /\ body[c].page = None
    BY <1>6, BodyIs DEF EndBody, BenchEnds, MainUnchanged
  <2> QED
    BY <1>2, <2>1
<1> QED
  BY <1>3, <1>4, <1>5, <1>6 DEF Thread

LEMMA MainPages ==
  ASSUME PagesInv, IInv, MainSteps
  PROVE  PagesInv'
<1>1. CASE Spawn /\ UNCHANGED benching
  <2>1. PICK c \in todo : thread' = [thread EXCEPT ![c] = "new"]
    BY <1>1 DEF Spawn
  <2>2. c \in Cpus /\ thread[c] = "gone" /\ UNCHANGED main /\ main = "spawn"
        /\ thread \in [Cpus -> {"new", "wait", "bench", "park", "schedule", "gone"}]
    BY <1>1, <2>1 DEF IInv, Types, WhenSpawning, Spawn
  <2>3. \A d \in Cpus : thread[d] = "bench" /\ body[d].page # None => thread'[d] = "bench"
    BY <2>1, <2>2
  <2> QED
    BY <1>1, <2>2, <2>3, ThreadsPages
<1>2. CASE (Kick \/ Finish \/ Stop \/ Join) /\ UNCHANGED benching
  <2>1. UNCHANGED <<thread, benching>> /\ main' # "spawn"
    BY <1>2 DEF Kick, Finish, Stop, Join
  <2> QED
    BY <2>1, ThreadsPages
<1>3. CASE ReturnAll /\ CleanUp
  BY <1>3, CleanUpPages DEF ReturnAll
<1> QED
  BY <1>1, <1>2, <1>3 DEF MainSteps

LEMMA NextPages == PagesInv /\ IInv /\ [NextAll]_allVars => PagesInv'
<1> SUFFICES ASSUME PagesInv, IInv, [NextAll]_allVars PROVE PagesInv'
  OBVIOUS
<1>1. CASE RunParallel
  BY <1>1, RunParallelPages
<1>2. CASE SpawnFails /\ CleanUp
  BY <1>2, CleanUpPages DEF SpawnFails
<1>3. CASE MainSteps
  BY <1>3, MainPages
<1>4. CASE \E c \in Cpus : Thread(c)
  BY <1>4, ThreadPages
<1>5. CASE UNCHANGED allVars
  <2>1. UNCHANGED <<benching, main, thread>>
    BY <1>5 DEF allVars, vars
  <2> QED
    BY <2>1, ThreadsPages
<1> QED
  BY <1>1, <1>2, <1>3, <1>4, <1>5 DEF NextAll

-----------------------------------------------------------------------------
(* What it says of PagesCounted *)

(* A place, as a row and an index.                                           *)
LEMMA PlaceIs ==
  ASSUME PagesInv, NEW p \in Pages, NEW at \in PlacesOf(p)
  PROVE  \E x \in RowIds : \E i \in 1 .. Len(Rows[x]) :
            /\ Rows[x][i] = p
            /\ \/ x = <<"ring", at[2]>> /\ i = at[3] /\ at = <<"ring", at[2], at[3]>>
               \/ x = <<"page", at[2]>> /\ at = <<"cpu", at[2], 0>>
               \/ x = <<"stack", at[2]>> /\ i = at[3] /\ at = <<"cpu", at[2], at[3]>>
<1>1. CASE at \in {"ring"} \X (1 .. 2) \X (1 .. QSize) /\ at[3] <= Len(ring[at[2]])
           /\ ring[at[2]][at[3]] = p
  <2>1. at[2] \in 1 .. 2 /\ at[3] \in 1 .. QSize /\ at = <<"ring", at[2], at[3]>>
    BY <1>1
  <2>2. <<"ring", at[2]>> \in RowIds /\ Rows[<<"ring", at[2]>>] = ring[at[2]]
    BY <2>1, RowsAt
  <2>3. Len(ring[at[2]]) \in Nat
    BY <2>1, LenProperties DEF PagesInv, PageTypes
  <2>4. at[3] \in 1 .. Len(ring[at[2]])
    BY <1>1, <2>1, <2>3, BenchAssumption
  <2> QED
    BY <1>1, <2>1, <2>2, <2>4
<1>2. CASE at \in {"cpu"} \X Cpus \X (0 .. Bulk + 1) /\ at[3] = 0 /\ body[at[2]].page = p
  <2>1. at[2] \in Cpus /\ at = <<"cpu", at[2], 0>>
    BY <1>2
  <2>2. p # None
    BY BenchAssumption
  <2>3. <<"page", at[2]>> \in RowIds /\ Rows[<<"page", at[2]>>] = <<p>>
    BY <1>2, <2>1, <2>2, RowsAt DEF InHand
  <2>4. 1 \in 1 .. Len(<<p>>) /\ <<p>>[1] = p
    OBVIOUS
  <2> QED
    BY <2>1, <2>3, <2>4
<1>3. CASE at \in {"cpu"} \X Cpus \X (0 .. Bulk + 1) /\ at[3] # 0
           /\ at[3] <= Len(body[at[2]].stack) /\ body[at[2]].stack[at[3]] = p
  <2>1. at[2] \in Cpus /\ at[3] \in 0 .. Bulk + 1 /\ at = <<"cpu", at[2], at[3]>>
    BY <1>3
  <2>2. <<"stack", at[2]>> \in RowIds /\ Rows[<<"stack", at[2]>>] = body[at[2]].stack
    BY <2>1, RowsAt
  <2>3. Len(body[at[2]].stack) \in Nat
    BY <2>1, BodyIs, LenProperties
  <2>4. at[3] \in 1 .. Len(body[at[2]].stack)
    BY <1>3, <2>1, <2>3, BenchAssumption
  <2> QED
    BY <1>3, <2>1, <2>2, <2>4
<1> QED
  BY <1>1, <1>2, <1>3 DEF PlacesOf

(* A CPU's stack fits its places.                                            *)
LEMMA PlaceFor ==
  ASSUME PagesInv, bench \in OnTheirOwn, NEW p \in InRows(Rows)
  PROVE  PlacesOf(p) # {}
<1>1. p \in Pages
  BY DEF InRows
<1>2. PICK x \in RowIds : \E i \in 1 .. Len(Rows[x]) : Rows[x][i] = p
  BY DEF InRows
<1>3. PICK i \in 1 .. Len(Rows[x]) : Rows[x][i] = p
  BY <1>2
<1>4. CASE x \in {"ring"} \X (1 .. 2)
  <2>1. PICK q \in 1 .. 2 : x = <<"ring", q>>
    BY <1>4
  <2>2. Rows[x] = << >>
    BY <2>1, RowsAt DEF PagesInv, RingsFit, NoRings
  <2>3. Len(Rows[x]) = 0
    BY <2>2
  <2> QED
    BY <1>3, <2>3
<1>5. CASE x \in {"page", "stack"} \X Cpus
  <2>1. PICK c \in Cpus : x = <<"page", c>> \/ x = <<"stack", c>>
    BY <1>5
  <2>2. CASE x = <<"page", c>>
    <3>1. Rows[x] = InHand(body[c].page)
      BY <2>2, RowsAt
    <3>2. body[c].page = p
      <4>1. CASE body[c].page = None
        BY <1>3, <3>1, <4>1 DEF InHand
      <4>2. CASE body[c].page # None
        BY <1>3, <3>1, <4>2 DEF InHand
      <4> QED
        BY <4>1, <4>2
    <3>3. <<"cpu", c, 0>> \in {"cpu"} \X Cpus \X (0 .. Bulk + 1)
      BY BenchAssumption
    <3> QED
      BY <3>2, <3>3 DEF PlacesOf
  <2>3. CASE x = <<"stack", c>>
    <3>1. Rows[x] = body[c].stack
      BY <2>3, RowsAt
    <3>2. Len(body[c].stack) \in Nat /\ Len(body[c].stack) <= Bulk + 1 /\ Bulk \in Nat
      BY BodyIs, LenProperties, BenchAssumption DEF BodyFits
    <3>3. i \in 1 .. Bulk + 1 /\ i <= Len(body[c].stack) /\ body[c].stack[i] = p /\ i # 0
      BY <1>3, <3>1, <3>2
    <3>4. <<"cpu", c, i>> \in {"cpu"} \X Cpus \X (0 .. Bulk + 1)
      BY <3>3
    <3> QED
      BY <3>3, <3>4 DEF PlacesOf
  <2> QED
    BY <2>1, <2>2, <2>3
<1> QED
  BY <1>4, <1>5 DEF RowIds

LEMMA PagesInvCounts == PagesInv => PagesCounted
<1> SUFFICES ASSUME PagesInv, NEW p \in Pages
             PROVE  /\ Cardinality(PlacesOf(p)) <= 1
                    /\ PlacesOf(p) # {} => ref[p] >= 1
                    /\ PlacesOf(p) = {} /\ bench \in OnTheirOwn => ref[p] = 0
  BY DEF PagesCounted
<1>1. ASSUME NEW at \in PlacesOf(p), NEW to \in PlacesOf(p) PROVE at = to
  <2>1. PICK x \in RowIds : \E i \in 1 .. Len(Rows[x]) :
            /\ Rows[x][i] = p
            /\ \/ x = <<"ring", at[2]>> /\ i = at[3] /\ at = <<"ring", at[2], at[3]>>
               \/ x = <<"page", at[2]>> /\ at = <<"cpu", at[2], 0>>
               \/ x = <<"stack", at[2]>> /\ i = at[3] /\ at = <<"cpu", at[2], at[3]>>
    BY PlaceIs
  <2>2. PICK i \in 1 .. Len(Rows[x]) :
            /\ Rows[x][i] = p
            /\ \/ x = <<"ring", at[2]>> /\ i = at[3] /\ at = <<"ring", at[2], at[3]>>
               \/ x = <<"page", at[2]>> /\ at = <<"cpu", at[2], 0>>
               \/ x = <<"stack", at[2]>> /\ i = at[3] /\ at = <<"cpu", at[2], at[3]>>
    BY <2>1
  <2>3. PICK y \in RowIds : \E j \in 1 .. Len(Rows[y]) :
            /\ Rows[y][j] = p
            /\ \/ y = <<"ring", to[2]>> /\ j = to[3] /\ to = <<"ring", to[2], to[3]>>
               \/ y = <<"page", to[2]>> /\ to = <<"cpu", to[2], 0>>
               \/ y = <<"stack", to[2]>> /\ j = to[3] /\ to = <<"cpu", to[2], to[3]>>
    BY PlaceIs
  <2>4. PICK j \in 1 .. Len(Rows[y]) :
            /\ Rows[y][j] = p
            /\ \/ y = <<"ring", to[2]>> /\ j = to[3] /\ to = <<"ring", to[2], to[3]>>
               \/ y = <<"page", to[2]>> /\ to = <<"cpu", to[2], 0>>
               \/ y = <<"stack", to[2]>> /\ j = to[3] /\ to = <<"cpu", to[2], to[3]>>
    BY <2>3
  <2>5. x = y /\ i = j
    BY <2>2, <2>4 DEF PagesInv, Once
  <2>6. x[1] \in {"ring", "page", "stack"}
    BY <2>2
  <2>7. at[2] = to[2]
    BY <2>2, <2>4, <2>5
  <2> QED
    BY <2>2, <2>4, <2>5, <2>7
<1>2. ASSUME PlacesOf(p) # {} PROVE ref[p] >= 1
  <2>1. PICK at \in PlacesOf(p) : TRUE
    BY <1>2
  <2>2. p \in InRows(Rows)
    BY <2>1, PlaceIs DEF InRows
  <2> QED
    BY <2>2 DEF PagesInv, Held
<1>3. ASSUME PlacesOf(p) = {}, bench \in OnTheirOwn PROVE ref[p] = 0
  <2>1. p \notin InRows(Rows)
    BY <1>3, PlaceFor
  <2>2. ref[p] \in Nat /\ ref[p] <= 1 /\ ref[p] # 1
    BY <1>3, <2>1 DEF PagesInv, Own, PageTypes
  <2> QED
    BY <2>2
<1>4. Cardinality(PlacesOf(p)) <= 1
  <2>1. CASE PlacesOf(p) = {}
    <3>1. Cardinality(PlacesOf(p)) = 0
      BY <2>1, FS_EmptySet
    <3> QED
      BY <3>1
  <2>2. CASE PlacesOf(p) # {}
    <3>1. PICK at \in PlacesOf(p) : TRUE
      BY <2>2
    <3>2. PlacesOf(p) = {at}
      BY <1>1, <3>1
    <3>3. Cardinality(PlacesOf(p)) = 1
      BY <3>2, FS_Singleton
    <3> QED
      BY <3>3
  <2> QED
    BY <2>1, <2>2
<1> QED
  BY <1>2, <1>3, <1>4

(* No page is in two places, none is free while a ring or a CPU has it, and  *)
(* what the CPUs have allocated for themselves is free or in their hands.    *)
THEOREM PagesAccounted == SpecAll => []PagesCounted
<1>1. SpecAll => []IInv
  BY BenchesRunOnTimeBench, RunsInvariant, PTL
<1>2. SpecAll => []PagesInv
  <2>1. InitAll => PagesInv
    BY InitPages
  <2>2. PagesInv /\ IInv /\ [NextAll]_allVars => PagesInv'
    BY NextPages
  <2> QED
    BY <1>1, <2>1, <2>2, PTL DEF SpecAll
<1> QED
  BY <1>2, PagesInvCounts, PTL
=============================================================================
