----------------------------- MODULE TimeBench -----------------------------
(* lib/time_bench.c: time_bench_run_concurrent starts one kthread for each   *)
(* CPU of a mask, lets their bench functions begin together, waits for all   *)
(* of them and stops the threads.  Its caller (run_parallel of               *)
(* time_bench_parallel.c, alf_queue_parallel01.c, skb_array_parallel01.c)    *)
(* keeps the sync structure on its stack and, when it returns, prints and    *)
(* frees the records.                                                        *)
EXTENDS Naturals, FiniteSets

CONSTANTS Cpus, SpawnsFail  \* kthread_run may fail

ASSUME CpusAssumption == IsFiniteSet(Cpus) /\ SpawnsFail \in BOOLEAN

VARIABLES
    main,     \* where time_bench_run_concurrent is
    mask,     \* its CPUs
    todo,     \* CPUs that for_each_cpu has not come to
    target,   \* the threads (at most one) kthread_stop waits for
    thread,   \* where each kthread is
    state,    \* its task state
    nr,       \* sync->nr_tests_running
    go,       \* sync->start_event is complete
    failed    \* a kthread_run has failed

vars == <<main, mask, todo, target, thread, state, nr, go, failed>>

Init ==
    /\ main = "idle" /\ mask = {} /\ todo = {} /\ target = {}
    /\ thread = [c \in Cpus |-> "gone"]
    /\ state  = [c \in Cpus |-> "running"]
    /\ nr = 0 /\ go = FALSE /\ failed = FALSE

-----------------------------------------------------------------------------
(* time_bench_run_concurrent *)

(* After a failure the threads of the failed run still use what its caller   *)
(* has freed; the model ends there.                                          *)
Begin ==
    /\ main = "idle" /\ ~failed
    /\ \E m \in SUBSET Cpus : mask' = m /\ todo' = m
    /\ main' = "spawn"
    /\ nr' = 0 /\ go' = FALSE
    /\ UNCHANGED <<target, thread, state, failed>>

Spawn ==
    /\ main = "spawn"
    /\ \E c \in todo :
         /\ todo'   = todo \ {c}
         /\ thread' = [thread EXCEPT ![c] = "new"]
         /\ state'  = [state EXCEPT ![c] = "running"]
    /\ UNCHANGED <<main, mask, target, nr, go, failed>>

(* "Argh, what about cleanup?!"                                              *)
SpawnFails ==
    /\ main = "spawn" /\ todo # {} /\ SpawnsFail
    /\ main' = "idle" /\ failed' = TRUE
    /\ UNCHANGED <<mask, todo, target, thread, state, nr, go>>

AllArrived_But1 == nr + 1 >= Cardinality(mask)  \* FAULTY: one too few
AllArrived == nr >= Cardinality(mask)

(* The loop before complete_all, which polls after each timeout.             *)
Kick ==
    /\ main = "spawn" /\ todo = {}
    /\ AllArrived
    /\ go' = TRUE
    /\ main' = "finish"
    /\ UNCHANGED <<mask, todo, target, thread, state, nr, failed>>

AllFinished_But1 == nr <= 1         \* FAULTY: one too few
AllFinished == nr = 0

Finish ==
    /\ main = "finish"
    /\ AllFinished
    /\ main' = "stop" /\ todo' = mask
    /\ UNCHANGED <<mask, target, thread, state, nr, go, failed>>

(* kthread_stop wakes the thread, if it sleeps, and waits until it is gone.  *)
Stop ==
    /\ main = "stop"
    /\ \E c \in todo :
         /\ todo'  = todo \ {c} /\ target' = {c}
         /\ state' = [state EXCEPT ![c] = "running"]
    /\ main' = "join"
    /\ UNCHANGED <<mask, thread, nr, go, failed>>

Join ==
    /\ main = "join" /\ \A c \in target : thread[c] = "gone"
    /\ target' = {} /\ main' = "stop"
    /\ UNCHANGED <<mask, todo, thread, state, nr, go, failed>>

ReturnAll ==
    /\ main = "stop" /\ todo = {}
    /\ main' = "idle" /\ mask' = {}
    /\ UNCHANGED <<todo, target, thread, state, nr, go, failed>>

-----------------------------------------------------------------------------
(* invoke_test_on_cpu_func *)

Moves(c, from, to) == thread[c] = from /\ thread' = [thread EXCEPT ![c] = to]
MainUnchanged      == UNCHANGED <<main, mask, todo, target, go, failed>>

Arrive_Late(c) ==                   \* FAULTY: counted after start_event
    /\ Moves(c, "new", "wait") /\ go
    /\ nr' = nr + 1
    /\ UNCHANGED state /\ MainUnchanged

Arrive(c) ==
    /\ Moves(c, "new", "wait")
    /\ nr' = nr + 1
    /\ UNCHANGED state /\ MainUnchanged

WaitStart(c) ==
    /\ Moves(c, "wait", "bench") /\ go
    /\ UNCHANGED <<state, nr>> /\ MainUnchanged

BenchEnds_Counts(c) ==              \* FAULTY: atomic_inc
    /\ Moves(c, "bench", "park")
    /\ nr' = nr + 1
    /\ UNCHANGED state /\ MainUnchanged

(* The bench function, did_bench_run and atomic_dec.                         *)
BenchEnds(c) ==
    /\ Moves(c, "bench", "park")
    /\ nr' = nr - 1
    /\ UNCHANGED state /\ MainUnchanged

Park(c) ==
    /\ Moves(c, "park", "schedule")
    /\ state' = [state EXCEPT ![c] = "uninterruptible"]
    /\ UNCHANGED nr /\ MainUnchanged

(* schedule() returns when the task is, or is again, runnable.               *)
Leave(c) ==
    /\ Moves(c, "schedule", "gone") /\ state[c] = "running"
    /\ UNCHANGED <<state, nr>> /\ MainUnchanged

-----------------------------------------------------------------------------
Main  == Spawn \/ Kick \/ Finish \/ Stop \/ Join \/ ReturnAll
Th(c) == Arrive(c) \/ WaitStart(c) \/ BenchEnds(c) \/ Park(c) \/ Leave(c)

Next == Begin \/ SpawnFails \/ Main \/ \E c \in Cpus : Th(c)

(* The loops of main poll on a timer, and every runnable thread gets a CPU.  *)
Spec == Init /\ [][Next]_vars /\ WF_vars(Main) /\ \A c \in Cpus : WF_vars(Th(c))

-----------------------------------------------------------------------------
(* Properties *)

TypeOK ==
    /\ main \in {"idle", "spawn", "finish", "stop", "join"}
    /\ mask \subseteq Cpus /\ todo \subseteq mask
    /\ target \subseteq mask
    /\ thread \in [Cpus -> {"new", "wait", "bench", "park", "schedule", "gone"}]
    /\ state \in [Cpus -> {"running", "uninterruptible"}]
    /\ nr \in 0 .. Cardinality(mask)
    /\ go \in BOOLEAN /\ failed \in BOOLEAN

(* "Kick off all CPU concurrently" (time_bench.c:394): no bench function     *)
(* begins before the threads of all CPUs are there to run theirs.            *)
StartTogether ==
    \A c \in Cpus : thread[c] = "bench" => \A d \in mask : thread[d] \notin {"new", "gone"}

(* "Wait for CPUs to finish" (time_bench.c:397): a thread is stopped only    *)
(* after its bench; its kthread_stop would otherwise wake nobody, and its    *)
(* caller would free the records that the thread fills.                      *)
StoppedAfterBench ==
    main \in {"stop", "join"} => \A c \in mask : thread[c] \notin {"new", "wait", "bench"}

(* A run whose threads have all been started gets all benches done.          *)
BenchesRun == (main = "spawn" /\ todo = {}) ~> (main = "stop")

(* "Stop the kthreads" (time_bench.c:403), and return to the caller.         *)
RunReturns == main = "stop" ~> main = "idle"
=============================================================================
