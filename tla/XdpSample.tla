----------------------------- MODULE XdpSample ------------------------------
(* The other XDP samples of samples/bpf and napi_monitor.  A user program    *)
(* loads the BPF programs of its object file, configures them through maps,  *)
(* attaches the first one to a device and polls its per-CPU counters until a *)
(* signal ends it.  The programs run on all CPUs meanwhile.                  *)
EXTENDS Naturals, Sequences, FiniteSets

CONSTANTS
    Samples,     \* the samples that a behaviour may be about
    Cpus,        \* a set of numbers
    MaxRuns,     \* bound: runs of a sample's program on each CPU
    MaxFailed,   \* bound: failing calls that main goes on after, and the
                 \* failing lookups of a record
    Patterns,    \* values of --pattern1 (N drops, then N accepts)
    Overrides,   \* values of --action, "none" when it is not given
    None

Tools   == {"rxhash", "bench01", "bench02", "ttl", "tail_calls", "napi"}
Actions == {"aborted", "drop", "pass", "tx"}

ASSUME SampleAssumption ==
    /\ Samples \subseteq Tools
    /\ Cpus \subseteq Nat /\ IsFiniteSet(Cpus)
    /\ MaxRuns \in [Samples -> [Cpus -> Nat]] /\ MaxFailed \in Nat /\ Patterns \subseteq Nat
    /\ Overrides \subseteq {"none", "drop", "pass", "tx"}
    /\ None \notin {"INT", "TERM", "KILL", "error", "done"}

VARIABLES
    sample,   \* the user program
    arg,      \* its arguments
    at,       \* where its main is
    ended,    \* None, or what has ended it: a signal, "error" or "done"
    prog_fd,  \* the loaded programs in the order of bpf_load.c
    conf,     \* contents of the maps xdp_action, xdp_pattern, touch_memory
    handled,  \* the signals with a handler
    failed,   \* history: the calls that have failed and that main went on after
    root,     \* the program on the device (for napi: on the tracepoint)
    jump,     \* the jump tables of bpf_tail_calls01
    cpu,      \* the counters a running program has still to increment
    seen,     \* the number of times the program was started on a CPU
    count,    \* the counter of N_drop_N_accept
    cnt,      \* the per-CPU counters
    rec, rd,  \* the record of stats_poll, and how far it has been read
    missed    \* the counters of that record whose lookup has failed

user   == <<sample, arg, at, ended, prog_fd, conf, handled, failed, jump>>
kernel == <<cpu, seen, count, cnt>>
stats  == <<rec, rd, missed>>
vars   == <<user, root, kernel, stats>>

-----------------------------------------------------------------------------
(* The samples                                                               *)

(* The programs of the object files, in the order of their sections.         *)
Progs(s) ==
    CASE s = "tail_calls" -> <<"xdp", "xdp_1", "xdp_5", "xdp_unrelated">>
      [] s = "napi" -> <<"napi_poll", "softirq_entry", "softirq_exit", "softirq_raise">>
      [] OTHER -> <<"xdp">>

(* The steps of main (of xdp_rxhash with --stats; without it, main returns   *)
(* after the attach, which is a poll that fails).                            *)
RxHashMain_Attach ==                \* FAULTY: no handler yet at the attach
    <<"load", "xdp_action", "touch_memory", "attach", "handle", "poll">>
RxHashMain    == <<"load", "xdp_action", "touch_memory", "handle", "attach", "poll">>
Bench01Main   == <<"load", "xdp_action", "touch_memory", "handle", "attach", "poll">>
Bench02Main   == <<"load", "xdp_action", "touch_memory", "xdp_pattern",
                   "handle", "attach", "poll">>
TtlMain       == <<"load", "handle", "attach", "poll">>
TailCallsMain == <<"load", "jump12", "attach", "handle", "jump3", "takeover", "exit">>
NapiMain      == <<"load", "poll">>

Life(s) ==
    CASE s = "rxhash"  -> RxHashMain  [] s = "bench01" -> Bench01Main
      [] s = "bench02" -> Bench02Main [] s = "ttl"     -> TtlMain
      [] s = "napi"    -> NapiMain    [] s = "tail_calls" -> TailCallsMain

HandlerOf(s) ==
    CASE s \in {"rxhash", "tail_calls"} -> {"INT", "TERM"}
      [] s = "napi" -> {}
      [] OTHER -> {"INT"}

(* The counters, in the order in which stats_collect reads them.             *)
Verdicts        == <<"aborted", "drop", "pass", "tx">>
RxHashCounters  == Verdicts \o <<"rx", "L3", "L4">>
Bench02Counters == Verdicts \o <<"rx">>
Bench01Counters == <<"rx">>
TtlCounters     == <<"ttl">>
NapiCounters    == <<"hist", "cnt", "bulk0", "pkts">>

Counters(s) ==
    CASE s = "rxhash"  -> RxHashCounters  [] s = "bench02" -> Bench02Counters
      [] s = "bench01" -> Bench01Counters [] s = "ttl"     -> TtlCounters
      [] s = "napi"    -> NapiCounters    [] OTHER -> << >>

Keys(s) == {Counters(s)[i] : i \in 1 .. Len(Counters(s))}

(* stats_collect: one bpf_map_lookup_elem per counter, which copies the      *)
(* values of all CPUs; napi_monitor gets all counters of a CPU at once.      *)
Pairs(s) == {<<k, c>> : k \in 1 .. Len(Counters(s)), c \in Cpus}

Before(s, p, q) ==
    IF s = "napi" THEN p[2] < q[2] \/ (p[2] = q[2] /\ p[1] < q[1])
    ELSE p[1] < q[1] \/ (p[1] = q[1] /\ p[2] < q[2])

-----------------------------------------------------------------------------
(* The BPF programs.  A run is the sequence of the counters it increments.   *)

(* odd: no 802.3 ethertype.  The benchmarks look no further than that.       *)
Inputs(s) == IF s = "napi" THEN {"empty", "work", "violation"}
             ELSE {"short", "odd", "udp"}
                      \cup (IF s \in {"rxhash", "ttl"} THEN {"tcp"} ELSE {})

Overridden(action) == IF conf.action # "none" THEN conf.action ELSE action

RxHash_Late(in) ==                  \* FAULTY: counts the verdict first
    IF in = "short" THEN <<>>
    ELSE IF in = "odd" /\ conf.touch THEN <<"L3", "L4">>
    ELSE <<"L3", "L4", Overridden(IF in = "udp" THEN "aborted" ELSE "pass"), "rx">>
RxHash(in) ==
    IF in = "short" THEN <<>>
    ELSE IF in = "odd" /\ conf.touch THEN <<"L3", "L4">>
    ELSE <<"L3", "L4", "rx", Overridden(IF in = "udp" THEN "aborted" ELSE "pass")>>

(* N_drop_N_accept                                                           *)
NextVal_Off(val) == IF val >= 2 * conf.n THEN 0 ELSE val + 1   \* FAULTY: off by one
NextVal(val) == IF val + 1 >= 2 * conf.n THEN 0 ELSE val + 1

Pattern(val) ==
    IF conf.n = 0 THEN "pass"
    ELSE IF val < conf.n THEN "drop"
    ELSE IF val < 2 * conf.n THEN "pass" ELSE "tx"

Bench02Skips(in) == in = "short" \/ (in = "odd" /\ conf.touch)

(* The map blacklist of xdp_bench02 is always empty.                         *)
Bench02(c, in) ==
    IF Bench02Skips(in) THEN <<>>
    ELSE <<"rx", Overridden(IF conf.type = 1 THEN Pattern(count[c]) ELSE "drop")>>

Bench01(in) == IF in = "short" \/ (in = "odd" /\ conf.touch) THEN <<>> ELSE <<"rx">>

Ttl(in) == IF in \in {"udp", "tcp"} THEN <<"ttl">> ELSE <<>>

NapiPoll(in) ==
    CASE in = "empty"     -> <<"hist", "cnt", "bulk0">>
      [] in = "work"      -> <<"hist", "cnt", "pkts">>
      [] in = "violation" -> <<"cnt", "pkts">>

(* bpf_tail_calls01: the program in which a packet's tail calls end.         *)
Entry(table, i)  == IF <<table, i>> \in DOMAIN jump THEN jump[<<table, i>>] ELSE None
AfterCall(p) ==
    CASE p = "xdp"   -> Entry(1, 1)
      [] p = "xdp_1" -> Entry(1, 5)
      [] OTHER -> None

ProgramRuns(c, in) ==
    CASE sample = "rxhash"  -> RxHash(in)
      [] sample = "bench02" -> Bench02(c, in)
      [] sample = "bench01" -> Bench01(in)
      [] sample = "ttl"     -> Ttl(in)
      [] sample = "napi"    -> NapiPoll(in)
      [] OTHER -> <<>>

(* A packet, or a poll, on a CPU: the program runs to its end there.         *)
Packet(c) ==
    /\ root # None /\ cpu[c] = <<>> /\ seen[c] < MaxRuns[sample][c]
    /\ seen' = [seen EXCEPT ![c] = @ + 1]
    /\ \E in \in Inputs(sample) :
         /\ cpu' = [cpu EXCEPT ![c] = ProgramRuns(c, in)]
         /\ count' = IF sample = "bench02" /\ conf.type = 1 /\ ~Bench02Skips(in)
                     THEN [count EXCEPT ![c] = NextVal(@)] ELSE count
    /\ UNCHANGED <<user, root, cnt, stats>>

Count(c) ==
    /\ cpu[c] # <<>>
    /\ cnt' = [cnt EXCEPT ![c][Head(cpu[c])] = @ + 1]
    /\ cpu' = [cpu EXCEPT ![c] = Tail(@)]
    /\ UNCHANGED <<user, root, seen, count, stats>>

-----------------------------------------------------------------------------
(* The user programs                                                         *)

NoConf    == [action |-> "none", n |-> 0, type |-> 0, touch |-> FALSE]
NoEntries == [e \in {} |-> None]

Init ==
    /\ sample \in Samples
    /\ arg \in [action : IF sample \in {"rxhash", "bench02"} THEN Overrides ELSE {"none"},
                n      : IF sample = "bench02" THEN Patterns ELSE {0},
                type   : {IF sample = "bench02" THEN 1 ELSE 0},
                touch  : IF sample \in {"rxhash", "bench01", "bench02"}
                         THEN BOOLEAN ELSE {FALSE}]
    /\ at = 1 /\ ended = None
    /\ prog_fd = <<>> /\ conf = NoConf /\ handled = {} /\ root = None
    /\ failed = {} /\ jump = NoEntries
    /\ cpu = [c \in Cpus |-> <<>>] /\ seen = [c \in Cpus |-> 0]
    /\ count = [c \in Cpus |-> 0]
    /\ cnt = [c \in Cpus |-> [k \in Keys(sample) |-> 0]]
    /\ rec = [k \in Keys(sample) |-> 0] /\ rd = {}
    /\ missed = {}

Step(name) == ended = None /\ Life(sample)[at] = name
Continue   == at' = at + 1 /\ UNCHANGED <<ended, stats>>

NewRecord == rd' = {} /\ rec' = [k \in Keys(sample) |-> 0] /\ missed' = {}

(* The end of the process, whatever it is, takes its record with it and      *)
(* closes its maps: the kernel then empties the jump tables, even those of   *)
(* an attached program.  The maps of data live on with the program.          *)
Exit(why) == ended' = why /\ jump' = NoEntries /\ NewRecord /\ UNCHANGED at

(* A call fails and main does not notice, or does not care.                  *)
Fails(call) == Cardinality(failed) < MaxFailed /\ failed' = failed \cup {call}

(* load_and_attach: a program that cannot be loaded is left out, and nobody  *)
(* looks at the result; the others keep their order.  A tracepoint program   *)
(* is attached at once.                                                      *)
Increasing(n, m) ==
    {f \in [1 .. n -> 1 .. m] : \A i, j \in 1 .. n : i < j => f[i] < f[j]}

Load ==
    /\ Step("load")
    /\ \E n \in 0 .. Len(Progs(sample)) : \E f \in Increasing(n, Len(Progs(sample))) :
         prog_fd' = [i \in 1 .. n |-> Progs(sample)[f[i]]]
    /\ IF prog_fd' = << >> THEN Exit("error") ELSE Continue /\ UNCHANGED jump
    /\ root' = IF \E i \in DOMAIN prog_fd' : prog_fd'[i] = "napi_poll"
               THEN "napi_poll" ELSE None
    /\ UNCHANGED <<sample, arg, conf, handled, failed, kernel>>

(* set_xdp_action, set_touch_mem and set_xdp_pattern print an error when the *)
(* update of the map fails, and return false, which main ignores: it goes on *)
(* to the attach with the zero that the map has held from the start.         *)
SetMap(map, set) ==
    /\ Step(map) /\ Continue
    /\ \/ conf' = set /\ UNCHANGED failed
       \/ Fails(map) /\ UNCHANGED conf
    /\ UNCHANGED <<sample, arg, prog_fd, handled, jump, root, kernel>>

SetAction  == SetMap("xdp_action", [conf EXCEPT !.action = arg.action])
SetTouch   == SetMap("touch_memory", [conf EXCEPT !.touch = arg.touch])
SetPattern == SetMap("xdp_pattern", [conf EXCEPT !.n = arg.n, !.type = arg.type])

Handle ==
    /\ Step("handle") /\ Continue
    /\ handled' = HandlerOf(sample)
    /\ UNCHANGED <<sample, arg, prog_fd, conf, failed, jump, root, kernel>>

(* set_link_xdp_fd; when it fails main returns (ToolFails).                  *)
Attach ==
    /\ Step("attach") /\ Continue
    /\ root' = prog_fd[1]
    /\ UNCHANGED <<sample, arg, prog_fd, conf, handled, failed, jump, kernel>>

(* jmp_table_add_prog, for several entries: prog_fd[] is zero past its end.  *)
AddProgs_Any(entries) ==            \* FAULTY: no check of the descriptor
    /\ jump' = [e \in DOMAIN jump \cup DOMAIN entries |->
                  IF e \notin DOMAIN entries THEN jump[e]
                  ELSE IF entries[e] <= Len(prog_fd) THEN prog_fd[entries[e]] ELSE None]
    /\ Continue
AddProgs(entries) ==
    IF \E e \in DOMAIN entries : entries[e] > Len(prog_fd)
    THEN Exit("error")
    ELSE /\ jump' = [e \in DOMAIN jump \cup DOMAIN entries |->
                       IF e \in DOMAIN entries THEN prog_fd[entries[e]] ELSE jump[e]]
         /\ Continue

TailCallsUnchanged ==
    UNCHANGED <<sample, arg, prog_fd, conf, handled, failed, root, kernel>>

Jump12 ==
    /\ Step("jump12")
    /\ AddProgs([e \in {<<1, 1>>, <<1, 5>>, <<2, 40>>} |->
                   CASE e = <<1, 1>> -> 2 [] e = <<1, 5>> -> 3 [] e = <<2, 40>> -> 4])
    /\ TailCallsUnchanged

Jump3 ==
    /\ Step("jump3")
    /\ AddProgs([e \in {<<3, 30>>} |-> 4])
    /\ TailCallsUnchanged

TakeOver ==
    /\ Step("takeover")
    /\ AddProgs([e \in {<<1, 5>>} |-> 4])
    /\ TailCallsUnchanged

(* int_exit, from the end of main or as a signal handler.  It exits whether  *)
(* set_link_xdp_fd(ifindex, -1, flags) has removed the program or not.       *)
IntExit(why) ==
    /\ Exit(why)
    /\ \/ root' = None /\ UNCHANGED failed
       \/ Fails("detach") /\ UNCHANGED root

ExitMain ==
    /\ Step("exit") /\ IntExit("done")
    /\ UNCHANGED <<sample, arg, prog_fd, conf, handled, kernel>>

(* The end of a process without int_exit leaves the program on the device,   *)
(* but not on a tracepoint, which its perf event held.                       *)
Die(why) ==
    /\ Exit(why) /\ UNCHANGED failed
    /\ root' = IF sample = "napi" THEN None ELSE root

Signal(s) ==
    /\ ended = None
    /\ IF s \in handled THEN IntExit(s) ELSE Die(s)
    /\ UNCHANGED <<sample, arg, prog_fd, conf, handled, kernel>>

(* A call fails whose result main does look at, and the process exits.  In   *)
(* its loop xdp_ttl has no such call.                                        *)
ToolFails ==
    /\ ended = None
    /\ \/ Life(sample)[at] \in {"load", "attach", "jump12", "jump3", "takeover"}
       \/ Life(sample)[at] = "poll" /\ sample # "ttl"
    /\ Die("error")
    /\ UNCHANGED <<sample, arg, prog_fd, conf, handled, kernel>>

(* stats_poll                                                                *)
Collect ==
    /\ Step("poll")
    /\ IF rd = Pairs(sample)
       THEN NewRecord
       ELSE \E p \in Pairs(sample) \ rd :
              /\ \A q \in Pairs(sample) \ rd : p = q \/ Before(sample, p, q)
              /\ rd' = rd \cup {p}
              /\ LET key == Counters(sample)[p[1]]
                 IN  rec' = [rec EXCEPT ![key] = @ + cnt[p[2]][key]]
              /\ UNCHANGED missed
    /\ UNCHANGED <<user, root, kernel>>

(* bpf_map_lookup_elem fails.  get_key32_value64_percpu then returns 0, like *)
(* for a counter that has counted nothing, and stats_collect goes on (L3 and *)
(* L4 stand for a counter per hash type: any of them may be the one).        *)
(* xdp_ttl throws the record away; the other samples exit (ToolFails).       *)
LookupFails ==
    /\ Step("poll") /\ rd # Pairs(sample)
    /\ \/ sample = "ttl" /\ NewRecord
       \/ /\ sample \in {"rxhash", "bench02"} /\ Cardinality(missed) < MaxFailed
          /\ \E k \in 1 .. Len(Counters(sample)) :
               /\ rd = {p \in Pairs(sample) : p[1] < k}
               /\ rd' = rd \cup ({k} \X Cpus)
               /\ missed' = missed \cup {Counters(sample)[k]}
          /\ UNCHANGED rec
    /\ UNCHANGED <<user, root, kernel>>

-----------------------------------------------------------------------------
Main == Load \/ SetAction \/ SetTouch \/ SetPattern \/ Handle \/ Attach
            \/ Jump12 \/ Jump3 \/ TakeOver \/ ExitMain
            \/ ToolFails \/ Collect \/ LookupFails

Next == Main \/ (\E s \in {"INT", "TERM", "KILL"} : Signal(s))
             \/ (\E c \in Cpus : Packet(c) \/ Count(c))

Spec == Init /\ [][Next]_vars

-----------------------------------------------------------------------------
(* Properties *)

Collected == rd = Pairs(sample)

(* What stats_poll shows is consistent although the programs run on:  the    *)
(* verdicts add up to at most rx_total, and every counted packet has been    *)
(* counted in the hash types.  The programs count in one order, stats_collect*)
(* reads in the other.  A lookup that fails may be told from the record only *)
(* where it is the larger side of a comparison that it makes 0.              *)
TotalsOrdered ==
    Collected =>
        /\ sample \in {"rxhash", "bench02"} /\ "rx" \notin missed =>
             rec["aborted"] + rec["drop"] + rec["pass"] + rec["tx"] <= rec["rx"]
        /\ sample = "rxhash" =>
             \A type \in {"L3", "L4"} \ missed : rec["rx"] <= rec[type]

(* N drops, N accepts, and so on, on each CPU.                               *)
PatternDrops(k, n) ==
    IF n = 0 THEN 0
    ELSE (k \div (2 * n)) * n + (IF k % (2 * n) < n THEN k % (2 * n) ELSE n)

(* What main has configured: what the command line asks for, save for the    *)
(* maps whose update has failed.                                             *)
Meant ==
    LET set(map) == map \notin failed
    IN  [action |-> IF set("xdp_action") THEN arg.action ELSE NoConf.action,
         n      |-> IF set("xdp_pattern") THEN arg.n ELSE NoConf.n,
         type   |-> IF set("xdp_pattern") THEN arg.type ELSE NoConf.type,
         touch  |-> IF set("touch_memory") THEN arg.touch ELSE NoConf.touch]

(* Every packet that a program has counted got the verdict that the command  *)
(* line asked for, from the first one on: the action of --action, or the     *)
(* pattern, without the XDP_TX that "should not happen" (kern.c:127).  Where *)
(* main went on although a map could not be set, that map counts as not      *)
(* asked for: xdp_bench02 without its pattern drops every packet.            *)
VerdictsAsAsked ==
    \A c \in Cpus : sample \in {"rxhash", "bench02"} /\ cpu[c] = <<>> =>
        LET of(action) == cnt[c][action]
            k == cnt[c]["rx"]
        IN  IF Meant.action # "none" THEN of(Meant.action) = k
            ELSE IF sample = "rxhash" THEN of("aborted") + of("pass") = k
            ELSE IF Meant.type # 1 THEN of("drop") = k
            ELSE of("drop") = PatternDrops(k, Meant.n) /\ of("pass") = k - of("drop")

(* "Remove XDP program when program is interrupted": Ctrl-C at any time      *)
(* leaves no program on the device, except for bpf_tail_calls01, which       *)
(* attaches before it has a handler, and unless the kernel refused the       *)
(* removal, whose result int_exit ignores.                                   *)
NothingLeft ==
    ended = "INT" /\ sample # "tail_calls" /\ "detach" \notin failed => root = None

(* However many programs failed to load, and moved the others to another     *)
(* place of prog_fd[], a packet that meets bpf_tail_calls01 on the device    *)
(* enters the root program, and while the process that filled the tables is  *)
(* alive it is called on to xdp_5, or to what has taken its entry over.      *)
(* After that no call leads anywhere: a program left on the device passes    *)
(* every packet on itself.                                                   *)
CallsAsMeant ==
    sample = "tail_calls" /\ root # None =>
        /\ root = "xdp"
        /\ IF ended = None
           THEN /\ AfterCall("xdp") = "xdp_1"
                /\ AfterCall("xdp_1") \in {"xdp_5", "xdp_unrelated"}
                /\ Entry(2, 40) = "xdp_unrelated"
           ELSE AfterCall("xdp") = None
=============================================================================
