-------------------------- MODULE XdpSampleProofs ---------------------------
(* Proofs about XdpSample, for any number of CPUs and of packets, any        *)
(* pattern and any subset of the samples.                                    *)
EXTENDS XdpSample, FiniteSetTheorems, FunctionTheorems, SequenceTheorems, TLAPS

-----------------------------------------------------------------------------
(* The inductive invariant: main                                             *)

Configured == {"rxhash", "bench01", "bench02"}
Counting   == {"rxhash", "bench02"}

Confs == [action : {"none", "drop", "pass", "tx"}, n : Nat, type : {0, 1}, touch : BOOLEAN]

Types ==
    /\ sample \in Samples
    /\ arg \in Confs
    /\ at \in 1 .. Len(Life(sample))
    /\ ended \in {None, "INT", "TERM", "KILL", "error", "done"}
    /\ cpu \in [Cpus -> Seq(Keys(sample))]
    /\ count \in [Cpus -> Nat]
    /\ cnt \in [Cpus -> [Keys(sample) -> Nat]]
    /\ rec \in [Keys(sample) -> Nat] /\ rd \subseteq Pairs(sample)

(* How far main has come, and what it has therefore done.                    *)
AttachAt == CASE sample = "tail_calls" -> 3 [] sample = "ttl" -> 3
              [] sample = "bench02" -> 6 [] OTHER -> 5
HandleAt == CASE sample = "tail_calls" -> 4 [] sample = "ttl" -> 2
              [] sample = "bench02" -> 5 [] OTHER -> 4

(* The maps are set one after the other, or their update fails.              *)
Configure ==
    /\ conf \in Confs
    /\ sample \in Configured =>
         /\ conf.action = IF at > 2 THEN Meant.action ELSE "none"
         /\ conf.touch  = IF at > 3 THEN Meant.touch ELSE FALSE
         /\ conf.n      = IF at > 4 THEN Meant.n ELSE 0
         /\ conf.type   = IF at > 4 THEN Meant.type ELSE 0
    /\ "xdp_action" \in failed => at > 2
    /\ "touch_memory" \in failed => at > 3
    /\ "xdp_pattern" \in failed => at > 4
    /\ sample # "bench02" => arg.n = 0 /\ arg.type = 0

Steps ==
    /\ Configure
    /\ sample # "napi" /\ at > HandleAt => "INT" \in handled
    /\ sample # "napi" /\ root # None => at > AttachAt
    /\ sample = "napi" => handled = {} /\ (root # None => ended = None)
    /\ sample # "tail_calls" /\ ended = "INT" /\ "detach" \notin failed => root = None

Fetched == Len(prog_fd) >= 4 => prog_fd = <<"xdp", "xdp_1", "xdp_5", "xdp_unrelated">>

(* bpf_tail_calls01 goes on only when all four programs are there.           *)
TailCalls ==
    sample = "tail_calls" =>
        /\ at = 2 => Fetched
        /\ at > 2 => prog_fd = <<"xdp", "xdp_1", "xdp_5", "xdp_unrelated">>
        /\ at > 2 /\ ended = None =>
             /\ {<<1, 1>>, <<1, 5>>, <<2, 40>>} \subseteq DOMAIN jump
             /\ jump[<<1, 1>>] = "xdp_1" /\ jump[<<2, 40>>] = "xdp_unrelated"
             /\ jump[<<1, 5>>] \in {"xdp_5", "xdp_unrelated"}
        /\ ended # None => jump = NoEntries
        /\ root # None => root = "xdp"

MainInv == Types /\ Steps /\ TailCalls

-----------------------------------------------------------------------------
(* The inductive invariant: the programs                                     *)

VerdictSet == {"aborted", "drop", "pass", "tx"}

(* The verdicts that the configuration allows.                               *)
Wanted ==
    IF Meant.action # "none" THEN {Meant.action}
    ELSE IF sample = "rxhash" THEN {"aborted", "pass"}
    ELSE IF Meant.type # 1 THEN {"drop"} ELSE {"drop", "pass"}

(* What a run may still have to count, when its verdict is v.                *)
Rests(v) ==
    {<< >>, <<v>>, <<"rx", v>>} \cup
        IF sample = "rxhash"
        THEN {<<"L4", "rx", v>>, <<"L3", "L4", "rx", v>>, <<"L4">>, <<"L3", "L4">>} ELSE {}

(* A packet whose rx has been counted, and not its verdict; one whose rx has *)
(* not been counted, but all that comes before; one that lacks L4 as well.   *)
Due(run)    == IF \E v \in VerdictSet : run = <<v>> THEN 1 ELSE 0
Coming(run) == IF \E v \in VerdictSet : run = <<"rx", v>> THEN 1 ELSE 0
Hashed(run) == IF \E v \in VerdictSet : run = <<"L4", "rx", v>> THEN 1 ELSE 0
Drops(run)  == IF run = <<"drop">> \/ run = <<"rx", "drop">> THEN 1 ELSE 0

Within(c)  == \E v \in Wanted : cpu[c] \in Rests(v)
Balance(c) ==
    /\ cnt[c]["aborted"] + cnt[c]["drop"] + cnt[c]["pass"] + cnt[c]["tx"] + Due(cpu[c])
          = cnt[c]["rx"]
    /\ \A v \in VerdictSet \ Wanted : cnt[c][v] = 0
Hashes(c) ==
    sample = "rxhash" => /\ cnt[c]["rx"] + Coming(cpu[c]) <= cnt[c]["L4"]
                         /\ cnt[c]["rx"] + Coming(cpu[c]) + Hashed(cpu[c]) <= cnt[c]["L3"]
Pattern02(c) ==
    sample = "bench02" /\ Meant.action = "none" /\ Meant.type = 1 =>
        LET k == cnt[c]["rx"] + Coming(cpu[c])
        IN  /\ count[c] = IF Meant.n = 0 THEN 0 ELSE k % (2 * Meant.n)
            /\ cnt[c]["drop"] + Drops(cpu[c]) = PatternDrops(k, Meant.n)

ProgramInv ==
    sample \in Counting => \A c \in Cpus : Within(c) /\ Balance(c) /\ Hashes(c) /\ Pattern02(c)

(* Before the attach, while the maps are set, nothing is counted.            *)
Untouched ==
    \A c \in Cpus : /\ cpu[c] = << >> /\ count[c] = 0
                    /\ \A k \in Keys(sample) : cnt[c][k] = 0

Quiet == sample \in Counting /\ at <= AttachAt => Untouched

-----------------------------------------------------------------------------
(* The inductive invariant: stats_poll                                       *)

(* The sum of a counter of each CPU of a set, as the number of elements of a *)
(* set with m[c] elements for each c.                                        *)
Units(m, S) == UNION {{c} \X (1 .. m[c]) : c \in S}
Total(m, S) == Cardinality(Units(m, S))

Column(key) == [c \in Cpus |-> cnt[c][key]]
Read(k)     == {c \in Cpus : <<k, c>> \in rd}

InOrder == \A p \in rd, q \in Pairs(sample) : q[1] < p[1] => q \in rd

ReadSoFar ==
    \A k \in 1 .. Len(Counters(sample)) :
        LET key == Counters(sample)[k] IN rec[key] <= Total(Column(key), Read(k))

(* rx is the 5th counter, L3 the 6th and L4 the 7th.                         *)
VerdictsRead ==
    "rx" \notin missed /\ (\A k \in 1 .. 4 : Read(k) = Cpus) =>
        rec["aborted"] + rec["drop"] + rec["pass"] + rec["tx"]
            <= rec["rx"] + Total(Column("rx"), Cpus \ Read(5))
RxRead ==
    sample = "rxhash" /\ Read(5) = Cpus =>
        /\ "L3" \notin missed => rec["rx"] <= rec["L3"] + Total(Column("L3"), Cpus \ Read(6))
        /\ "L4" \notin missed => rec["rx"] <= rec["L4"] + Total(Column("L4"), Cpus \ Read(7))

StatsInv == sample \in Counting => InOrder /\ ReadSoFar /\ VerdictsRead /\ RxRead

IInv == MainInv /\ ProgramInv /\ Quiet /\ StatsInv

-----------------------------------------------------------------------------
(* The samples *)

LEMMA LifeIs ==
  /\ Life("rxhash")  = <<"load", "xdp_action", "touch_memory", "handle", "attach", "poll">>
  /\ Life("bench01") = <<"load", "xdp_action", "touch_memory", "handle", "attach", "poll">>
  /\ Life("bench02") = <<"load", "xdp_action", "touch_memory", "xdp_pattern",
                         "handle", "attach", "poll">>
  /\ Life("ttl") = <<"load", "handle", "attach", "poll">>
  /\ Life("napi") = <<"load", "poll">>
  /\ Life("tail_calls") = <<"load", "jump12", "attach", "handle", "jump3", "takeover", "exit">>
BY DEF Life, RxHashMain, Bench01Main, Bench02Main, TtlMain, NapiMain, TailCallsMain

LEMMA KnownSample == Types => sample \in Tools
BY SampleAssumption DEF Types

(* Where main is when it does something.                                     *)
StepPlaces ==
    LET step == Life(sample)[at]
    IN  /\ step = "load" => at = 1
        /\ step = "xdp_action" => at = 2 /\ sample \in Configured
        /\ step = "touch_memory" => at = 3 /\ sample \in Configured
        /\ step = "xdp_pattern" => at = 4 /\ sample = "bench02"
        /\ step = "handle" => at = HandleAt /\ sample # "napi"
        /\ step = "attach" => at = AttachAt /\ sample # "napi"
        /\ step = "jump12" => at = 2 /\ sample = "tail_calls"
        /\ step \in {"jump3", "takeover"} => at \in {5, 6} /\ sample = "tail_calls"
        /\ step = "exit" => sample = "tail_calls"
        /\ step \notin {"poll", "exit"} => at + 1 \in 1 .. Len(Life(sample))

LEMMA StepsHavePlaces == Types => StepPlaces
<1> SUFFICES ASSUME Types PROVE StepPlaces
  OBVIOUS
<1>1. at \in 1 .. Len(Life(sample))
  BY DEF Types
<1>2. CASE sample = "rxhash" \/ sample = "bench01"
  <2>1. Life(sample) = <<"load", "xdp_action", "touch_memory", "handle", "attach", "poll">>
    BY <1>2, LifeIs
  <2>2. at \in {1, 2, 3, 4, 5, 6}
    BY <1>1, <2>1
  <2>3. HandleAt = 4 /\ AttachAt = 5 /\ sample \in Configured
        /\ sample # "napi" /\ sample # "tail_calls"
    BY <1>2 DEF Configured, HandleAt, AttachAt
  <2>4. /\ Life(sample)[at] = "load" => at = 1
        /\ Life(sample)[at] = "xdp_action" => at = 2
        /\ Life(sample)[at] = "touch_memory" => at = 3
        /\ Life(sample)[at] = "handle" => at = 4
        /\ Life(sample)[at] = "attach" => at = 5
        /\ Life(sample)[at] \notin {"xdp_pattern", "jump12", "jump3", "takeover", "exit"}
        /\ Life(sample)[at] # "poll" => at + 1 \in 1 .. Len(Life(sample))
    BY <2>1, <2>2
  <2> QED
    BY <2>3, <2>4, Zenon DEF StepPlaces
<1>3. CASE sample = "bench02"
  <2>1. Life(sample) = <<"load", "xdp_action", "touch_memory", "xdp_pattern",
                         "handle", "attach", "poll">>
    BY <1>3, LifeIs
  <2>2. at \in {1, 2, 3, 4, 5, 6, 7}
    BY <1>1, <2>1
  <2>3. HandleAt = 5 /\ AttachAt = 6 /\ sample \in Configured
        /\ sample # "napi" /\ sample # "tail_calls"
    BY <1>3 DEF Configured, HandleAt, AttachAt
  <2>4. /\ Life(sample)[at] = "load" => at = 1
        /\ Life(sample)[at] = "xdp_action" => at = 2
        /\ Life(sample)[at] = "touch_memory" => at = 3
        /\ Life(sample)[at] = "xdp_pattern" => at = 4
        /\ Life(sample)[at] = "handle" => at = 5
        /\ Life(sample)[at] = "attach" => at = 6
        /\ Life(sample)[at] \notin {"jump12", "jump3", "takeover", "exit"}
        /\ Life(sample)[at] # "poll" => at + 1 \in 1 .. Len(Life(sample))
    BY <2>1, <2>2
  <2> QED
    BY <1>3, <2>3, <2>4, Zenon DEF StepPlaces
<1>4. CASE sample = "ttl"
  <2>1. Life(sample) = <<"load", "handle", "attach", "poll">>
    BY <1>4, LifeIs
  <2>2. at \in {1, 2, 3, 4}
    BY <1>1, <2>1
  <2> QED
    BY <1>4, <2>1, <2>2 DEF StepPlaces, Configured, HandleAt, AttachAt
<1>5. CASE sample = "napi"
  <2>1. Life(sample) = <<"load", "poll">>
    BY <1>5, LifeIs
  <2>2. at \in {1, 2}
    BY <1>1, <2>1
  <2> QED
    BY <1>5, <2>1, <2>2 DEF StepPlaces, Configured, HandleAt, AttachAt
<1>6. CASE sample = "tail_calls"
  <2>1. Life(sample) =
          <<"load", "jump12", "attach", "handle", "jump3", "takeover", "exit">>
    BY <1>6, LifeIs
  <2>2. at \in {1, 2, 3, 4, 5, 6, 7}
    BY <1>1, <2>1
  <2>3. HandleAt = 4 /\ AttachAt = 3 /\ sample # "napi"
    BY <1>6 DEF HandleAt, AttachAt
  <2>4. /\ Life(sample)[at] = "load" => at = 1
        /\ Life(sample)[at] = "jump12" => at = 2
        /\ Life(sample)[at] = "attach" => at = 3
        /\ Life(sample)[at] = "handle" => at = 4
        /\ Life(sample)[at] \in {"jump3", "takeover"} => at \in {5, 6}
        /\ Life(sample)[at] \notin {"xdp_action", "touch_memory", "xdp_pattern"}
        /\ Life(sample)[at] # "exit" => at + 1 \in 1 .. Len(Life(sample))
    BY <2>1, <2>2
  <2> QED
    BY <1>6, <2>3, <2>4, Zenon DEF StepPlaces
<1> QED
  BY <1>2, <1>3, <1>4, <1>5, <1>6, KnownSample DEF Tools

(* What main configures.                                                     *)
LEMMA MeantIs ==
  ASSUME Types, sample # "bench02" => arg.n = 0 /\ arg.type = 0
  PROVE  /\ Meant \in Confs
         /\ Meant.action = IF "xdp_action" \in failed THEN "none" ELSE arg.action
         /\ Meant.touch = IF "touch_memory" \in failed THEN FALSE ELSE arg.touch
         /\ Meant.n = IF "xdp_pattern" \in failed THEN 0 ELSE arg.n
         /\ Meant.type = IF "xdp_pattern" \in failed THEN 0 ELSE arg.type
         /\ sample # "bench02" => Meant.n = 0 /\ Meant.type = 0
BY DEF Types, Confs, Meant, NoConf

(* Four programs in their order out of four are all of them.                 *)
LEMMA AllLoaded ==
  ASSUME sample = "tail_calls", NEW n \in 0 .. 4, NEW f \in Increasing(n, 4), NEW p,
         p = [i \in 1 .. n |-> Progs(sample)[f[i]]], Len(p) >= 4
  PROVE  p = <<"xdp", "xdp_1", "xdp_5", "xdp_unrelated">>
<1> DEFINE P == <<"xdp", "xdp_1", "xdp_5", "xdp_unrelated">>
<1>1. Progs(sample) = P /\ Len(P) = 4
  BY DEF Progs
<1>3. n = 4
  OBVIOUS
<1>4. f \in [1 .. 4 -> 1 .. 4] /\ \A i, j \in 1 .. 4 : i < j => f[i] < f[j]
  BY <1>3 DEF Increasing
<1>5. f[1] = 1 /\ f[2] = 2 /\ f[3] = 3 /\ f[4] = 4
  <2>1. f[1] \in 1 .. 4 /\ f[2] \in 1 .. 4 /\ f[3] \in 1 .. 4 /\ f[4] \in 1 .. 4
    BY <1>4
  <2>2. f[1] < f[2] /\ f[2] < f[3] /\ f[3] < f[4]
    BY <1>4
  <2> QED
    BY <2>1, <2>2
<1>6. p = [i \in 1 .. 4 |-> P[f[i]]]
  BY <1>1, <1>3
<1>7. ASSUME NEW i \in 1 .. 4 PROVE P[f[i]] = P[i]
  <2>1. i = 1 \/ i = 2 \/ i = 3 \/ i = 4
    OBVIOUS
  <2> QED
    BY <2>1, <1>5
<1>8. p = [i \in 1 .. 4 |-> P[i]]
  BY <1>6, <1>7
<1> QED
  BY <1>8

-----------------------------------------------------------------------------
(* Main *)

LEMMA InitMain == Init => MainInv
<1> SUFFICES ASSUME Init PROVE MainInv
  OBVIOUS
<1>1. sample \in Tools /\ arg.action \in {"none", "drop", "pass", "tx"}
  BY SampleAssumption DEF Init
<1>2. arg \in Confs
  <2>1. arg.n \in Nat /\ arg.type \in {0, 1} /\ arg.touch \in BOOLEAN
    <3>1. arg.n \in Nat
      <4>1. Patterns \subseteq Nat
        BY SampleAssumption
      <4>2. CASE sample = "bench02"
        BY <4>1, <4>2 DEF Init
      <4>3. CASE sample # "bench02"
        BY <4>3 DEF Init
      <4> QED
        BY <4>2, <4>3
    <3>2. arg.type = IF sample = "bench02" THEN 1 ELSE 0
      BY DEF Init
    <3>3. arg.touch \in BOOLEAN
      BY DEF Init
    <3> QED
      BY <3>1, <3>2, <3>3
  <2>2. arg = [action |-> arg.action, n |-> arg.n, type |-> arg.type, touch |-> arg.touch]
    BY DEF Init
  <2> QED
    BY <1>1, <2>1, <2>2 DEF Confs
<1>3. 1 \in 1 .. Len(Life(sample))
  <2>1. Len(Life(sample)) \in {2, 4, 6, 7}
    BY <1>1, LifeIs DEF Tools
  <2> QED
    BY <2>1
<1>4. /\ cpu \in [Cpus -> Seq(Keys(sample))] /\ count \in [Cpus -> Nat]
      /\ cnt \in [Cpus -> [Keys(sample) -> Nat]]
      /\ rec \in [Keys(sample) -> Nat] /\ rd \subseteq Pairs(sample)
  BY DEF Init
<1>5. Types
  BY <1>2, <1>3, <1>4 DEF Types, Init
<1>6. Steps
  <2>1. Configure
    <3>1. conf \in Confs /\ conf = NoConf /\ failed = {} /\ at = 1
      BY DEF Init, NoConf, Confs
    <3>2. sample # "bench02" => arg.n = 0 /\ arg.type = 0
      BY DEF Init
    <3> QED
      BY <3>1, <3>2 DEF Configure, NoConf
  <2>2. ended # "INT"
    BY SampleAssumption DEF Init
  <2> QED
    BY <2>1, <2>2 DEF Init, Steps, HandleAt
<1>7. TailCalls
  BY DEF Init, TailCalls, Fetched
<1> QED
  BY <1>5, <1>6, <1>7 DEF MainInv

(* What only the programs change does not concern main.                      *)
MainKept == UNCHANGED <<user, root>>

LEMMA MainKeptSteps ==
  ASSUME MainInv, MainKept
  PROVE  Steps' /\ TailCalls'
<1> USE DEF MainKept, user, MainInv
<1>1. HandleAt' = HandleAt /\ AttachAt' = AttachAt /\ Meant' = Meant
  BY DEF HandleAt, AttachAt, Meant
<1>2. Steps'
  BY <1>1 DEF Steps, Configure
<1> QED
  BY <1>2 DEF TailCalls, Fetched

(* What main changes, other than stats_poll, does not concern the counters;  *)
(* its end takes its record with it.                                         *)
CountersKept == UNCHANGED <<sample, arg, kernel>> /\ (UNCHANGED stats \/ NewRecord)

LEMMA MainTypes ==
  ASSUME Types, CountersKept,
         at' \in 1 .. Len(Life(sample)), ended' \in {None, "INT", "TERM", "KILL", "error", "done"}
  PROVE  Types'
<1>1. rec' \in [Keys(sample) -> Nat] /\ rd' \subseteq Pairs(sample)
  BY DEF Types, CountersKept, stats, NewRecord
<1> QED
  BY <1>1 DEF Types, CountersKept, kernel

(* Between two steps of main of which none sets a map.                       *)
ConfKept == UNCHANGED <<sample, arg, conf>> /\ Meant' = Meant /\ failed' \subseteq failed \cup {"detach"}

LEMMA ConfigureKept ==
  ASSUME Types, Configure, ConfKept,
         \/ at' = at
         \/ at' = at + 1 /\ Life(sample)[at] \notin {"xdp_action", "touch_memory", "xdp_pattern"}
  PROVE  Configure'
<1> USE DEF ConfKept
<1>1. CASE at' = at
  BY <1>1 DEF Configure
<1>2. CASE at' = at + 1 /\ Life(sample)[at] \notin {"xdp_action", "touch_memory", "xdp_pattern"}
  <2>1. at \in Nat
    BY DEF Types
  <2>2. sample # "bench02" => Meant.n = 0 /\ Meant.type = 0
    BY MeantIs DEF Configure
  <2>3. sample \in Configured => at # 2 /\ at # 3
    BY <1>2, LifeIs DEF Configured
  <2>4. sample = "bench02" => at # 4
    BY <1>2, LifeIs
  <2>5. sample \in Configured =>
         /\ (at + 1 > 2) = (at > 2) /\ (at + 1 > 3) = (at > 3)
         /\ sample = "bench02" => (at + 1 > 4) = (at > 4)
    BY <2>1, <2>3, <2>4
  <2>6. sample \in Configured =>
         /\ conf'.action = IF at' > 2 THEN Meant'.action ELSE "none"
         /\ conf'.touch  = IF at' > 3 THEN Meant'.touch ELSE FALSE
         /\ conf'.n      = IF at' > 4 THEN Meant'.n ELSE 0
         /\ conf'.type   = IF at' > 4 THEN Meant'.type ELSE 0
    BY <1>2, <2>1, <2>2, <2>5 DEF Configure
  <2>7. /\ "xdp_action" \in failed' => at' > 2
        /\ "touch_memory" \in failed' => at' > 3
        /\ "xdp_pattern" \in failed' => at' > 4
    <3>1. /\ "xdp_action" \in failed' => "xdp_action" \in failed
          /\ "touch_memory" \in failed' => "touch_memory" \in failed
          /\ "xdp_pattern" \in failed' => "xdp_pattern" \in failed
      OBVIOUS
    <3> QED
      BY <1>2, <2>1, <3>1 DEF Configure
  <2>8. conf' \in Confs /\ (sample' # "bench02" => arg'.n = 0 /\ arg'.type = 0)
    BY DEF Configure
  <2> QED
    BY <2>6, <2>7, <2>8, Zenon DEF Configure
<1> QED
  BY <1>1, <1>2

LEMMA LoadMain ==
  ASSUME MainInv, Load
  PROVE  MainInv' /\ ConfKept
<1> USE DEF MainInv
<1>1. StepPlaces
  BY StepsHavePlaces
<1>2. ended = None /\ at = 1 /\ Life(sample)[at] = "load"
  BY <1>1 DEF Load, Step, StepPlaces
<1>3. /\ UNCHANGED <<sample, arg, conf, handled, failed>> /\ CountersKept
      /\ \/ at' = at + 1 /\ ended' = ended
         \/ ended' = "error" /\ at' = at /\ jump' = NoEntries
  BY DEF Load, CountersKept, Exit, Continue
<1>4. at + 1 \in 1 .. Len(Life(sample))
  BY <1>1, <1>2 DEF StepPlaces
<1>5. Types'
  BY <1>2, <1>3, <1>4, MainTypes DEF Types
<1>6. HandleAt' \in 2 .. 5 /\ AttachAt' \in 3 .. 6 /\ at' \in 1 .. 2
  BY <1>2, <1>3 DEF HandleAt, AttachAt
<1>7. root' = None \/ (sample = "napi" /\ ended' = None)
  <2>0. PICK n \in 0 .. Len(Progs(sample)) :
               \E f \in Increasing(n, Len(Progs(sample))) :
                  prog_fd' = [i \in 1 .. n |-> Progs(sample)[f[i]]]
    BY DEF Load
  <2>1. PICK f \in Increasing(n, Len(Progs(sample))) :
               prog_fd' = [i \in 1 .. n |-> Progs(sample)[f[i]]]
    BY <2>0
  <2>2. CASE sample = "napi"
    <3>1. CASE prog_fd' = << >>
      <4>1. DOMAIN prog_fd' = {}
        BY <3>1
      <4> QED
        BY <4>1 DEF Load
    <3>2. CASE prog_fd' # << >>
      BY <3>2, <1>2, <2>2 DEF Load, Continue
    <3> QED
      BY <3>1, <3>2
  <2>3. CASE sample # "napi"
    <3>1. ASSUME NEW i \in 1 .. Len(Progs(sample)) PROVE Progs(sample)[i] # "napi_poll"
      <4>1. CASE sample = "tail_calls"
        <5>1. Progs(sample) = <<"xdp", "xdp_1", "xdp_5", "xdp_unrelated">>
          BY <4>1 DEF Progs
        <5>2. i = 1 \/ i = 2 \/ i = 3 \/ i = 4
          BY <5>1
        <5> QED
          BY <5>1, <5>2
      <4>2. CASE sample # "tail_calls"
        <5>1. Progs(sample) = <<"xdp">>
          BY <4>2, <2>3 DEF Progs
        <5> QED
          BY <5>1
      <4> QED
        BY <4>1, <4>2
    <3>2. \A i \in DOMAIN prog_fd' : prog_fd'[i] # "napi_poll"
      BY <2>1, <3>1 DEF Increasing
    <3> QED
      BY <3>2 DEF Load
  <2> QED
    BY <2>2, <2>3
<1>8. ConfKept
  BY <1>3 DEF ConfKept, Meant
<1>9. Steps'
  <2>1. ended' # "INT"
    BY <1>2, <1>3, SampleAssumption
  <2>2. Configure'
    BY <1>2, <1>3, <1>8, ConfigureKept DEF Steps
  <2> QED
    BY <1>2, <1>3, <1>6, <1>7, <2>1, <2>2 DEF Steps, CountersKept
<1>10. TailCalls'
  <2>1. sample = "tail_calls" => Fetched'
    <3> SUFFICES ASSUME sample = "tail_calls" PROVE Fetched'
      OBVIOUS
    <3>1. Len(Progs(sample)) = 4
      BY DEF Progs
    <3>2. PICK n \in 0 .. Len(Progs(sample)) :
                 \E f \in Increasing(n, Len(Progs(sample))) :
                    prog_fd' = [i \in 1 .. n |-> Progs(sample)[f[i]]]
      BY DEF Load
    <3>3. PICK f \in Increasing(n, Len(Progs(sample))) :
                 prog_fd' = [i \in 1 .. n |-> Progs(sample)[f[i]]]
      BY <3>2
    <3>4. n \in 0 .. 4 /\ f \in Increasing(n, 4)
      BY <3>1
    <3> QED
      BY <3>3, <3>4, AllLoaded DEF Fetched
  <2> QED
    BY <1>2, <1>3, <1>6, <1>7, <2>1 DEF TailCalls
<1> QED
  BY <1>5, <1>8, <1>9, <1>10

(* A map is set, or its update fails.                                        *)
LEMMA SetMain ==
  ASSUME MainInv, SetAction \/ SetTouch \/ SetPattern
  PROVE  MainInv'
<1> USE DEF MainInv
<1>1. StepPlaces
  BY StepsHavePlaces
<1>2. /\ ended = None /\ sample \in Configured
      /\ UNCHANGED <<sample, arg, prog_fd, handled, jump, root>> /\ CountersKept
      /\ at' = at + 1 /\ ended' = ended /\ at + 1 \in 1 .. Len(Life(sample))
      /\ at \in {2, 3, 4} /\ (at = 4 => sample = "bench02")
  BY <1>1 DEF SetAction, SetTouch, SetPattern, SetMap, Step, StepPlaces, CountersKept, Continue,
              Configured
<1>3. Types'
  BY <1>2, MainTypes DEF Types
<1>4. HandleAt' = HandleAt /\ AttachAt' = AttachAt /\ HandleAt \in 4 .. 5 /\ at < HandleAt
      /\ AttachAt \in 5 .. 6 /\ sample \notin {"napi", "tail_calls"}
  BY <1>2 DEF HandleAt, AttachAt, Configured
<1>5. /\ conf \in Confs /\ arg \in Confs
      /\ (sample # "bench02" => arg.n = 0 /\ arg.type = 0)
  BY DEF Steps, Configure, Types
<1>6. /\ Meant.action = IF "xdp_action" \in failed THEN "none" ELSE arg.action
      /\ Meant.touch = IF "touch_memory" \in failed THEN FALSE ELSE arg.touch
      /\ Meant.n = IF "xdp_pattern" \in failed THEN 0 ELSE arg.n
      /\ Meant.type = IF "xdp_pattern" \in failed THEN 0 ELSE arg.type
  BY <1>5, MeantIs
<1>7. /\ Meant'.action = IF "xdp_action" \in failed' THEN "none" ELSE arg.action
      /\ Meant'.touch = IF "touch_memory" \in failed' THEN FALSE ELSE arg.touch
      /\ Meant'.n = IF "xdp_pattern" \in failed' THEN 0 ELSE arg.n
      /\ Meant'.type = IF "xdp_pattern" \in failed' THEN 0 ELSE arg.type
  BY <1>2 DEF Meant, NoConf
<1>8. Configure'
  <2>1. CASE SetAction
    <3>1. at = 2 /\ \/ conf' = [conf EXCEPT !.action = arg.action] /\ failed' = failed
                    \/ conf' = conf /\ failed' = failed \cup {"xdp_action"}
      BY <1>1, <2>1 DEF SetAction, SetMap, Step, StepPlaces, Fails
    <3>2. /\ conf.touch = FALSE /\ conf.n = 0 /\ conf.type = 0 /\ conf.action = "none"
          /\ "xdp_action" \notin failed /\ "touch_memory" \notin failed /\ "xdp_pattern" \notin failed
      <4>1. ~(at > 2) /\ ~(at > 3) /\ ~(at > 4)
        BY <3>1
      <4> QED
        BY <1>2, <4>1, Zenon DEF Steps, Configure
    <3>3. conf' \in Confs /\ conf'.touch = FALSE /\ conf'.n = 0 /\ conf'.type = 0
      BY <1>5, <3>1, <3>2 DEF Confs
    <3>4. conf'.action = Meant'.action
      BY <1>5, <1>7, <3>1, <3>2 DEF Confs
    <3>5. "touch_memory" \notin failed' /\ "xdp_pattern" \notin failed'
      BY <3>1, <3>2
    <3>6. at' > 2 /\ ~(at' > 3) /\ ~(at' > 4)
      BY <1>2, <3>1
    <3> QED
      BY <1>2, <1>5, <3>3, <3>4, <3>5, <3>6, Zenon DEF Configure
  <2>2. CASE SetTouch
    <3>1. at = 3 /\ \/ conf' = [conf EXCEPT !.touch = arg.touch] /\ failed' = failed
                    \/ conf' = conf /\ failed' = failed \cup {"touch_memory"}
      BY <1>1, <2>2 DEF SetTouch, SetMap, Step, StepPlaces, Fails
    <3>2. /\ conf.touch = FALSE /\ conf.n = 0 /\ conf.type = 0 /\ conf.action = Meant.action
          /\ "touch_memory" \notin failed /\ "xdp_pattern" \notin failed
      <4>1. at > 2 /\ ~(at > 3) /\ ~(at > 4)
        BY <3>1
      <4> QED
        BY <1>2, <4>1, Zenon DEF Steps, Configure
    <3>3. conf' \in Confs /\ conf'.n = 0 /\ conf'.type = 0
      BY <1>5, <3>1, <3>2 DEF Confs
    <3>4. conf'.touch = Meant'.touch
      BY <1>5, <1>7, <3>1, <3>2 DEF Confs
    <3>5. "xdp_action" \in failed' <=> "xdp_action" \in failed
      BY <3>1
    <3>6. conf'.action = Meant'.action
      BY <1>5, <1>6, <1>7, <3>1, <3>2, <3>5 DEF Confs
    <3>7. "xdp_pattern" \notin failed'
      BY <3>1, <3>2
    <3>8. at' > 2 /\ at' > 3 /\ ~(at' > 4)
      BY <1>2, <3>1
    <3> QED
      BY <1>2, <1>5, <3>3, <3>4, <3>6, <3>7, <3>8, Zenon DEF Configure
  <2>3. CASE SetPattern
    <3>1. at = 4 /\ sample = "bench02"
          /\ \/ conf' = [conf EXCEPT !.n = arg.n, !.type = arg.type] /\ failed' = failed
             \/ conf' = conf /\ failed' = failed \cup {"xdp_pattern"}
      BY <1>1, <2>3 DEF SetPattern, SetMap, Step, StepPlaces, Fails
    <3>2. /\ conf.touch = Meant.touch /\ conf.n = 0 /\ conf.type = 0 /\ conf.action = Meant.action
          /\ "xdp_pattern" \notin failed
      BY <1>2, <3>1 DEF Steps, Configure
    <3>3. conf' \in Confs
      BY <1>5, <3>1 DEF Confs
    <3>4. conf'.n = Meant'.n /\ conf'.type = Meant'.type
      BY <1>5, <1>7, <3>1, <3>2 DEF Confs
    <3>5. /\ "xdp_action" \in failed' <=> "xdp_action" \in failed
          /\ "touch_memory" \in failed' <=> "touch_memory" \in failed
      BY <3>1
    <3>6. conf'.action = Meant'.action /\ conf'.touch = Meant'.touch
      BY <1>5, <1>6, <1>7, <3>1, <3>2, <3>5 DEF Confs
    <3>7. at' > 2 /\ at' > 3 /\ at' > 4
      BY <1>2, <3>1
    <3> QED
      BY <1>2, <1>5, <3>1, <3>3, <3>4, <3>6, <3>7, Zenon DEF Configure
  <2> QED
    BY <2>1, <2>2, <2>3
<1>9. Steps'
  <2>1. ended' # "INT"
    BY <1>2, SampleAssumption
  <2> QED
    BY <1>2, <1>4, <1>8, <2>1 DEF Steps
<1> QED
  BY <1>2, <1>3, <1>4, <1>9 DEF TailCalls

LEMMA HandleMain ==
  ASSUME MainInv, Handle
  PROVE  MainInv' /\ ConfKept
<1> USE DEF MainInv
<1>1. StepPlaces
  BY StepsHavePlaces
<1>2. ended = None /\ at = HandleAt /\ sample # "napi" /\ Life(sample)[at] = "handle"
  BY <1>1 DEF Handle, Step, StepPlaces
<1>3. /\ UNCHANGED <<sample, arg, prog_fd, conf, failed, jump, root>> /\ CountersKept
      /\ at' = at + 1 /\ ended' = ended /\ handled' = HandlerOf(sample)
  BY DEF Handle, CountersKept, Continue
<1>4. at + 1 \in 1 .. Len(Life(sample))
  BY <1>1, <1>2 DEF StepPlaces
<1>5. Types'
  BY <1>2, <1>3, <1>4, MainTypes DEF Types
<1>6. "INT" \in handled'
  BY <1>2, <1>3 DEF HandlerOf
<1>7. HandleAt' = HandleAt /\ AttachAt' = AttachAt /\ at \in Int /\ AttachAt \in Int
  BY <1>3, <1>2 DEF HandleAt, AttachAt
<1>8. ConfKept
  BY <1>3 DEF ConfKept, Meant
<1>9. Steps'
  <2>1. Configure'
    BY <1>2, <1>3, <1>8, ConfigureKept DEF Steps
  <2>2. ended' # "INT"
    BY <1>2, <1>3, SampleAssumption
  <2> QED
    BY <1>2, <1>3, <1>6, <1>7, <2>1, <2>2 DEF Steps
<1>10. sample = "tail_calls" => at > 2
  BY <1>2 DEF HandleAt
<1> QED
  BY <1>2, <1>3, <1>5, <1>8, <1>9, <1>10 DEF TailCalls, Fetched

LEMMA AttachMain ==
  ASSUME MainInv, Attach
  PROVE  MainInv' /\ ConfKept
<1> USE DEF MainInv
<1>1. StepPlaces
  BY StepsHavePlaces
<1>2. ended = None /\ at = AttachAt /\ sample # "napi" /\ Life(sample)[at] = "attach"
  BY <1>1 DEF Attach, Step, StepPlaces
<1>3. /\ UNCHANGED <<sample, arg, prog_fd, conf, handled, failed, jump>> /\ CountersKept
      /\ at' = at + 1 /\ ended' = ended /\ root' = prog_fd[1]
  BY DEF Attach, CountersKept, Continue
<1>4. at + 1 \in 1 .. Len(Life(sample))
  BY <1>1, <1>2 DEF StepPlaces
<1>5. Types'
  BY <1>2, <1>3, <1>4, MainTypes DEF Types
<1>7. HandleAt' = HandleAt /\ AttachAt' = AttachAt /\ at \in Int
      /\ (sample # "tail_calls" => HandleAt < AttachAt)
      /\ (sample = "tail_calls" => AttachAt < HandleAt)
      /\ AttachAt \in Int /\ HandleAt \in Int
  BY <1>3, <1>2 DEF HandleAt, AttachAt
<1>8. ConfKept
  BY <1>3 DEF ConfKept, Meant
<1>9. Steps'
  <2>1. ended' # "INT"
    BY <1>2, <1>3, SampleAssumption
  <2>2. Configure'
    BY <1>2, <1>3, <1>8, ConfigureKept DEF Steps
  <2> QED
    BY <1>2, <1>3, <1>7, <2>1, <2>2 DEF Steps
<1>10. sample = "tail_calls" => at > 2
  BY <1>2 DEF AttachAt
<1> QED
  BY <1>2, <1>3, <1>5, <1>8, <1>9, <1>10 DEF TailCalls, Fetched

(* The entries that jmp_table_add_prog leaves or overwrites.                 *)
LEMMA JumpMain ==
  ASSUME MainInv, Jump12 \/ Jump3 \/ TakeOver
  PROVE  MainInv' /\ ConfKept
<1> USE DEF MainInv
<1> DEFINE e12 == [e \in {<<1, 1>>, <<1, 5>>, <<2, 40>>} |->
                     CASE e = <<1, 1>> -> 2 [] e = <<1, 5>> -> 3 [] e = <<2, 40>> -> 4]
           e3 == [e \in {<<3, 30>>} |-> 4]
           eT == [e \in {<<1, 5>>} |-> 4]
<1>1. StepPlaces
  BY StepsHavePlaces
<1>2. /\ ended = None /\ sample = "tail_calls"
      /\ UNCHANGED <<sample, arg, prog_fd, conf, handled, failed, root>> /\ CountersKept
      /\ \/ at = 2 /\ AddProgs(e12) /\ Life(sample)[at] = "jump12"
         \/ at \in {5, 6} /\ AddProgs(e3) /\ Life(sample)[at] = "jump3"
         \/ at \in {5, 6} /\ AddProgs(eT) /\ Life(sample)[at] = "takeover"
  BY <1>1 DEF Jump12, Jump3, TakeOver, Step, StepPlaces, TailCallsUnchanged, CountersKept,
              AddProgs, Exit, Continue
<1>3. at + 1 \in 1 .. Len(Life(sample)) /\ at \in 1 .. Len(Life(sample))
  BY <1>1, <1>2 DEF StepPlaces, Types
<1>4. (at' = at + 1 /\ ended' = ended) \/ (ended' = "error" /\ at' = at /\ jump' = NoEntries)
  BY <1>2 DEF AddProgs, Exit, Continue
<1>5. Types'
  BY <1>2, <1>3, <1>4, MainTypes DEF Types
<1>6. HandleAt = 4 /\ AttachAt = 3 /\ HandleAt' = 4 /\ AttachAt' = 3
  BY <1>2 DEF HandleAt, AttachAt
<1>11. ConfKept
  BY <1>2 DEF ConfKept, Meant
<1>7. Steps'
  <2>1. (at' \in {2, 3} /\ at = 2) \/ (at' \in {5, 6, 7} /\ at \in {5, 6})
    BY <1>2, <1>4
  <2>2. Configure'
    BY <1>2, <1>4, <1>11, ConfigureKept DEF Steps
  <2> QED
    BY <1>2, <1>4, <1>6, <2>1, <2>2 DEF Steps
<1>8. ASSUME at' = at PROVE TailCalls'
  <2>1. ended' # None /\ jump' = NoEntries
    BY <1>2, <1>4, <1>8, SampleAssumption
  <2> QED
    BY <1>2, <1>8, <2>1 DEF TailCalls, Fetched
<1>9. ASSUME at' = at + 1 PROVE TailCalls'
  <2>1. at \in Int /\ at' # at
    BY <1>2, <1>9
  <2>0. ended' = None
    BY <1>2, <1>4, <2>1
  <2> SUFFICES ASSUME at' > 2
               PROVE  /\ prog_fd' = <<"xdp", "xdp_1", "xdp_5", "xdp_unrelated">>
                      /\ {<<1, 1>>, <<1, 5>>, <<2, 40>>} \subseteq DOMAIN jump'
                      /\ jump'[<<1, 1>>] = "xdp_1" /\ jump'[<<2, 40>>] = "xdp_unrelated"
                      /\ jump'[<<1, 5>>] \in {"xdp_5", "xdp_unrelated"}
    BY <1>2, <2>0 DEF TailCalls, Fetched
  <2>2. CASE at = 2 /\ AddProgs(e12)
    <3>1. /\ \A e \in DOMAIN e12 : ~(e12[e] > Len(prog_fd))
          /\ jump' = [e \in DOMAIN jump \cup DOMAIN e12 |->
                        IF e \in DOMAIN e12 THEN prog_fd[e12[e]] ELSE jump[e]]
      BY <2>1, <2>2 DEF AddProgs, Exit
    <3>2. <<1, 1>> # <<1, 5>> /\ <<1, 1>> # <<2, 40>> /\ <<1, 5>> # <<2, 40>>
      OBVIOUS
    <3>3. DOMAIN e12 = {<<1, 1>>, <<1, 5>>, <<2, 40>>}
          /\ e12[<<1, 1>>] = 2 /\ e12[<<1, 5>>] = 3 /\ e12[<<2, 40>>] = 4
      BY <3>2
    <3> HIDE DEF e12
    <3>4. prog_fd = <<"xdp", "xdp_1", "xdp_5", "xdp_unrelated">>
      <4>1. ~(4 > Len(prog_fd))
        BY <3>1, <3>3
      <4> QED
        BY <4>1, <1>2, <2>2 DEF TailCalls, Fetched
    <3> QED
      BY <1>2, <3>1, <3>3, <3>4
  <2>3. CASE at > 2 /\ (AddProgs(e3) \/ AddProgs(eT))
    <3>1. /\ prog_fd = <<"xdp", "xdp_1", "xdp_5", "xdp_unrelated">>
          /\ {<<1, 1>>, <<1, 5>>, <<2, 40>>} \subseteq DOMAIN jump
          /\ jump[<<1, 1>>] = "xdp_1" /\ jump[<<2, 40>>] = "xdp_unrelated"
          /\ jump[<<1, 5>>] \in {"xdp_5", "xdp_unrelated"}
      BY <1>2, <2>3 DEF TailCalls, Fetched
    <3>2. <<1, 1>> # <<1, 5>> /\ <<1, 1>> # <<2, 40>> /\ <<1, 5>> # <<2, 40>>
          /\ <<3, 30>> \notin {<<1, 1>>, <<1, 5>>, <<2, 40>>}
      OBVIOUS
    <3>3. DOMAIN e3 = {<<3, 30>>} /\ DOMAIN eT = {<<1, 5>>} /\ eT[<<1, 5>>] = 4
      OBVIOUS
    <3> HIDE DEF e3, eT
    <3>4. CASE AddProgs(e3)
      <4>1. jump' = [e \in DOMAIN jump \cup DOMAIN e3 |->
                       IF e \in DOMAIN e3 THEN prog_fd[e3[e]] ELSE jump[e]]
        BY <2>1, <3>4 DEF AddProgs, Exit
      <4> QED
        BY <1>2, <3>1, <3>2, <3>3, <4>1
    <3>5. CASE AddProgs(eT)
      <4>1. jump' = [e \in DOMAIN jump \cup DOMAIN eT |->
                       IF e \in DOMAIN eT THEN prog_fd[eT[e]] ELSE jump[e]]
        BY <2>1, <3>5 DEF AddProgs, Exit
      <4> QED
        BY <1>2, <3>1, <3>2, <3>3, <4>1
    <3> QED
      BY <2>3, <3>4, <3>5
  <2> QED
    BY <1>2, <2>2, <2>3
<1>10. TailCalls'
  BY <1>2, <1>4, <1>8, <1>9
<1> QED
  BY <1>5, <1>7, <1>10, <1>11

LEMMA EndMain ==
  ASSUME MainInv, ExitMain \/ ToolFails \/ (\E s \in {"INT", "TERM", "KILL"} : Signal(s))
  PROVE  MainInv' /\ ConfKept
<1> USE DEF MainInv
<1>1. StepPlaces
  BY StepsHavePlaces
<1>2. /\ ended = None /\ at' = at /\ ended' \in {"INT", "TERM", "KILL", "error", "done"}
      /\ UNCHANGED <<sample, arg, prog_fd, conf, handled>> /\ CountersKept
      /\ jump' = NoEntries /\ failed' \in {failed, failed \cup {"detach"}}
      /\ root' \in {root, None} /\ (sample = "napi" => root' = None)
      /\ "INT" \in handled /\ ended' = "INT" /\ "detach" \notin failed' => root' = None
  <2>1. CASE ExitMain
    BY <1>1, <2>1 DEF ExitMain, IntExit, Fails, Exit, Step, StepPlaces, CountersKept
  <2>2. CASE ToolFails
    BY <2>2 DEF ToolFails, Die, Exit, CountersKept
  <2>3. CASE \E s \in {"INT", "TERM", "KILL"} : Signal(s)
    <3>1. PICK s \in {"INT", "TERM", "KILL"} : Signal(s)
      BY <2>3
    <3>2. CASE s \in handled
      BY <3>1, <3>2 DEF Signal, IntExit, Fails, Exit, CountersKept, Steps
    <3>3. CASE s \notin handled
      BY <3>1, <3>3 DEF Signal, Die, Exit, CountersKept
    <3> QED
      BY <3>2, <3>3
  <2> QED
    BY <2>1, <2>2, <2>3
<1>3. Types'
  BY <1>2, MainTypes DEF Types
<1>4. HandleAt' = HandleAt /\ AttachAt' = AttachAt /\ at \in Int
      /\ HandleAt \in Int /\ AttachAt \in Int
      /\ (sample # "tail_calls" => HandleAt < AttachAt)
  BY <1>2 DEF HandleAt, AttachAt, Types
<1>5. ConfKept
  <2>1. Meant' = Meant
    BY <1>2 DEF Meant
  <2> QED
    BY <1>2, <2>1 DEF ConfKept
<1>6. Steps'
  <2>1. sample # "tail_calls" /\ ended' = "INT" /\ "detach" \notin failed' => root' = None
    <3>1. CASE sample = "napi" \/ root = None
      BY <1>2, <3>1
    <3>2. CASE sample # "napi" /\ root # None
      BY <1>2, <1>4, <3>2 DEF Steps
    <3> QED
      BY <3>1, <3>2
  <2>2. Configure'
    BY <1>2, <1>5, ConfigureKept DEF Steps
  <2> QED
    BY <1>2, <1>4, <2>1, <2>2 DEF Steps
<1>7. TailCalls'
  <2>1. ended' # None
    BY <1>2, SampleAssumption
  <2> QED
    BY <1>2, <2>1 DEF TailCalls, Fetched
<1> QED
  BY <1>3, <1>5, <1>6, <1>7

-----------------------------------------------------------------------------
(* The counters *)

LEMMA RxHashKeys ==
  /\ Len(Counters("rxhash")) = 7
  /\ Counters("rxhash")[1] = "aborted" /\ Counters("rxhash")[2] = "drop"
  /\ Counters("rxhash")[3] = "pass" /\ Counters("rxhash")[4] = "tx"
  /\ Counters("rxhash")[5] = "rx" /\ Counters("rxhash")[6] = "L3"
  /\ Counters("rxhash")[7] = "L4"
<1>1. Counters("rxhash") = Verdicts \o <<"rx", "L3", "L4">>
  BY DEF Counters, RxHashCounters
<1> QED
  BY <1>1 DEF Verdicts

LEMMA Bench02Keys ==
  /\ Len(Counters("bench02")) = 5
  /\ Counters("bench02")[1] = "aborted" /\ Counters("bench02")[2] = "drop"
  /\ Counters("bench02")[3] = "pass" /\ Counters("bench02")[4] = "tx"
  /\ Counters("bench02")[5] = "rx"
<1>1. Counters("bench02") = Verdicts \o <<"rx">>
  BY DEF Counters, Bench02Counters
<1> QED
  BY <1>1 DEF Verdicts

LEMMA KeysIn ==
  ASSUME NEW s, NEW i \in 1 .. Len(Counters(s))
  PROVE  Counters(s)[i] \in Keys(s)
BY DEF Keys

LEMMA KeysAre ==
  /\ VerdictSet \cup {"rx", "L3", "L4"} \subseteq Keys("rxhash")
  /\ VerdictSet \cup {"rx"} \subseteq Keys("bench02")
  /\ "rx" \in Keys("bench01") /\ "ttl" \in Keys("ttl")
  /\ {"hist", "cnt", "bulk0", "pkts"} \subseteq Keys("napi")
<1>1. VerdictSet \cup {"rx", "L3", "L4"} \subseteq Keys("rxhash")
  <2>1. \A i \in {1, 2, 3, 4, 5, 6, 7} : Counters("rxhash")[i] \in Keys("rxhash")
    BY RxHashKeys, KeysIn
  <2> QED
    BY <2>1, RxHashKeys DEF VerdictSet
<1>2. VerdictSet \cup {"rx"} \subseteq Keys("bench02")
  <2>1. \A i \in {1, 2, 3, 4, 5} : Counters("bench02")[i] \in Keys("bench02")
    BY Bench02Keys, KeysIn
  <2> QED
    BY <2>1, Bench02Keys DEF VerdictSet
<1>3. "rx" \in Keys("bench01") /\ "ttl" \in Keys("ttl")
  <2>1. Counters("bench01") = <<"rx">> /\ Counters("ttl") = <<"ttl">>
    BY DEF Counters, Bench01Counters, TtlCounters
  <2>2. 1 \in 1 .. Len(Counters("bench01")) /\ 1 \in 1 .. Len(Counters("ttl"))
    BY <2>1
  <2>3. Counters("bench01")[1] = "rx" /\ Counters("ttl")[1] = "ttl"
    BY <2>1
  <2> QED
    BY <2>2, <2>3 DEF Keys
<1>4. {"hist", "cnt", "bulk0", "pkts"} \subseteq Keys("napi")
  <2>1. Counters("napi") = <<"hist", "cnt", "bulk0", "pkts">>
    BY DEF Counters, NapiCounters
  <2>2. \A i \in {1, 2, 3, 4} : Counters("napi")[i] \in Keys("napi")
    BY <2>1, KeysIn
  <2> QED
    BY <2>1, <2>2
<1> QED
  BY <1>1, <1>2, <1>3, <1>4

(* Different places have different counters.                                 *)
LEMMA KeysApart ==
  ASSUME sample \in Counting,
         NEW i \in 1 .. Len(Counters(sample)), NEW j \in 1 .. Len(Counters(sample)),
         Counters(sample)[i] = Counters(sample)[j]
  PROVE  i = j
<1>1. CASE sample = "rxhash"
  <2>1. i \in {1, 2, 3, 4, 5, 6, 7} /\ j \in {1, 2, 3, 4, 5, 6, 7}
    BY <1>1, RxHashKeys
  <2> QED
    BY <1>1, <2>1, RxHashKeys
<1>2. CASE sample = "bench02"
  <2>1. i \in {1, 2, 3, 4, 5} /\ j \in {1, 2, 3, 4, 5}
    BY <1>2, Bench02Keys
  <2> QED
    BY <1>2, <2>1, Bench02Keys
<1> QED
  BY <1>1, <1>2 DEF Counting

(* What a counting sample's counters are called.                             *)
LEMMA CountingKeys ==
  ASSUME sample \in Counting
  PROVE  /\ VerdictSet \cup {"rx"} \subseteq Keys(sample)
         /\ sample = "rxhash" => {"L3", "L4"} \subseteq Keys(sample)
         /\ Counters(sample)[1] = "aborted" /\ Counters(sample)[2] = "drop"
         /\ Counters(sample)[3] = "pass" /\ Counters(sample)[4] = "tx"
         /\ Counters(sample)[5] = "rx"
         /\ Len(Counters(sample)) \in {5, 7}
         /\ sample = "rxhash" => /\ Len(Counters(sample)) = 7
                                 /\ Counters(sample)[6] = "L3" /\ Counters(sample)[7] = "L4"
BY KeysAre, RxHashKeys, Bench02Keys DEF Counting

-----------------------------------------------------------------------------
(* What the programs count *)

LEMMA MeantTyped == ASSUME MainInv PROVE Meant \in Confs
BY MeantIs DEF MainInv, Steps, Configure

(* A packet that meets one of the configured programs meets what is meant.   *)
LEMMA ConfiguredBefore ==
  ASSUME MainInv, sample \in Configured, root # None
  PROVE  conf = Meant
<1>1. at > AttachAt /\ AttachAt \in {5, 6} /\ at \in Int
  BY DEF MainInv, Steps, Types, AttachAt, Configured
<1>2. at > 2 /\ at > 3 /\ at > 4
  BY <1>1
<1>3. /\ conf.action = Meant.action /\ conf.touch = Meant.touch
      /\ conf.n = Meant.n /\ conf.type = Meant.type
  BY <1>2 DEF MainInv, Steps, Configure
<1>4. conf \in Confs /\ Meant \in Confs
  BY MeantTyped DEF MainInv, Steps, Configure
<1> QED
  BY <1>3, <1>4 DEF Confs

LEMMA RxHashIs ==
  ASSUME MainInv, sample = "rxhash", root # None, NEW in
  PROVE  \E v \in Wanted : RxHash(in) \in {<< >>, <<"L3", "L4">>, <<"L3", "L4", "rx", v>>}
<1>1. conf = Meant
  BY ConfiguredBefore DEF Configured
<1>2. PICK v : v = Overridden(IF in = "udp" THEN "aborted" ELSE "pass")
  OBVIOUS
<1>3. v \in Wanted
  BY <1>1, <1>2 DEF Overridden, Wanted
<1>4. RxHash(in) \in {<< >>, <<"L3", "L4">>, <<"L3", "L4", "rx", v>>}
  BY <1>2 DEF RxHash
<1> QED
  BY <1>3, <1>4

LEMMA WantedVerdicts == ASSUME MainInv PROVE Wanted \subseteq VerdictSet
<1>1. Meant.action \in {"none", "drop", "pass", "tx"}
  BY MeantTyped DEF Confs
<1> QED
  BY <1>1 DEF Wanted, VerdictSet

(* The values that the counter of N_drop_N_accept takes.                     *)
Verdict02(c) == Overridden(IF conf.type = 1 THEN Pattern(count[c]) ELSE "drop")

LEMMA Bench02Is ==
  ASSUME MainInv, ProgramInv, sample = "bench02", root # None, NEW c \in Cpus, NEW in
  PROVE  /\ Bench02(c, in) = IF Bench02Skips(in) THEN << >> ELSE <<"rx", Verdict02(c)>>
         /\ Verdict02(c) \in Wanted
<1>1. conf = Meant
  BY ConfiguredBefore DEF Configured
<1>2. Meant.n \in Nat /\ count[c] \in Nat
  BY MeantTyped DEF MainInv, Types, Confs
<1>3. Verdict02(c) \in Wanted
  <2>1. CASE Meant.action # "none"
    BY <1>1, <2>1 DEF Verdict02, Overridden, Wanted
  <2>2. CASE Meant.action = "none" /\ Meant.type # 1
    BY <1>1, <2>2 DEF Verdict02, Overridden, Wanted
  <2>3. CASE Meant.action = "none" /\ Meant.type = 1
    <3>1. count[c] = IF Meant.n = 0 THEN 0 ELSE (cnt[c]["rx"] + Coming(cpu[c])) % (2 * Meant.n)
      BY <2>3 DEF ProgramInv, Pattern02, Counting
    <3>2. cnt[c]["rx"] \in Nat /\ Coming(cpu[c]) \in Nat
      BY CountingKeys DEF MainInv, Types, Counting, Coming
    <3>3. Meant.n # 0 => count[c] < 2 * Meant.n
      BY <1>2, <3>1, <3>2
    <3>4. Pattern(count[c]) \in {"drop", "pass"}
      BY <1>1, <1>2, <3>3 DEF Pattern
    <3> QED
      BY <1>1, <2>3, <3>4 DEF Verdict02, Overridden, Wanted
  <2> QED
    BY <2>1, <2>2, <2>3
<1> QED
  BY <1>3 DEF Bench02, Verdict02

LEMMA RunsTyped ==
  ASSUME MainInv, ProgramInv, root # None, NEW c \in Cpus, NEW in \in Inputs(sample)
  PROVE  ProgramRuns(c, in) \in Seq(Keys(sample))
<1> DEFINE K == Keys(sample)
<1> USE DEF MainInv
<1>1. CASE sample = "rxhash"
  <2>1. PICK v \in Wanted : RxHash(in) \in {<< >>, <<"L3", "L4">>, <<"L3", "L4", "rx", v>>}
    BY <1>1, RxHashIs
  <2>2. {"L3", "L4", "rx", v} \subseteq K
    BY <1>1, CountingKeys, WantedVerdicts DEF Counting
  <2> HIDE DEF K
  <2>3. << >> \in Seq(K) /\ <<"L3", "L4">> \in Seq(K) /\ <<"L3", "L4", "rx", v>> \in Seq(K)
    BY <2>2
  <2>4. RxHash(in) \in Seq(K)
    BY <2>1, <2>3
  <2> QED
    BY <1>1, <2>4 DEF ProgramRuns, K
<1>2. CASE sample = "bench02"
  <2>1. {"rx", Verdict02(c)} \subseteq K
    BY <1>2, CountingKeys, WantedVerdicts, Bench02Is DEF Counting
  <2> HIDE DEF K
  <2>2. << >> \in Seq(K) /\ <<"rx", Verdict02(c)>> \in Seq(K)
    BY <2>1
  <2>3. Bench02(c, in) \in Seq(K)
    BY <1>2, <2>2, Bench02Is
  <2> QED
    BY <1>2, <2>3 DEF ProgramRuns, K
<1>3. CASE sample = "bench01"
  <2>1. "rx" \in K
    BY <1>3, KeysAre
  <2> HIDE DEF K
  <2>2. << >> \in Seq(K) /\ <<"rx">> \in Seq(K)
    BY <2>1
  <2>3. Bench01(in) \in {<< >>, <<"rx">>}
    BY DEF Bench01
  <2> QED
    BY <1>3, <2>2, <2>3 DEF ProgramRuns, K
<1>4. CASE sample = "ttl"
  <2>1. "ttl" \in K
    BY <1>4, KeysAre
  <2> HIDE DEF K
  <2>2. << >> \in Seq(K) /\ <<"ttl">> \in Seq(K)
    BY <2>1
  <2>3. Ttl(in) \in {<< >>, <<"ttl">>}
    BY DEF Ttl
  <2> QED
    BY <1>4, <2>2, <2>3 DEF ProgramRuns, K
<1>5. CASE sample = "napi"
  <2>1. {"hist", "cnt", "bulk0", "pkts"} \subseteq K
    BY <1>5, KeysAre
  <2> HIDE DEF K
  <2>2. /\ <<"hist", "cnt", "bulk0">> \in Seq(K) /\ <<"hist", "cnt", "pkts">> \in Seq(K)
        /\ <<"cnt", "pkts">> \in Seq(K)
    BY <2>1
  <2>3. NapiPoll(in) \in
          {<<"hist", "cnt", "bulk0">>, <<"hist", "cnt", "pkts">>, <<"cnt", "pkts">>}
    BY <1>5 DEF NapiPoll, Inputs
  <2> QED
    BY <1>5, <2>2, <2>3 DEF ProgramRuns, K
<1>6. CASE sample = "tail_calls"
  BY <1>6 DEF ProgramRuns
<1> QED
  BY <1>1, <1>2, <1>3, <1>4, <1>5, <1>6, KnownSample DEF Tools

-----------------------------------------------------------------------------
(* N drops, N accepts *)

LEMMA DivMod ==
  ASSUME NEW m \in Nat \ {0}, NEW k \in Nat
  PROVE  /\ k \div m \in Nat /\ k % m \in 0 .. (m - 1)
         /\ k = m * (k \div m) + (k % m)
OBVIOUS

LEMMA DivModIs ==
  ASSUME NEW m \in Nat \ {0}, NEW q \in Nat, NEW r \in 0 .. (m - 1)
  PROVE  (m * q + r) \div m = q /\ (m * q + r) % m = r
OBVIOUS

(* One more: the remainder goes up, or returns to 0.                         *)
LEMMA DivModNext ==
  ASSUME NEW m \in Nat \ {0}, NEW k \in Nat
  PROVE  IF k % m = m - 1 THEN (k + 1) % m = 0 /\ (k + 1) \div m = k \div m + 1
         ELSE (k + 1) % m = (k % m) + 1 /\ (k + 1) \div m = k \div m
<1> DEFINE q == k \div m
           r == k % m
<1>1. q \in Nat /\ r \in 0 .. (m - 1) /\ k = m * q + r
  BY DivMod
<1> HIDE DEF q, r
<1>2. CASE r = m - 1
  <2>1. k + 1 = m * (q + 1) + 0
    BY <1>1, <1>2
  <2>2. (m * (q + 1) + 0) \div m = q + 1 /\ (m * (q + 1) + 0) % m = 0
    BY <1>1, DivModIs
  <2> QED
    BY <1>2, <2>1, <2>2 DEF q, r
<1>3. CASE r # m - 1
  <2>1. k + 1 = m * q + (r + 1) /\ r + 1 \in 0 .. (m - 1)
    BY <1>1, <1>3
  <2>2. (m * q + (r + 1)) \div m = q /\ (m * q + (r + 1)) % m = r + 1
    BY <1>1, <2>1, DivModIs
  <2> QED
    BY <1>3, <2>1, <2>2 DEF q, r
<1> QED
  BY <1>2, <1>3

LEMMA PatternDropsType ==
  ASSUME NEW n \in Nat, NEW k \in Nat
  PROVE  PatternDrops(k, n) \in Nat
<1>1. CASE n = 0
  BY <1>1 DEF PatternDrops
<1>2. CASE n # 0
  <2>1. 2 * n \in Nat \ {0}
    BY <1>2
  <2>2. k \div (2 * n) \in Nat /\ k % (2 * n) \in Nat
    BY <2>1, DivMod
  <2>3. (k \div (2 * n)) * n \in Nat
    BY <2>2
  <2> QED
    BY <1>2, <2>2, <2>3 DEF PatternDrops
<1> QED
  BY <1>1, <1>2

LEMMA PatternDropsNext ==
  ASSUME NEW n \in Nat, NEW k \in Nat
  PROVE  PatternDrops(k + 1, n) =
           PatternDrops(k, n) + IF n # 0 /\ k % (2 * n) < n THEN 1 ELSE 0
<1>1. CASE n = 0
  BY <1>1 DEF PatternDrops
<1>2. CASE n # 0
  <2> DEFINE q == k \div (2 * n)
             r == k % (2 * n)
             q1 == (k + 1) \div (2 * n)
             r1 == (k + 1) % (2 * n)
  <2>1. 2 * n \in Nat \ {0} /\ k + 1 \in Nat
    BY <1>2
  <2>2. q \in Nat /\ r \in 0 .. (2 * n - 1)
    BY <2>1, DivMod
  <2>3. IF r = 2 * n - 1 THEN r1 = 0 /\ q1 = q + 1 ELSE r1 = r + 1 /\ q1 = q
    BY <2>1, DivModNext
  <2>4. /\ PatternDrops(k, n) = q * n + (IF r < n THEN r ELSE n)
        /\ PatternDrops(k + 1, n) = q1 * n + (IF r1 < n THEN r1 ELSE n)
    BY <1>2 DEF PatternDrops
  <2> HIDE DEF q, r, q1, r1
  <2>5. (q + 1) * n = q * n + n /\ q * n \in Nat
    BY <2>2
  <2>6. CASE r = 2 * n - 1
    <3>1. PatternDrops(k + 1, n) = q * n + n /\ PatternDrops(k, n) = q * n + n /\ ~(r < n)
      BY <1>2, <2>2, <2>3, <2>4, <2>5, <2>6
    <3> QED
      BY <2>5, <3>1 DEF r
  <2>7. CASE r # 2 * n - 1
    <3>1. PatternDrops(k + 1, n) = q * n + (IF r + 1 < n THEN r + 1 ELSE n)
      BY <2>3, <2>4, <2>7
    <3>2. PatternDrops(k + 1, n) = PatternDrops(k, n) + (IF r < n THEN 1 ELSE 0)
      BY <2>2, <2>4, <2>5, <3>1
    <3> QED
      BY <1>2, <3>2 DEF r
  <2> QED
    BY <2>6, <2>7
<1> QED
  BY <1>1, <1>2

-----------------------------------------------------------------------------
(* The programs *)

LEMMA UntouchedPrograms == Types /\ Steps /\ (sample \in Counting => Untouched) => ProgramInv
<1> SUFFICES ASSUME Types, Steps, sample \in Counting, Untouched, NEW c \in Cpus
             PROVE  Within(c) /\ Balance(c) /\ Hashes(c) /\ Pattern02(c)
  BY DEF ProgramInv
<1>1. cpu[c] = << >> /\ count[c] = 0
  BY DEF Untouched
<1>2. \A k \in Keys(sample) : cnt[c][k] = 0
  BY DEF Untouched
<1>3. Due(cpu[c]) = 0 /\ Coming(cpu[c]) = 0 /\ Hashed(cpu[c]) = 0 /\ Drops(cpu[c]) = 0
  BY <1>1 DEF Due, Coming, Hashed, Drops
<1>4. Within(c)
  BY <1>1 DEF Within, Rests, Wanted
<1>5. Balance(c)
  BY <1>2, <1>3, CountingKeys DEF Balance, VerdictSet
<1>6. Hashes(c)
  BY <1>2, <1>3, CountingKeys DEF Hashes
<1>7. Pattern02(c)
  <2>1. cnt[c]["rx"] = 0 /\ (sample = "bench02" => cnt[c]["drop"] = 0)
    BY <1>2, CountingKeys DEF VerdictSet
  <2>2. PICK n \in Nat : n = Meant.n
    BY MeantIs DEF Steps, Configure, Confs
  <2>3. n # 0 => 2 * n \in Nat \ {0} /\ 0 = (2 * n) * 0 + 0 /\ 0 \in 0 .. (2 * n - 1)
    BY <2>2
  <2>4. n # 0 => 0 % (2 * n) = 0 /\ 0 \div (2 * n) = 0
    BY <2>3, DivModIs
  <2>5. PatternDrops(0, n) = 0
    BY <2>4 DEF PatternDrops
  <2> QED
    <3> SUFFICES ASSUME sample = "bench02", Meant.action = "none", Meant.type = 1
                 PROVE  Pattern02(c)
      BY DEF Pattern02
    <3>1. cnt[c]["rx"] + Coming(cpu[c]) = 0 /\ cnt[c]["drop"] + Drops(cpu[c]) = 0
      BY <1>3, <2>1
    <3>2. count[c] = IF n = 0 THEN 0 ELSE 0 % (2 * n)
      BY <1>1, <2>4
    <3> QED
      BY <2>2, <2>5, <3>1, <3>2 DEF Pattern02
<1> QED
  BY <1>4, <1>5, <1>6, <1>7

LEMMA InitPrograms == Init => ProgramInv /\ Quiet
<1> SUFFICES ASSUME Init PROVE ProgramInv /\ Quiet
  OBVIOUS
<1>1. Untouched
  BY DEF Init, Untouched
<1> QED
  BY <1>1, InitMain, UntouchedPrograms DEF Quiet, MainInv

(* What main does is of no concern to the programs that have started.        *)
LEMMA ProgramsKept ==
  ASSUME ProgramInv, UNCHANGED <<sample, kernel>>, Meant' = Meant
  PROVE  ProgramInv'
BY DEF ProgramInv, kernel, Within, Balance, Hashes, Pattern02, Due, Coming, Hashed, Drops,
       Wanted, Rests

LEMMA QuietKept ==
  ASSUME Types, Quiet, UNCHANGED <<sample, kernel>>, at' \in {at, at + 1}
  PROVE  Quiet'
<1>1. AttachAt' = AttachAt /\ AttachAt \in Int /\ at \in Int
  BY DEF AttachAt, Types
<1>2. at' <= AttachAt => at <= AttachAt
  BY <1>1
<1> QED
  BY <1>1, <1>2 DEF Quiet, Untouched, kernel

(* The maps are set while all is quiet.                                      *)
LEMMA SetPrograms ==
  ASSUME MainInv, Quiet, SetAction \/ SetTouch \/ SetPattern
  PROVE  ProgramInv' /\ Quiet'
<1>1. StepPlaces /\ MainInv'
  BY StepsHavePlaces, SetMain DEF MainInv
<1>2. /\ UNCHANGED <<sample, kernel>> /\ at' = at + 1
      /\ at \in {2, 3, 4} /\ (at = 4 => sample = "bench02") /\ sample \in Configured
  BY <1>1 DEF SetAction, SetTouch, SetPattern, SetMap, Step, StepPlaces, Continue, Configured
<1>3. at <= AttachAt
  BY <1>2 DEF AttachAt, Configured
<1>4. Quiet'
  BY <1>2, QuietKept DEF MainInv
<1>5. sample \in Counting => Untouched'
  BY <1>2, <1>3 DEF Quiet, Untouched, kernel
<1>6. (Types /\ Steps /\ (sample \in Counting => Untouched))'
  BY <1>1, <1>2, <1>5 DEF MainInv
<1>7. ProgramInv'
  BY <1>6, UntouchedPrograms, PTL
<1> QED
  BY <1>4, <1>7

(* Nor is what happens on another CPU.                                       *)
LEMMA OtherCpus ==
  ASSUME ProgramInv, sample \in Counting, UNCHANGED sample, Meant' = Meant,
         NEW c \in Cpus, NEW d \in Cpus,
         cpu'[d] = cpu[d], count'[d] = count[d], cnt'[d] = cnt[d]
  PROVE  (Within(d) /\ Balance(d) /\ Hashes(d) /\ Pattern02(d))'
<1>1. Within(d) /\ Balance(d) /\ Hashes(d) /\ Pattern02(d)
  BY DEF ProgramInv
<1>2. Within(d)'
  BY <1>1 DEF Within, Wanted, Rests
<1>3. Balance(d)' /\ Hashes(d)'
  BY <1>1 DEF Balance, Hashes, Due, Coming, Hashed, Wanted
<1>4. Pattern02(d)'
  BY <1>1 DEF Pattern02, Coming, Drops
<1> QED
  BY <1>2, <1>3, <1>4

LEMMA Marks ==
  ASSUME NEW v \in VerdictSet
  PROVE  /\ Due(<< >>) = 0 /\ Coming(<< >>) = 0 /\ Hashed(<< >>) = 0 /\ Drops(<< >>) = 0
         /\ Due(<<v>>) = 1 /\ Coming(<<v>>) = 0 /\ Hashed(<<v>>) = 0
         /\ Drops(<<v>>) = IF v = "drop" THEN 1 ELSE 0
         /\ Due(<<"rx", v>>) = 0 /\ Coming(<<"rx", v>>) = 1 /\ Hashed(<<"rx", v>>) = 0
         /\ Drops(<<"rx", v>>) = IF v = "drop" THEN 1 ELSE 0
         /\ Due(<<"L4", "rx", v>>) = 0 /\ Coming(<<"L4", "rx", v>>) = 0
         /\ Hashed(<<"L4", "rx", v>>) = 1
         /\ Due(<<"L3", "L4", "rx", v>>) = 0 /\ Coming(<<"L3", "L4", "rx", v>>) = 0
         /\ Hashed(<<"L3", "L4", "rx", v>>) = 0
         /\ Due(<<"L4">>) = 0 /\ Coming(<<"L4">>) = 0 /\ Hashed(<<"L4">>) = 0
         /\ Due(<<"L3", "L4">>) = 0 /\ Coming(<<"L3", "L4">>) = 0 /\ Hashed(<<"L3", "L4">>) = 0
<1>1. /\ Due(<< >>) = 0 /\ Due(<<v>>) = 1 /\ Due(<<"rx", v>>) = 0 /\ Due(<<"L4", "rx", v>>) = 0
      /\ Due(<<"L3", "L4", "rx", v>>) = 0 /\ Due(<<"L4">>) = 0 /\ Due(<<"L3", "L4">>) = 0
  BY DEF Due, VerdictSet
<1>2. /\ Coming(<< >>) = 0 /\ Coming(<<v>>) = 0 /\ Coming(<<"rx", v>>) = 1
      /\ Coming(<<"L4", "rx", v>>) = 0 /\ Coming(<<"L3", "L4", "rx", v>>) = 0
      /\ Coming(<<"L4">>) = 0 /\ Coming(<<"L3", "L4">>) = 0
  BY DEF Coming
<1>3. /\ Hashed(<< >>) = 0 /\ Hashed(<<v>>) = 0 /\ Hashed(<<"rx", v>>) = 0
      /\ Hashed(<<"L4", "rx", v>>) = 1 /\ Hashed(<<"L3", "L4", "rx", v>>) = 0
      /\ Hashed(<<"L4">>) = 0 /\ Hashed(<<"L3", "L4">>) = 0
  BY DEF Hashed
<1>4. /\ Drops(<< >>) = 0 /\ Drops(<<v>>) = IF v = "drop" THEN 1 ELSE 0
      /\ Drops(<<"rx", v>>) = IF v = "drop" THEN 1 ELSE 0
  BY DEF Drops
<1> QED
  BY <1>1, <1>2, <1>3, <1>4

LEMMA PacketHash ==
  ASSUME MainInv, ProgramInv, sample = "rxhash", root # None, NEW c \in Cpus, NEW in,
         cpu[c] = << >>, cpu'[c] = RxHash(in), UNCHANGED <<sample, cnt>>, Meant' = Meant
  PROVE  (Within(c) /\ Balance(c) /\ Hashes(c) /\ Pattern02(c))'
<1>1. PICK v \in Wanted : RxHash(in) \in {<< >>, <<"L3", "L4">>, <<"L3", "L4", "rx", v>>}
  BY RxHashIs
<1>2. v \in VerdictSet
  BY WantedVerdicts
<1>3. /\ Due(cpu'[c]) = Due(cpu[c]) /\ Coming(cpu'[c]) = Coming(cpu[c])
      /\ Hashed(cpu'[c]) = Hashed(cpu[c])
  BY <1>1, <1>2, Marks
<1>4. Wanted' = Wanted
  BY DEF Wanted
<1>5. Within(c)'
  BY <1>1, <1>4 DEF Within, Rests
<1>6. Balance(c) /\ Hashes(c)
  BY DEF ProgramInv, Counting
<1> QED
  BY <1>3, <1>4, <1>5, <1>6 DEF Balance, Hashes, Pattern02

LEMMA PacketPattern ==
  ASSUME MainInv, ProgramInv, sample = "bench02", root # None, NEW c \in Cpus, NEW in,
         cpu[c] = << >>, cpu'[c] = Bench02(c, in), UNCHANGED <<sample, cnt>>, Meant' = Meant,
         count'[c] = IF conf.type = 1 /\ ~Bench02Skips(in) THEN NextVal(count[c]) ELSE count[c]
  PROVE  (Within(c) /\ Balance(c) /\ Hashes(c) /\ Pattern02(c))'
<1>1. Within(c) /\ Balance(c) /\ Pattern02(c)
  BY DEF ProgramInv, Counting
<1>2. CASE Bench02Skips(in)
  <2>1. cpu'[c] = cpu[c] /\ count'[c] = count[c]
    BY <1>2, Bench02Is
  <2> QED
    BY <2>1, OtherCpus DEF Counting
<1>3. CASE ~Bench02Skips(in)
  <2> DEFINE v == Verdict02(c)
  <2>1. v \in Wanted /\ cpu'[c] = <<"rx", v>>
    BY <1>3, Bench02Is
  <2>2. v \in VerdictSet
    BY <2>1, WantedVerdicts
  <2>3. conf = Meant /\ Meant.n \in Nat /\ count[c] \in Nat
    BY ConfiguredBefore, MeantTyped DEF Configured, MainInv, Types, Confs
  <2>4. Meant.type = 1 => count'[c] = NextVal(count[c])
    BY <1>3, <2>3
  <2>5. Wanted' = Wanted
    BY DEF Wanted
  <2>6. Meant.action = "none" /\ Meant.type = 1 => v = Pattern(count[c])
    BY <2>3 DEF Verdict02, Overridden
  <2> HIDE DEF v
  <2>7. /\ Due(cpu[c]) = 0 /\ Coming(cpu[c]) = 0 /\ Drops(cpu[c]) = 0
        /\ Due(cpu'[c]) = 0 /\ Coming(cpu'[c]) = 1
        /\ Drops(cpu'[c]) = IF v = "drop" THEN 1 ELSE 0
    BY <2>1, <2>2, Marks
  <2>8. Within(c)'
    BY <2>1, <2>5 DEF Within, Rests
  <2>9. Balance(c)'
    BY <1>1, <2>5, <2>7 DEF Balance
  <2>10. Hashes(c)'
    BY DEF Hashes
  <2>11. Pattern02(c)'
    <3> SUFFICES ASSUME Meant.action = "none", Meant.type = 1
                 PROVE  /\ count'[c] = IF Meant.n = 0 THEN 0
                                       ELSE (cnt[c]["rx"] + 1) % (2 * Meant.n)
                        /\ cnt[c]["drop"] + Drops(cpu'[c]) = PatternDrops(cnt[c]["rx"] + 1, Meant.n)
      BY <2>7 DEF Pattern02
    <3> DEFINE k == cnt[c]["rx"]
               n == Meant.n
    <3>1. k \in Nat /\ cnt[c]["drop"] \in Nat /\ n \in Nat
      BY <2>3, CountingKeys DEF MainInv, Types, VerdictSet, Counting
    <3>2. k + Coming(cpu[c]) = k /\ cnt[c]["drop"] + Drops(cpu[c]) = cnt[c]["drop"]
      BY <2>7, <3>1
    <3>3. count[c] = (IF n = 0 THEN 0 ELSE k % (2 * n)) /\ cnt[c]["drop"] = PatternDrops(k, n)
      BY <1>1, <3>2 DEF Pattern02
    <3> HIDE DEF k, n
    <3>4. PatternDrops(k + 1, n) =
            PatternDrops(k, n) + (IF n # 0 /\ k % (2 * n) < n THEN 1 ELSE 0)
      BY <3>1, PatternDropsNext
    <3>5. CASE n = 0
      <4>1. count'[c] = 0 /\ v # "drop"
        BY <2>3, <2>4, <2>6, <3>3, <3>5 DEF NextVal, Pattern, n
      <4> QED
        BY <2>7, <3>1, <3>3, <3>4, <3>5, <4>1 DEF k, n
    <3>6. CASE n # 0
      <4> DEFINE r == k % (2 * n)
                 r1 == (k + 1) % (2 * n)
      <4>1. 2 * n \in Nat \ {0} /\ r \in 0 .. (2 * n - 1)
        BY <3>1, <3>6, DivMod
      <4>2. IF r = 2 * n - 1 THEN r1 = 0 ELSE r1 = r + 1
        BY <3>1, <4>1, DivModNext
      <4>3. count[c] = r
        BY <3>3, <3>6
      <4> HIDE DEF r, r1
      <4>4. count'[c] = r1
        BY <2>3, <2>4, <3>1, <4>1, <4>2, <4>3 DEF NextVal, n
      <4>5. v = IF r < n THEN "drop" ELSE "pass"
        BY <2>3, <2>6, <3>1, <3>6, <4>1, <4>3 DEF Pattern, n
      <4>6. Drops(cpu'[c]) = IF r < n THEN 1 ELSE 0
        BY <2>7, <4>5
      <4>7. cnt[c]["drop"] + Drops(cpu'[c]) = PatternDrops(k + 1, n)
        BY <3>1, <3>3, <3>4, <3>6, <4>6 DEF r
      <4> QED
        BY <3>6, <4>4, <4>7 DEF k, n, r1
    <3> QED
      BY <3>5, <3>6
  <2> QED
    BY <2>8, <2>9, <2>10, <2>11
<1> QED
  BY <1>2, <1>3

LEMMA PacketPrograms ==
  ASSUME MainInv, ProgramInv, NEW c \in Cpus, Packet(c)
  PROVE  ProgramInv' /\ Quiet'
<1>1. /\ root # None /\ cpu[c] = << >> /\ UNCHANGED <<sample, cnt, at>> /\ Meant' = Meant
      /\ \A d \in Cpus : d # c => cpu'[d] = cpu[d] /\ count'[d] = count[d]
  BY DEF Packet, user, MainInv, Types, Meant
<1>0. Quiet'
  <2>1. AttachAt' = AttachAt /\ AttachAt \in Int /\ at \in Int
    BY <1>1 DEF AttachAt, MainInv, Types
  <2>2. sample \in Counting => at > AttachAt
    BY <1>1 DEF MainInv, Steps, Counting
  <2> QED
    BY <1>1, <2>1, <2>2 DEF Quiet
<1>2. PICK in \in Inputs(sample) :
             /\ cpu' = [cpu EXCEPT ![c] = ProgramRuns(c, in)]
             /\ count' = IF sample = "bench02" /\ conf.type = 1 /\ ~Bench02Skips(in)
                         THEN [count EXCEPT ![c] = NextVal(@)] ELSE count
  BY DEF Packet
<1>3. cpu'[c] = ProgramRuns(c, in)
  BY <1>2 DEF MainInv, Types
<1> SUFFICES ASSUME sample \in Counting, NEW d \in Cpus
             PROVE  (Within(d) /\ Balance(d) /\ Hashes(d) /\ Pattern02(d))'
  BY <1>0, <1>1 DEF ProgramInv
<1>4. CASE d # c
  BY <1>1, <1>4, OtherCpus
<1>5. CASE d = c /\ sample = "rxhash"
  <2>1. cpu'[c] = RxHash(in)
    BY <1>3, <1>5 DEF ProgramRuns
  <2>2. (Within(c) /\ Balance(c) /\ Hashes(c) /\ Pattern02(c))'
    BY <1>1, <1>5, <2>1, PacketHash
  <2> QED
    BY <1>5, <2>2
<1>6. CASE d = c /\ sample = "bench02"
  <2>1. cpu'[c] = Bench02(c, in)
    BY <1>3, <1>6 DEF ProgramRuns
  <2>2. count'[c] = IF conf.type = 1 /\ ~Bench02Skips(in) THEN NextVal(count[c]) ELSE count[c]
    BY <1>2, <1>6 DEF MainInv, Types
  <2>3. (Within(c) /\ Balance(c) /\ Hashes(c) /\ Pattern02(c))'
    BY <1>1, <1>6, <2>1, <2>2, PacketPattern
  <2> QED
    BY <1>6, <2>3
<1> QED
  BY <1>4, <1>5, <1>6 DEF Counting

(* What a CPU has still to count, by the first counter.                      *)
LEMMA CountMoves ==
  ASSUME MainInv, NEW c \in Cpus, Count(c)
  PROVE  /\ cpu[c] # << >> /\ cpu'[c] = Tail(cpu[c]) /\ UNCHANGED <<user, root, count, stats>>
         /\ Head(cpu[c]) \in Keys(sample) /\ cpu'[c] \in Seq(Keys(sample))
         /\ cnt'[c][Head(cpu[c])] = cnt[c][Head(cpu[c])] + 1
         /\ \A k \in Keys(sample) : k # Head(cpu[c]) => cnt'[c][k] = cnt[c][k]
         /\ \A k \in Keys(sample) : cnt[c][k] \in Nat
         /\ \A d \in Cpus : d # c => cpu'[d] = cpu[d] /\ cnt'[d] = cnt[d]
<1>1. cpu[c] # << >> /\ cpu[c] \in Seq(Keys(sample)) /\ cnt[c] \in [Keys(sample) -> Nat]
  BY DEF Count, MainInv, Types
<1>2. Head(cpu[c]) \in Keys(sample) /\ Tail(cpu[c]) \in Seq(Keys(sample))
  BY <1>1
<1>3. cpu' = [cpu EXCEPT ![c] = Tail(@)] /\ cnt' = [cnt EXCEPT ![c][Head(cpu[c])] = @ + 1]
  BY DEF Count
<1>4. cpu'[c] = Tail(cpu[c]) /\ cnt'[c] = [cnt[c] EXCEPT ![Head(cpu[c])] = @ + 1]
  BY <1>3 DEF MainInv, Types
<1>5. \A d \in Cpus : d # c => cpu'[d] = cpu[d] /\ cnt'[d] = cnt[d]
  BY <1>3 DEF MainInv, Types
<1> QED
  BY <1>1, <1>2, <1>4, <1>5 DEF Count

LEMMA CountPrograms ==
  ASSUME MainInv, ProgramInv, Quiet, NEW c \in Cpus, Count(c)
  PROVE  ProgramInv' /\ Quiet'
<1>1. /\ cpu[c] # << >> /\ cpu'[c] = Tail(cpu[c]) /\ UNCHANGED <<sample, count, at>> /\ Meant' = Meant
      /\ \A d \in Cpus : d # c => cpu'[d] = cpu[d] /\ cnt'[d] = cnt[d]
  BY CountMoves DEF user, Meant
<1>0. Quiet'
  <2>1. sample \in Counting => ~(at <= AttachAt)
    BY <1>1 DEF Quiet, Untouched
  <2> QED
    BY <1>1, <2>1 DEF Quiet, AttachAt
<1> SUFFICES ASSUME sample \in Counting, NEW d \in Cpus
             PROVE  (Within(d) /\ Balance(d) /\ Hashes(d) /\ Pattern02(d))'
  BY <1>0, <1>1 DEF ProgramInv
<1>2. CASE d # c
  BY <1>1, <1>2, OtherCpus
<1>3. CASE d = c
  <2> DEFINE h == Head(cpu[c])
             Plus(k) == cnt[c][k] + (IF h = k THEN 1 ELSE 0)
  <2>1. /\ VerdictSet \cup {"rx"} \subseteq Keys(sample)
        /\ sample = "rxhash" => {"L3", "L4"} \subseteq Keys(sample)
    BY CountingKeys
  <2>2. \A k \in Keys(sample) : cnt'[c][k] = Plus(k) /\ cnt[c][k] \in Nat
    BY CountMoves
  <2>3. PICK v \in Wanted : cpu[c] \in Rests(v)
    BY DEF ProgramInv, Within
  <2>4. v \in VerdictSet /\ Wanted' = Wanted
    BY <1>1, WantedVerdicts DEF Wanted
  <2>5. Within(c) /\ Balance(c) /\ Hashes(c) /\ Pattern02(c)
    BY DEF ProgramInv
  <2>6. cpu[c] \in {<<v>>, <<"rx", v>>} \/
          (sample = "rxhash" /\
           cpu[c] \in {<<"L4", "rx", v>>, <<"L3", "L4", "rx", v>>, <<"L4">>, <<"L3", "L4">>})
    BY <1>1, <2>3 DEF Rests
  <2>7. /\ cpu[c] = <<v>> => h = v /\ cpu'[c] = << >>
        /\ cpu[c] = <<"rx", v>> => h = "rx" /\ cpu'[c] = <<v>>
        /\ cpu[c] = <<"L4", "rx", v>> => h = "L4" /\ cpu'[c] = <<"rx", v>>
        /\ cpu[c] = <<"L3", "L4", "rx", v>> => h = "L3" /\ cpu'[c] = <<"L4", "rx", v>>
        /\ cpu[c] = <<"L4">> => h = "L4" /\ cpu'[c] = << >>
        /\ cpu[c] = <<"L3", "L4">> => h = "L3" /\ cpu'[c] = <<"L4">>
    <3>1. ASSUME cpu[c] = <<v>> PROVE h = v /\ cpu'[c] = << >>
      BY <1>1, <3>1
    <3>2. ASSUME cpu[c] = <<"rx", v>> PROVE h = "rx" /\ cpu'[c] = <<v>>
      BY <1>1, <3>2
    <3>3. ASSUME cpu[c] = <<"L4", "rx", v>> PROVE h = "L4" /\ cpu'[c] = <<"rx", v>>
      BY <1>1, <3>3
    <3>4. ASSUME cpu[c] = <<"L3", "L4", "rx", v>> PROVE h = "L3" /\ cpu'[c] = <<"L4", "rx", v>>
      BY <1>1, <3>4
    <3>5. ASSUME cpu[c] = <<"L4">> PROVE h = "L4" /\ cpu'[c] = << >>
      BY <1>1, <3>5
    <3>6. ASSUME cpu[c] = <<"L3", "L4">> PROVE h = "L3" /\ cpu'[c] = <<"L4">>
      BY <1>1, <3>6
    <3> HIDE DEF h
    <3> QED
      BY <3>1, <3>2, <3>3, <3>4, <3>5, <3>6
  <2>8. Within(c)'
    BY <2>4, <2>3, <2>6, <2>7, <1>1 DEF Within, Rests
  <2>9. /\ cnt'[c]["rx"] = Plus("rx") /\ cnt[c]["rx"] \in Nat
        /\ \A w \in VerdictSet : cnt'[c][w] = Plus(w) /\ cnt[c][w] \in Nat
        /\ sample = "rxhash" => /\ cnt'[c]["L3"] = Plus("L3") /\ cnt[c]["L3"] \in Nat
                                /\ cnt'[c]["L4"] = Plus("L4") /\ cnt[c]["L4"] \in Nat
    BY <2>1, <2>2
  <2> HIDE DEF h
  <2>10. Balance(c)'
    <3>1. \A w \in VerdictSet \ Wanted : cnt'[c][w] = 0
      <4>1. h \in {v, "rx", "L3", "L4"}
        BY <2>6, <2>7
      <4> SUFFICES ASSUME NEW w \in VerdictSet \ Wanted PROVE cnt'[c][w] = 0
        OBVIOUS
      <4>2. h # w
        BY <2>3, <4>1 DEF VerdictSet
      <4>3. cnt[c][w] = 0
        BY <2>5 DEF Balance
      <4> QED
        BY <2>9, <4>2, <4>3
    <3>2. CASE cpu[c] = <<v>>
      <4>1. Due(cpu[c]) = 1 /\ Due(cpu'[c]) = 0 /\ h = v
        BY <2>4, <2>7, <3>2, Marks
      <4> QED
        BY <2>4, <2>5, <2>9, <3>1, <4>1 DEF Balance, VerdictSet
    <3>3. CASE cpu[c] = <<"rx", v>>
      <4>1. Due(cpu[c]) = 0 /\ Due(cpu'[c]) = 1 /\ h = "rx"
        BY <2>4, <2>7, <3>3, Marks
      <4> QED
        BY <2>4, <2>5, <2>9, <3>1, <4>1 DEF Balance, VerdictSet
    <3>4. CASE cpu[c] \notin {<<v>>, <<"rx", v>>}
      <4>1. Due(cpu[c]) = 0 /\ Due(cpu'[c]) = 0 /\ h \in {"L3", "L4"}
        BY <2>4, <2>6, <2>7, <3>4, Marks
      <4> QED
        BY <2>4, <2>5, <2>9, <3>1, <4>1 DEF Balance, VerdictSet
    <3> QED
      BY <3>2, <3>3, <3>4
  <2>11. Hashes(c)'
    <3> SUFFICES ASSUME sample = "rxhash"
                 PROVE  /\ cnt'[c]["rx"] + Coming(cpu'[c]) <= cnt'[c]["L4"]
                        /\ cnt'[c]["rx"] + Coming(cpu'[c]) + Hashed(cpu'[c]) <= cnt'[c]["L3"]
      BY <1>1 DEF Hashes
    <3>1. /\ cnt[c]["rx"] + Coming(cpu[c]) <= cnt[c]["L4"]
          /\ cnt[c]["rx"] + Coming(cpu[c]) + Hashed(cpu[c]) <= cnt[c]["L3"]
      BY <2>5 DEF Hashes
    <3>2. \/ h = v /\ Coming(cpu[c]) = 0 /\ Coming(cpu'[c]) = 0
                   /\ Hashed(cpu[c]) = 0 /\ Hashed(cpu'[c]) = 0
          \/ h = "rx" /\ Coming(cpu[c]) = 1 /\ Coming(cpu'[c]) = 0
                      /\ Hashed(cpu[c]) = 0 /\ Hashed(cpu'[c]) = 0
          \/ h = "L4" /\ Coming(cpu[c]) = 0 /\ Coming(cpu'[c]) = 1
                      /\ Hashed(cpu[c]) = 1 /\ Hashed(cpu'[c]) = 0
          \/ h = "L3" /\ Coming(cpu[c]) = 0 /\ Coming(cpu'[c]) = 0
                      /\ Hashed(cpu[c]) = 0 /\ Hashed(cpu'[c]) = 1
          \/ h \in {"L3", "L4"} /\ Coming(cpu[c]) = 0 /\ Coming(cpu'[c]) = 0
                      /\ Hashed(cpu[c]) = 0 /\ Hashed(cpu'[c]) = 0
      <4> USE Marks, <2>4, <2>7
      <4>1. CASE cpu[c] = <<v>>
        BY <4>1
      <4>2. CASE cpu[c] = <<"rx", v>>
        BY <4>2
      <4>3. CASE cpu[c] = <<"L4", "rx", v>>
        BY <4>3
      <4>4. CASE cpu[c] = <<"L3", "L4", "rx", v>>
        BY <4>4
      <4>5. CASE cpu[c] = <<"L4">> \/ cpu[c] = <<"L3", "L4">>
        BY <4>5
      <4> QED
        BY <2>6, <4>1, <4>2, <4>3, <4>4, <4>5
    <3>3. h = v => h \notin {"rx", "L3", "L4"}
      BY <2>4 DEF VerdictSet
    <3> QED
      BY <2>9, <3>1, <3>2, <3>3
  <2>12. Pattern02(c)'
    <3> SUFFICES ASSUME sample = "bench02", Meant.action = "none", Meant.type = 1
                 PROVE  Pattern02(c)'
      BY <1>1 DEF Pattern02
    <3>1. cpu[c] \in {<<v>>, <<"rx", v>>}
      BY <2>6
    <3>2. /\ cpu[c] = <<v>> => /\ h = v /\ Coming(cpu[c]) = 0 /\ Coming(cpu'[c]) = 0
                               /\ Drops(cpu'[c]) = 0
          /\ cpu[c] = <<"rx", v>> => /\ h = "rx" /\ Coming(cpu[c]) = 1 /\ Coming(cpu'[c]) = 0
                                     /\ Drops(cpu'[c]) = Drops(cpu[c])
          /\ cpu[c] = <<v>> => Drops(cpu[c]) = IF v = "drop" THEN 1 ELSE 0
      BY <2>4, <2>7, Marks
    <3>3. /\ cnt'[c]["drop"] = Plus("drop") /\ cnt[c]["drop"] \in Nat
          /\ v # "rx" /\ Drops(cpu[c]) \in {0, 1}
      BY <2>4, <2>9 DEF VerdictSet, Drops
    <3>4. CASE cpu[c] = <<v>>
      <4>1. cnt'[c]["rx"] + Coming(cpu'[c]) = cnt[c]["rx"] + Coming(cpu[c])
        BY <2>9, <3>2, <3>3, <3>4
      <4>2. cnt'[c]["drop"] + Drops(cpu'[c]) = cnt[c]["drop"] + Drops(cpu[c])
        BY <3>2, <3>3, <3>4
      <4> QED
        BY <1>1, <2>5, <4>1, <4>2 DEF Pattern02
    <3>5. CASE cpu[c] = <<"rx", v>>
      <4>1. cnt'[c]["rx"] + Coming(cpu'[c]) = cnt[c]["rx"] + Coming(cpu[c])
        BY <2>9, <3>2, <3>3, <3>5
      <4>2. cnt'[c]["drop"] + Drops(cpu'[c]) = cnt[c]["drop"] + Drops(cpu[c])
        BY <3>2, <3>3, <3>5
      <4> QED
        BY <1>1, <2>5, <4>1, <4>2 DEF Pattern02
    <3> QED
      BY <3>1, <3>4, <3>5
  <2> QED
    BY <1>3, <2>8, <2>10, <2>11, <2>12
<1> QED
  BY <1>2, <1>3

(* The counters keep to Nat, whatever the programs and stats_poll do.        *)
LEMMA PacketTypes ==
  ASSUME MainInv, ProgramInv, NEW c \in Cpus, Packet(c)
  PROVE  MainInv'
<1>1. PICK in \in Inputs(sample) :
             /\ cpu' = [cpu EXCEPT ![c] = ProgramRuns(c, in)]
             /\ count' = IF sample = "bench02" /\ conf.type = 1 /\ ~Bench02Skips(in)
                         THEN [count EXCEPT ![c] = NextVal(@)] ELSE count
  BY DEF Packet
<1>2. MainKept /\ UNCHANGED <<cnt, stats>> /\ root # None
  BY DEF Packet, MainKept
<1>3. cpu' \in [Cpus -> Seq(Keys(sample))]
  BY <1>1, <1>2, RunsTyped DEF MainInv, Types
<1>4. count' \in [Cpus -> Nat]
  <2>1. NextVal(count[c]) \in Nat
    BY DEF NextVal, MainInv, Types
  <2> QED
    BY <1>1, <2>1 DEF MainInv, Types
<1>5. Types'
  BY <1>2, <1>3, <1>4 DEF Types, MainInv, MainKept, user, stats
<1> QED
  BY <1>2, <1>5, MainKeptSteps DEF MainInv

LEMMA CountTypes ==
  ASSUME MainInv, NEW c \in Cpus, Count(c)
  PROVE  MainInv'
<1>1. MainKept /\ UNCHANGED <<count, stats>>
  BY DEF Count, MainKept
<1>2. cpu' \in [Cpus -> Seq(Keys(sample))]
  <2>1. cpu' = [cpu EXCEPT ![c] = Tail(@)] /\ cpu'[c] \in Seq(Keys(sample))
    BY CountMoves DEF Count
  <2> QED
    BY <2>1 DEF MainInv, Types
<1>3. cnt' \in [Cpus -> [Keys(sample) -> Nat]]
  <2>1. cnt' = [cnt EXCEPT ![c][Head(cpu[c])] = @ + 1] /\ Head(cpu[c]) \in Keys(sample)
    BY CountMoves DEF Count
  <2> QED
    BY <2>1 DEF MainInv, Types
<1>4. Types'
  BY <1>1, <1>2, <1>3 DEF Types, MainInv, MainKept, user, stats
<1> QED
  BY <1>1, <1>4, MainKeptSteps DEF MainInv

LEMMA CollectTypes ==
  ASSUME MainInv, Collect
  PROVE  MainInv'
<1>1. MainKept /\ UNCHANGED kernel
  BY DEF Collect, MainKept
<1>2. rec' \in [Keys(sample) -> Nat] /\ rd' \subseteq Pairs(sample)
  <2>1. CASE rd = Pairs(sample)
    BY <2>1 DEF Collect, NewRecord
  <2>2. CASE rd # Pairs(sample)
    <3>1. PICK p \in Pairs(sample) \ rd :
                 /\ rd' = rd \cup {p}
                 /\ rec' = [rec EXCEPT ![Counters(sample)[p[1]]] =
                                          @ + cnt[p[2]][Counters(sample)[p[1]]]]
      BY <2>2 DEF Collect
    <3>2. p[1] \in 1 .. Len(Counters(sample)) /\ p[2] \in Cpus
      BY DEF Pairs
    <3>3. Counters(sample)[p[1]] \in Keys(sample)
      BY <3>2, KeysIn
    <3> DEFINE key == Counters(sample)[p[1]]
    <3> HIDE DEF key
    <3>4. cnt[p[2]][key] \in Nat /\ rec[key] \in Nat
      BY <3>2, <3>3 DEF MainInv, Types, key
    <3>5. rec' = [rec EXCEPT ![key] = @ + cnt[p[2]][key]]
      BY <3>1 DEF key
    <3>6. rec' \in [Keys(sample) -> Nat]
      <4>1. PICK x \in Nat : x = rec[key] + cnt[p[2]][key]
        BY <3>4
      <4>2. rec' = [rec EXCEPT ![key] = x] /\ rec \in [Keys(sample) -> Nat]
        BY <3>5, <4>1 DEF MainInv, Types
      <4> QED
        BY <4>1, <4>2
    <3>7. rd' \subseteq Pairs(sample)
      BY <3>1 DEF MainInv, Types
    <3> QED
      BY <3>6, <3>7
  <2> QED
    BY <2>1, <2>2
<1>3. Types'
  BY <1>1, <1>2 DEF Types, MainInv, MainKept, user, kernel
<1> QED
  BY <1>1, <1>3, MainKeptSteps DEF MainInv

LEMMA LookupFailsTypes ==
  ASSUME MainInv, LookupFails
  PROVE  MainInv'
<1>1. MainKept /\ UNCHANGED kernel
  BY DEF LookupFails, MainKept
<1>2. rec' \in [Keys(sample) -> Nat] /\ rd' \subseteq Pairs(sample)
  <2>1. CASE NewRecord
    BY <2>1 DEF NewRecord
  <2>2. CASE ~NewRecord
    <3>1. PICK k \in 1 .. Len(Counters(sample)) : rd' = rd \cup ({k} \X Cpus)
      BY <2>2 DEF LookupFails
    <3>2. {k} \X Cpus \subseteq Pairs(sample) /\ rec' = rec
      BY <2>2 DEF LookupFails, Pairs
    <3> QED
      BY <3>1, <3>2 DEF MainInv, Types
  <2> QED
    BY <2>1, <2>2
<1>3. Types'
  BY <1>1, <1>2 DEF Types, MainInv, MainKept, user, kernel
<1> QED
  BY <1>1, <1>3, MainKeptSteps DEF MainInv

-----------------------------------------------------------------------------
(* Totals *)

LEMMA UnitsAre ==
  ASSUME NEW m, NEW S
  PROVE  /\ \A c, i : <<c, i>> \in Units(m, S) <=> c \in S /\ i \in 1 .. m[c]
         /\ \A t \in Units(m, S) : t = <<t[1], t[2]>>
BY DEF Units

LEMMA UnitsFinite ==
  ASSUME NEW S, IsFiniteSet(S), NEW m \in [S -> Nat]
  PROVE  IsFiniteSet(Units(m, S)) /\ Total(m, S) \in Nat
<1> DEFINE Part(c) == {c} \X (1 .. m[c])
           T == {Part(c) : c \in S}
           f == [c \in S |-> Part(c)]
<1>1. f \in Surjection(S, T)
  BY DEF Surjection
<1>2. IsFiniteSet(T)
  BY <1>1, FS_Surjection
<1>3. ASSUME NEW c \in S PROVE IsFiniteSet(Part(c))
  <2>0. m[c] \in Int
    OBVIOUS
  <2>1. IsFiniteSet({c}) /\ IsFiniteSet(1 .. m[c])
    <3>1. IsFiniteSet({c})
      BY FS_Singleton
    <3>2. IsFiniteSet(1 .. m[c])
      BY <2>0, FS_Interval
    <3> QED
      BY <3>1, <3>2
  <2> QED
    BY <2>1, FS_Product
<1>4. IsFiniteSet(UNION T)
  BY <1>2, <1>3, FS_UNION
<1>5. Units(m, S) = UNION T
  BY DEF Units
<1> QED
  BY <1>4, <1>5, FS_CardinalityType DEF Total

LEMMA TotalEmpty == ASSUME NEW m PROVE Total(m, {}) = 0
<1>1. Units(m, {}) = {}
  BY DEF Units
<1> QED
  BY <1>1, FS_EmptySet DEF Total

LEMMA TotalPlus ==
  ASSUME NEW C, IsFiniteSet(C), NEW m \in [C -> Nat],
         NEW S \in SUBSET C, NEW c \in C \ S
  PROVE  Total(m, S \cup {c}) = Total(m, S) + m[c]
<1> DEFINE P == {c} \X (1 .. m[c])
<1>1. IsFiniteSet(Units(m, S))
  <2>1. IsFiniteSet(S)
    BY FS_Subset
  <2>2. Units([d \in S |-> m[d]], S) = Units(m, S) /\ [d \in S |-> m[d]] \in [S -> Nat]
    BY DEF Units
  <2> QED
    BY <2>1, <2>2, UnitsFinite
<1>2. IsFiniteSet(P) /\ Cardinality(P) = m[c]
  <2>1. IsFiniteSet({c}) /\ Cardinality({c}) = 1
    BY FS_Singleton
  <2>2. m[c] \in Nat
    OBVIOUS
  <2>3. IsFiniteSet(1 .. m[c]) /\ Cardinality(1 .. m[c]) = m[c]
    BY <2>2, FS_Interval
  <2>4. IsFiniteSet(P) /\ Cardinality(P) = Cardinality({c}) * Cardinality(1 .. m[c])
    BY <2>1, <2>3, FS_Product
  <2> HIDE DEF P
  <2> QED
    BY <2>1, <2>2, <2>3, <2>4
<1>3. Units(m, S \cup {c}) = Units(m, S) \cup P
  BY DEF Units
<1>4. Units(m, S) \cap P = {}
  BY DEF Units
<1> HIDE DEF P
<1>5. Cardinality(Units(m, S) \cup P) =
        Cardinality(Units(m, S)) + Cardinality(P) - Cardinality(Units(m, S) \cap P)
  BY <1>1, <1>2, FS_Union
<1>6. Cardinality(Units(m, S)) \in Nat /\ Cardinality(Units(m, S) \cap P) = 0 /\ m[c] \in Nat
  <2>1. Cardinality(Units(m, S)) \in Nat
    BY <1>1, FS_CardinalityType
  <2>2. Cardinality(Units(m, S) \cap P) = 0
    BY <1>4, FS_EmptySet
  <2> QED
    BY <2>1, <2>2
<1>7. Cardinality(Units(m, S) \cup P) = Cardinality(Units(m, S)) + m[c]
  BY <1>2, <1>5, <1>6
<1>8. Cardinality(Units(m, S \cup {c})) = Cardinality(Units(m, S)) + m[c]
  BY <1>3, <1>7
<1> QED
  BY <1>8 DEF Total

LEMMA TotalGrows ==
  ASSUME NEW S, IsFiniteSet(S), NEW m \in [S -> Nat], NEW n \in [S -> Nat],
         \A c \in S : m[c] <= n[c]
  PROVE  Total(m, S) <= Total(n, S)
<1>1. Units(m, S) \in SUBSET Units(n, S)
  BY DEF Units
<1> QED
  BY <1>1, UnitsFinite, FS_Subset DEF Total

LEMMA TotalOfPart ==
  ASSUME NEW C, IsFiniteSet(C), NEW S \in SUBSET C, NEW m \in [C -> Nat]
  PROVE  /\ IsFiniteSet(S) /\ [c \in S |-> m[c]] \in [S -> Nat]
         /\ Total(m, S) = Total([c \in S |-> m[c]], S) /\ Total(m, S) \in Nat
<1>1. IsFiniteSet(S)
  BY FS_Subset
<1>2. Units(m, S) = Units([c \in S |-> m[c]], S) /\ [c \in S |-> m[c]] \in [S -> Nat]
  BY DEF Units
<1> QED
  BY <1>1, <1>2, UnitsFinite DEF Total

LEMMA TotalSum ==
  ASSUME NEW S, IsFiniteSet(S), NEW m \in [S -> Nat], NEW n \in [S -> Nat]
  PROVE  Total([c \in S |-> m[c] + n[c]], S) = Total(m, S) + Total(n, S)
<1> DEFINE A == Units(m, S)
           B == Units(n, S)
           U == Units([c \in S |-> m[c] + n[c]], S)
           V == {t \in U : t[2] > m[t[1]]}
           f == [t \in B |-> <<t[1], t[2] + m[t[1]]>>]
<1>1. /\ \A c, i : <<c, i>> \in A <=> c \in S /\ i \in 1 .. m[c]
      /\ \A t \in A : t = <<t[1], t[2]>>
  BY UnitsAre
<1>2. /\ \A c, i : <<c, i>> \in B <=> c \in S /\ i \in 1 .. n[c]
      /\ \A t \in B : t = <<t[1], t[2]>>
  BY UnitsAre
<1>3. /\ \A c, i : <<c, i>> \in U <=> c \in S /\ i \in 1 .. (m[c] + n[c])
      /\ \A t \in U : t = <<t[1], t[2]>>
  BY UnitsAre
<1>4. IsFiniteSet(A) /\ IsFiniteSet(B)
  BY UnitsFinite
<1> HIDE DEF A, B, U
<1>5. U = A \cup V /\ A \cap V = {}
  <2>1. ASSUME NEW t \in U, t \notin V PROVE t \in A
    <3>1. t[1] \in S /\ t[2] \in 1 .. (m[t[1]] + n[t[1]]) /\ t = <<t[1], t[2]>>
      BY <1>3
    <3> QED
      BY <1>1, <2>1, <3>1
  <2>2. ASSUME NEW t \in A PROVE t \in U /\ t \notin V
    <3>1. t[1] \in S /\ t[2] \in 1 .. m[t[1]] /\ t = <<t[1], t[2]>>
      BY <1>1
    <3> QED
      BY <1>3, <3>1
  <2> QED
    BY <2>1, <2>2
<1>6. f \in Bijection(B, V)
  <2>1. ASSUME NEW t \in B PROVE f[t] \in V
    <3>1. t[1] \in S /\ t[2] \in 1 .. n[t[1]] /\ t = <<t[1], t[2]>>
      BY <1>2
    <3>2. <<t[1], t[2] + m[t[1]]>> \in U
      BY <1>3, <3>1
    <3> QED
      BY <3>1, <3>2
  <2>2. ASSUME NEW t \in B, NEW u \in B, f[t] = f[u] PROVE t = u
    <3>1. /\ t[1] \in S /\ t[2] \in 1 .. n[t[1]] /\ t = <<t[1], t[2]>>
          /\ u[1] \in S /\ u[2] \in 1 .. n[u[1]] /\ u = <<u[1], u[2]>>
      BY <1>2
    <3>2. t[1] = u[1] /\ t[2] + m[t[1]] = u[2] + m[t[1]]
      BY <2>2
    <3> QED
      BY <3>1, <3>2
  <2>3. ASSUME NEW w \in V PROVE \E t \in B : f[t] = w
    <3>1. w[1] \in S /\ w[2] \in 1 .. (m[w[1]] + n[w[1]]) /\ w = <<w[1], w[2]>> /\ w[2] > m[w[1]]
      BY <1>3
    <3>2. <<w[1], w[2] - m[w[1]]>> \in B
      BY <1>2, <3>1
    <3>3. f[<<w[1], w[2] - m[w[1]]>>] = w
      BY <3>1, <3>2
    <3> QED
      BY <3>2, <3>3
  <2>4. f \in [B -> V]
    BY <2>1
  <2>5. (\A t, u \in B : f[t] = f[u] => t = u) /\ (\A w \in V : \E t \in B : f[t] = w)
    BY <2>2, <2>3
  <2> HIDE DEF f, V
  <2>6. f \in Injection(B, V)
    BY <2>4, <2>5, Fun_IsInj
  <2>7. f \in Surjection(B, V)
    BY <2>4, <2>5 DEF Surjection
  <2> QED
    BY <2>6, <2>7 DEF Bijection
<1>7. IsFiniteSet(V) /\ Cardinality(V) = Cardinality(B)
  BY <1>4, <1>6, FS_Bijection DEF ExistsBijection
<1>8. Cardinality(U) = Cardinality(A) + Cardinality(V) - 0
  BY <1>4, <1>5, <1>7, FS_Union, FS_EmptySet
<1>9. Cardinality(A) \in Nat /\ Cardinality(B) \in Nat
  BY <1>4, FS_CardinalityType
<1> QED
  BY <1>7, <1>8, <1>9 DEF Total, A, B, U

(* The totals of two counters of which one never exceeds the other, and of   *)
(* four that together never exceed a fifth.                                  *)
LEMMA ColumnIs ==
  ASSUME Types, NEW k \in Keys(sample)
  PROVE  Column(k) \in [Cpus -> Nat] /\ \A c \in Cpus : Column(k)[c] = cnt[c][k]
BY DEF Types, Column

LEMMA RxWithinHashes ==
  ASSUME MainInv, ProgramInv, sample = "rxhash"
  PROVE  /\ Total(Column("rx"), Cpus) <= Total(Column("L3"), Cpus)
         /\ Total(Column("rx"), Cpus) <= Total(Column("L4"), Cpus)
<1>1. /\ Column("rx") \in [Cpus -> Nat] /\ Column("L3") \in [Cpus -> Nat]
      /\ Column("L4") \in [Cpus -> Nat]
  BY ColumnIs, KeysAre DEF MainInv
<1>2. ASSUME NEW c \in Cpus
      PROVE  Column("rx")[c] <= Column("L3")[c] /\ Column("rx")[c] <= Column("L4")[c]
  <2>1. /\ Column("rx")[c] = cnt[c]["rx"] /\ Column("L3")[c] = cnt[c]["L3"]
        /\ Column("L4")[c] = cnt[c]["L4"]
    BY DEF Column
  <2>2. Hashes(c)
    BY DEF ProgramInv, Counting
  <2>3. Coming(cpu[c]) \in Nat /\ Hashed(cpu[c]) \in Nat
    BY DEF Coming, Hashed
  <2>4. cnt[c]["rx"] \in Nat /\ cnt[c]["L3"] \in Nat /\ cnt[c]["L4"] \in Nat
    BY <1>1, <2>1
  <2> QED
    BY <2>1, <2>2, <2>3, <2>4 DEF Hashes
<1>3. IsFiniteSet(Cpus)
  BY SampleAssumption
<1> QED
  BY <1>1, <1>2, <1>3, TotalGrows

LEMMA VerdictsWithinRx ==
  ASSUME MainInv, ProgramInv, sample \in Counting
  PROVE  Total(Column("aborted"), Cpus) + Total(Column("drop"), Cpus)
           + Total(Column("pass"), Cpus) + Total(Column("tx"), Cpus)
             <= Total(Column("rx"), Cpus)
<1> DEFINE A == Column("aborted")
           D == Column("drop")
           P == Column("pass")
           X == Column("tx")
           R == Column("rx")
           AD == [c \in Cpus |-> A[c] + D[c]]
           ADP == [c \in Cpus |-> AD[c] + P[c]]
           ADPX == [c \in Cpus |-> ADP[c] + X[c]]
<1>1. IsFiniteSet(Cpus)
  BY SampleAssumption
<1>2. /\ A \in [Cpus -> Nat] /\ D \in [Cpus -> Nat] /\ P \in [Cpus -> Nat]
      /\ X \in [Cpus -> Nat] /\ R \in [Cpus -> Nat]
  BY ColumnIs, CountingKeys DEF MainInv, VerdictSet
<1>3. ASSUME NEW c \in Cpus PROVE A[c] + D[c] + P[c] + X[c] <= R[c]
  <2>1. /\ A[c] = cnt[c]["aborted"] /\ D[c] = cnt[c]["drop"] /\ P[c] = cnt[c]["pass"]
        /\ X[c] = cnt[c]["tx"] /\ R[c] = cnt[c]["rx"]
    BY DEF Column
  <2>2. Balance(c) /\ Due(cpu[c]) \in Nat
    BY DEF ProgramInv, Due
  <2>3. /\ cnt[c]["aborted"] \in Nat /\ cnt[c]["drop"] \in Nat /\ cnt[c]["pass"] \in Nat
        /\ cnt[c]["tx"] \in Nat /\ cnt[c]["rx"] \in Nat
    BY <1>2, <2>1
  <2> HIDE DEF A, D, P, X, R
  <2> QED
    BY <2>1, <2>2, <2>3 DEF Balance
<1> HIDE DEF A, D, P, X, R
<1>4. AD \in [Cpus -> Nat] /\ \A c \in Cpus : AD[c] = A[c] + D[c]
  BY <1>2
<1>5. Total(AD, Cpus) = Total(A, Cpus) + Total(D, Cpus)
  BY <1>1, <1>2, TotalSum
<1> HIDE DEF AD
<1>6. ADP \in [Cpus -> Nat] /\ \A c \in Cpus : ADP[c] = AD[c] + P[c]
  BY <1>2, <1>4
<1>7. Total(ADP, Cpus) = Total(AD, Cpus) + Total(P, Cpus)
  BY <1>1, <1>2, <1>4, TotalSum
<1> HIDE DEF ADP
<1>8. ADPX \in [Cpus -> Nat] /\ \A c \in Cpus : ADPX[c] = ADP[c] + X[c]
  BY <1>2, <1>6
<1>9. Total(ADPX, Cpus) = Total(ADP, Cpus) + Total(X, Cpus)
  BY <1>1, <1>2, <1>6, TotalSum
<1> HIDE DEF ADPX
<1>10. \A c \in Cpus : ADPX[c] <= R[c]
  <2> SUFFICES ASSUME NEW c \in Cpus PROVE ADPX[c] <= R[c]
    OBVIOUS
  <2>1. A[c] \in Nat /\ D[c] \in Nat /\ P[c] \in Nat /\ X[c] \in Nat /\ R[c] \in Nat
    BY <1>2
  <2>2. ADPX[c] = A[c] + D[c] + P[c] + X[c]
    BY <1>4, <1>6, <1>8
  <2> QED
    BY <1>3, <2>1, <2>2
<1>11. Total(ADPX, Cpus) <= Total(R, Cpus)
  BY <1>1, <1>2, <1>8, <1>10, TotalGrows
<1>12. Total(A, Cpus) + Total(D, Cpus) + Total(P, Cpus) + Total(X, Cpus) <= Total(R, Cpus)
  BY <1>5, <1>7, <1>9, <1>11
<1> QED
  BY <1>12 DEF A, D, P, X, R

-----------------------------------------------------------------------------
(* stats_poll *)

(* The total of a set of CPUs only grows while the programs run.             *)
LEMMA CountStats ==
  ASSUME MainInv, ProgramInv, StatsInv, NEW c \in Cpus, Count(c)
  PROVE  StatsInv'
<1>1. UNCHANGED <<sample, rec, rd, missed>>
  BY CountMoves DEF user, stats
<1> SUFFICES ASSUME sample \in Counting PROVE (InOrder /\ ReadSoFar /\ VerdictsRead /\ RxRead)'
  BY <1>1 DEF StatsInv
<1>2. InOrder /\ ReadSoFar /\ VerdictsRead /\ RxRead
  BY DEF StatsInv
<1>3. Types /\ Types'
  BY CountTypes DEF MainInv
<1>4. ASSUME NEW key \in Keys(sample), NEW S \in SUBSET Cpus
      PROVE  /\ Total(Column(key), S) <= Total(Column(key)', S)
             /\ Total(Column(key), S) \in Nat /\ Total(Column(key)', S) \in Nat
             /\ rec[key] \in Nat
  <2>1. Column(key) \in [Cpus -> Nat] /\ \A d \in Cpus : Column(key)[d] = cnt[d][key]
    BY <1>3, ColumnIs
  <2>2. Column(key)' \in [Cpus -> Nat] /\ \A d \in Cpus : Column(key)'[d] = cnt'[d][key]
    BY <1>1, <1>3 DEF Types, Column
  <2>3. ASSUME NEW d \in Cpus PROVE cnt[d][key] <= cnt'[d][key]
    <3>1. cnt[d][key] \in Nat
      BY <1>3 DEF Types
    <3>2. cnt'[d][key] \in {cnt[d][key], cnt[d][key] + 1}
      BY CountMoves
    <3> QED
      BY <3>1, <3>2
  <2>4. IsFiniteSet(Cpus)
    BY SampleAssumption
  <2> DEFINE m == Column(key)
             n == Column(key)'
  <2>5. m \in [Cpus -> Nat] /\ n \in [Cpus -> Nat] /\ \A d \in Cpus : m[d] <= n[d]
    BY <2>1, <2>2, <2>3
  <2> HIDE DEF m, n
  <2>6. /\ IsFiniteSet(S)
        /\ [d \in S |-> m[d]] \in [S -> Nat] /\ [d \in S |-> n[d]] \in [S -> Nat]
        /\ Total(m, S) = Total([d \in S |-> m[d]], S) /\ Total(m, S) \in Nat
        /\ Total(n, S) = Total([d \in S |-> n[d]], S) /\ Total(n, S) \in Nat
    BY <2>4, <2>5, TotalOfPart
  <2>7. Total([d \in S |-> m[d]], S) <= Total([d \in S |-> n[d]], S)
    BY <2>5, <2>6, TotalGrows
  <2> QED
    BY <2>6, <2>7, <1>3 DEF m, n, Types
<1>5. \A k : Read(k)' = Read(k) /\ Read(k) \in SUBSET Cpus /\ Cpus \ Read(k) \in SUBSET Cpus
  BY <1>1 DEF Read
<1>6. InOrder'
  BY <1>1, <1>2 DEF InOrder, Pairs
<1>7. ReadSoFar'
  <2> SUFFICES ASSUME NEW k \in 1 .. Len(Counters(sample))
               PROVE  rec[Counters(sample)[k]] <= Total(Column(Counters(sample)[k])', Read(k))
    BY <1>1, <1>5 DEF ReadSoFar
  <2>1. PICK key : key = Counters(sample)[k]
    OBVIOUS
  <2>2. key \in Keys(sample) /\ rec[key] <= Total(Column(key), Read(k))
    BY <1>2, <2>1, KeysIn DEF ReadSoFar
  <2>3. rec[key] <= Total(Column(key)', Read(k))
    BY <1>4, <1>5, <2>2
  <2>4. Column(Counters(sample)[k])' = Column(key)'
    BY <1>1, <2>1 DEF Column
  <2> QED
    BY <2>1, <2>3, <2>4
<1>8. VerdictsRead'
  <2> SUFFICES ASSUME "rx" \notin missed, \A k \in 1 .. 4 : Read(k) = Cpus
               PROVE  rec["aborted"] + rec["drop"] + rec["pass"] + rec["tx"]
                        <= rec["rx"] + Total(Column("rx")', Cpus \ Read(5))
    BY <1>1, <1>5 DEF VerdictsRead
  <2>1. rec["aborted"] + rec["drop"] + rec["pass"] + rec["tx"]
          <= rec["rx"] + Total(Column("rx"), Cpus \ Read(5))
    BY <1>2 DEF VerdictsRead
  <2>2. /\ Total(Column("rx"), Cpus \ Read(5)) <= Total(Column("rx")', Cpus \ Read(5))
        /\ Total(Column("rx"), Cpus \ Read(5)) \in Nat /\ Total(Column("rx")', Cpus \ Read(5)) \in Nat
    BY <1>4, <1>5, CountingKeys
  <2>3. rec["aborted"] \in Nat /\ rec["drop"] \in Nat /\ rec["pass"] \in Nat
        /\ rec["tx"] \in Nat /\ rec["rx"] \in Nat
    BY <1>3, CountingKeys DEF Types, VerdictSet
  <2> QED
    BY <2>1, <2>2, <2>3
<1>9. RxRead'
  <2> SUFFICES ASSUME sample = "rxhash", Read(5) = Cpus
               PROVE  /\ "L3" \notin missed =>
                           rec["rx"] <= rec["L3"] + Total(Column("L3")', Cpus \ Read(6))
                      /\ "L4" \notin missed =>
                           rec["rx"] <= rec["L4"] + Total(Column("L4")', Cpus \ Read(7))
    BY <1>1, <1>5 DEF RxRead
  <2>1. /\ "L3" \notin missed => rec["rx"] <= rec["L3"] + Total(Column("L3"), Cpus \ Read(6))
        /\ "L4" \notin missed => rec["rx"] <= rec["L4"] + Total(Column("L4"), Cpus \ Read(7))
    BY <1>2 DEF RxRead
  <2>2. "rx" \in Keys(sample) /\ "L3" \in Keys(sample) /\ "L4" \in Keys(sample)
    BY CountingKeys
  <2>3. /\ Total(Column("L3"), Cpus \ Read(6)) <= Total(Column("L3")', Cpus \ Read(6))
        /\ Total(Column("L3"), Cpus \ Read(6)) \in Nat /\ Total(Column("L3")', Cpus \ Read(6)) \in Nat
    BY <1>4, <1>5, <2>2
  <2>4. /\ Total(Column("L4"), Cpus \ Read(7)) <= Total(Column("L4")', Cpus \ Read(7))
        /\ Total(Column("L4"), Cpus \ Read(7)) \in Nat /\ Total(Column("L4")', Cpus \ Read(7)) \in Nat
    BY <1>4, <1>5, <2>2
  <2>5. rec["rx"] \in Nat /\ rec["L3"] \in Nat /\ rec["L4"] \in Nat
    BY <1>3, <2>2 DEF Types
  <2> QED
    BY <2>1, <2>3, <2>4, <2>5
<1> QED
  BY <1>6, <1>7, <1>8, <1>9

(* Until the first of the larger counters is read, what has been read of the *)
(* smaller ones is bounded by what it has counted.                           *)
LEMMA VerdictsFirst ==
  MainInv /\ ProgramInv /\ ReadSoFar /\ sample \in Counting /\ Read(5) = {} => VerdictsRead
<1> SUFFICES ASSUME MainInv, ProgramInv, ReadSoFar, sample \in Counting, Read(5) = {},
                    \A k \in 1 .. 4 : Read(k) = Cpus
             PROVE  rec["aborted"] + rec["drop"] + rec["pass"] + rec["tx"]
                      <= rec["rx"] + Total(Column("rx"), Cpus \ Read(5))
  BY DEF VerdictsRead
<1>1. /\ "aborted" \in Keys(sample) /\ "drop" \in Keys(sample) /\ "pass" \in Keys(sample)
      /\ "tx" \in Keys(sample) /\ "rx" \in Keys(sample)
      /\ Counters(sample)[1] = "aborted" /\ Counters(sample)[2] = "drop"
      /\ Counters(sample)[3] = "pass" /\ Counters(sample)[4] = "tx"
      /\ Len(Counters(sample)) \in {5, 7}
  BY CountingKeys DEF VerdictSet
<1>2. ASSUME NEW key \in Keys(sample) PROVE rec[key] \in Nat /\ Total(Column(key), Cpus) \in Nat
  BY ColumnIs, TotalOfPart, SampleAssumption DEF MainInv, Types
<1>3. \A k \in 1 .. 4 : k \in 1 .. Len(Counters(sample))
  BY <1>1
<1>4. \A k \in 1 .. 4 : rec[Counters(sample)[k]] <= Total(Column(Counters(sample)[k]), Cpus)
  BY <1>3 DEF ReadSoFar
<1>5. /\ rec["aborted"] <= Total(Column("aborted"), Cpus)
      /\ rec["drop"] <= Total(Column("drop"), Cpus)
      /\ rec["pass"] <= Total(Column("pass"), Cpus)
      /\ rec["tx"] <= Total(Column("tx"), Cpus)
  <2>1. 1 \in 1 .. 4 /\ 2 \in 1 .. 4 /\ 3 \in 1 .. 4 /\ 4 \in 1 .. 4
    OBVIOUS
  <2> QED
    BY <1>1, <1>4, <2>1
<1>6. Total(Column("aborted"), Cpus) + Total(Column("drop"), Cpus)
       + Total(Column("pass"), Cpus) + Total(Column("tx"), Cpus) <= Total(Column("rx"), Cpus)
  BY VerdictsWithinRx
<1>7. /\ rec["aborted"] \in Nat /\ rec["drop"] \in Nat /\ rec["pass"] \in Nat
      /\ rec["tx"] \in Nat /\ rec["rx"] \in Nat
      /\ Total(Column("aborted"), Cpus) \in Nat /\ Total(Column("drop"), Cpus) \in Nat
      /\ Total(Column("pass"), Cpus) \in Nat /\ Total(Column("tx"), Cpus) \in Nat
      /\ Total(Column("rx"), Cpus) \in Nat
  BY <1>1, <1>2
<1>8. rec["aborted"] + rec["drop"] + rec["pass"] + rec["tx"]
         <= rec["rx"] + Total(Column("rx"), Cpus)
  BY <1>5, <1>6, <1>7
<1>9. Cpus \ Read(5) = Cpus
  OBVIOUS
<1> QED
  BY <1>8, <1>9

LEMMA RxFirst ==
  MainInv /\ ProgramInv /\ ReadSoFar /\ (sample = "rxhash" => Read(6) = {} /\ Read(7) = {})
    => RxRead
<1> SUFFICES ASSUME MainInv, ProgramInv, ReadSoFar, sample = "rxhash",
                    Read(6) = {}, Read(7) = {}, Read(5) = Cpus
             PROVE  /\ rec["rx"] <= rec["L3"] + Total(Column("L3"), Cpus \ Read(6))
                    /\ rec["rx"] <= rec["L4"] + Total(Column("L4"), Cpus \ Read(7))
  BY DEF RxRead
<1>1. /\ "rx" \in Keys(sample) /\ "L3" \in Keys(sample) /\ "L4" \in Keys(sample)
      /\ Counters(sample)[5] = "rx" /\ 5 \in 1 .. Len(Counters(sample))
  BY CountingKeys DEF Counting
<1>2. ASSUME NEW key \in Keys(sample) PROVE rec[key] \in Nat /\ Total(Column(key), Cpus) \in Nat
  BY ColumnIs, TotalOfPart, SampleAssumption DEF MainInv, Types
<1>3. rec["rx"] <= Total(Column("rx"), Cpus)
  BY <1>1 DEF ReadSoFar
<1>4. /\ Total(Column("rx"), Cpus) <= Total(Column("L3"), Cpus)
      /\ Total(Column("rx"), Cpus) <= Total(Column("L4"), Cpus)
  BY RxWithinHashes
<1>5. /\ rec["rx"] \in Nat /\ rec["L3"] \in Nat /\ rec["L4"] \in Nat
      /\ Total(Column("rx"), Cpus) \in Nat
      /\ Total(Column("L3"), Cpus) \in Nat /\ Total(Column("L4"), Cpus) \in Nat
  BY <1>1, <1>2
<1>6. Cpus \ Read(6) = Cpus /\ Cpus \ Read(7) = Cpus
  OBVIOUS
<1>7. /\ rec["rx"] <= rec["L3"] + Total(Column("L3"), Cpus)
      /\ rec["rx"] <= rec["L4"] + Total(Column("L4"), Cpus)
  BY <1>3, <1>4, <1>5
<1> QED
  BY <1>6, <1>7

(* A new record.                                                             *)
LEMMA NothingRead ==
  MainInv /\ ProgramInv /\ rd = {} /\ (\A k \in Keys(sample) : rec[k] = 0) => StatsInv
<1> SUFFICES ASSUME MainInv, ProgramInv, rd = {}, \A k \in Keys(sample) : rec[k] = 0,
                    sample \in Counting
             PROVE  InOrder /\ ReadSoFar /\ VerdictsRead /\ RxRead
  BY DEF StatsInv
<1>1. \A k : Read(k) = {}
  BY DEF Read
<1>2. ReadSoFar
  <2> SUFFICES ASSUME NEW k \in 1 .. Len(Counters(sample))
               PROVE  rec[Counters(sample)[k]] <= Total(Column(Counters(sample)[k]), Read(k))
    BY DEF ReadSoFar
  <2>1. PICK key \in Keys(sample) : key = Counters(sample)[k]
    BY KeysIn
  <2>2. rec[key] = 0 /\ Total(Column(key), Read(k)) = 0
    BY <1>1, TotalEmpty
  <2> QED
    BY <2>1, <2>2
<1>3. InOrder
  BY DEF InOrder
<1> QED
  BY <1>1, <1>2, <1>3, VerdictsFirst, RxFirst

LEMMA RecordStarts ==
  ASSUME MainInv', ProgramInv', NewRecord, UNCHANGED sample
  PROVE  StatsInv'
<1>1. (MainInv /\ ProgramInv /\ rd = {} /\ (\A k \in Keys(sample) : rec[k] = 0))'
  BY DEF NewRecord
<1> QED
  BY <1>1, NothingRead, PTL

LEMMA InitStats == Init => StatsInv
BY InitMain, InitPrograms, NothingRead DEF Init

LEMMA StatsKept ==
  ASSUME StatsInv, UNCHANGED <<sample, cnt, stats>>
  PROVE  StatsInv'
BY DEF StatsInv, InOrder, ReadSoFar, VerdictsRead, RxRead, Read, Column, Pairs, stats

(* The lookup of a counter fails: it stays 0, and counts as read.            *)
LEMMA LookupFailsStats ==
  ASSUME MainInv, ProgramInv, StatsInv, LookupFails, sample \in Counting, ProgramInv'
  PROVE  StatsInv'
<1>1. UNCHANGED <<sample, cnt, rec>> /\ MainInv' /\ rd # Pairs(sample)
  BY LookupFailsTypes DEF LookupFails, user, kernel, Counting
<1>2. PICK k \in 1 .. Len(Counters(sample)) :
             /\ rd = {p \in Pairs(sample) : p[1] < k}
             /\ rd' = rd \cup ({k} \X Cpus)
             /\ missed' = missed \cup {Counters(sample)[k]}
  BY DEF LookupFails, Counting
<1>3. InOrder /\ ReadSoFar /\ VerdictsRead /\ RxRead
  BY DEF StatsInv
<1>8. Len(Counters(sample)) \in {5, 7} /\ Counters(sample)[5] = "rx"
      /\ (sample = "rxhash" => /\ Len(Counters(sample)) = 7
                               /\ Counters(sample)[6] = "L3" /\ Counters(sample)[7] = "L4")
  BY CountingKeys
<1>4. \A i \in 1 .. Len(Counters(sample)) :
         /\ i < k => Read(i) = Cpus /\ Read(i)' = Cpus
         /\ i = k => Read(i) = {} /\ Read(i)' = Cpus
         /\ i > k => Read(i) = {} /\ Read(i)' = {}
  <2> SUFFICES ASSUME NEW i \in 1 .. Len(Counters(sample))
               PROVE  /\ i < k => Read(i) = Cpus /\ Read(i)' = Cpus
                      /\ i = k => Read(i) = {} /\ Read(i)' = Cpus
                      /\ i > k => Read(i) = {} /\ Read(i)' = {}
    OBVIOUS
  <2>1. \A c \in Cpus : <<i, c>> \in Pairs(sample) /\ <<i, c>>[1] = i
    BY DEF Pairs
  <2>2. \A c \in Cpus : /\ <<i, c>> \in rd <=> i < k
                        /\ <<i, c>> \in rd' <=> (i < k \/ i = k)
    BY <1>2, <2>1
  <2>3. /\ i < k => i # k /\ ~(i > k)
        /\ i = k => ~(i < k) /\ ~(i > k)
        /\ i > k => ~(i < k) /\ i # k
    OBVIOUS
  <2> QED
    BY <2>2, <2>3 DEF Read
<1>5. PICK c \in Cpus : TRUE
  <2>1. Cpus = {} => Pairs(sample) = {}
    BY DEF Pairs
  <2> QED
    BY <1>1, <1>2, <2>1
<1>6. InOrder'
  <2> SUFFICES ASSUME NEW p \in rd', NEW q \in Pairs(sample), q[1] < p[1] PROVE q \in rd'
    BY <1>1 DEF InOrder
  <2>1. CASE p \in rd
    BY <1>2, <1>3, <2>1 DEF InOrder
  <2>2. CASE p \in {k} \X Cpus
    <3>1. p[1] = k
      BY <2>2
    <3> QED
      BY <1>2, <3>1
  <2> QED
    BY <1>2, <2>1, <2>2
<1>7. ReadSoFar'
  <2> SUFFICES ASSUME NEW i \in 1 .. Len(Counters(sample))
               PROVE  rec[Counters(sample)[i]] <= Total(Column(Counters(sample)[i]), Read(i)')
    BY <1>1 DEF ReadSoFar, Column
  <2>1. rec[Counters(sample)[i]] <= Total(Column(Counters(sample)[i]), Read(i))
    BY <1>3 DEF ReadSoFar
  <2>2. CASE i # k
    <3>1. i < k \/ i > k
      BY <1>8, <2>2
    <3>2. Read(i)' = Read(i)
      BY <1>4, <3>1
    <3> QED
      BY <2>1, <3>2
  <2>3. CASE i = k
    <3>1. PICK key \in Keys(sample) : key = Counters(sample)[i]
      BY KeysIn
    <3>2. rec[key] \in Nat /\ Total(Column(key), Cpus) \in Nat /\ Total(Column(key), {}) = 0
      <4>1. rec[key] \in Nat
        BY DEF MainInv, Types
      <4>2. Column(key) \in [Cpus -> Nat]
        BY ColumnIs DEF MainInv
      <4> QED
        BY <4>1, <4>2, TotalOfPart, TotalEmpty, SampleAssumption
    <3>3. Read(i) = {} /\ Read(i)' = Cpus
      BY <1>4, <2>3
    <3>4. rec[key] <= Total(Column(key), {})
      BY <2>1, <3>1, <3>3
    <3>5. rec[key] <= Total(Column(key), Cpus)
      BY <3>2, <3>4
    <3> QED
      BY <3>1, <3>3, <3>5
  <2> QED
    BY <2>2, <2>3
<1>9. VerdictsRead'
  <2>1. CASE k < 5
    <3>1. Read(5)' = {}
      BY <1>4, <1>8, <2>1
    <3>2. (MainInv /\ ProgramInv /\ ReadSoFar /\ sample \in Counting /\ Read(5) = {})'
      BY <1>1, <1>7, <3>1
    <3> QED
      BY <3>2, VerdictsFirst, PTL
  <2>2. CASE k = 5
    BY <1>2, <1>8, <2>2 DEF VerdictsRead
  <2>3. CASE k > 5
    <3>1. \A i \in 1 .. 5 : i \in 1 .. Len(Counters(sample)) /\ i < k
      BY <1>8, <2>3
    <3>2. \A i \in 1 .. 4 : i \in 1 .. 5
      OBVIOUS
    <3>3. 5 \in 1 .. 5
      OBVIOUS
    <3>4. (\A i \in 1 .. 4 : Read(i) = Cpus) /\ Read(5)' = Read(5)
      BY <1>4, <3>1, <3>2, <3>3
    <3>5. "rx" \notin missed' => "rx" \notin missed
      BY <1>2
    <3> QED
      BY <1>1, <1>3, <3>4, <3>5 DEF VerdictsRead, Column
  <2> QED
    BY <2>1, <2>2, <2>3
<1>10. RxRead'
  <2> SUFFICES ASSUME sample = "rxhash" PROVE RxRead'
    BY <1>1 DEF RxRead
  <2>1. CASE k <= 5
    <3>1. 6 \in 1 .. Len(Counters(sample)) /\ 7 \in 1 .. Len(Counters(sample)) /\ 6 > k /\ 7 > k
      BY <1>8, <2>1
    <3>2. Read(6)' = {} /\ Read(7)' = {}
      BY <1>4, <3>1
    <3>3. (/\ MainInv /\ ProgramInv /\ ReadSoFar
           /\ sample = "rxhash" => Read(6) = {} /\ Read(7) = {})'
      BY <1>1, <1>7, <3>2
    <3> QED
      BY <3>3, RxFirst, PTL
  <2>2. CASE k = 6
    <3>1. 5 \in 1 .. Len(Counters(sample)) /\ 7 \in 1 .. Len(Counters(sample)) /\ 5 < k /\ 7 > k
      BY <1>8, <2>2
    <3>2. Read(5) = Cpus /\ Read(7)' = Read(7)
      BY <1>4, <3>1
    <3>3. "L3" \in missed' /\ ("L4" \notin missed' => "L4" \notin missed)
      BY <1>2, <1>8, <2>2
    <3> QED
      BY <1>1, <1>3, <3>2, <3>3 DEF RxRead, Column
  <2>3. CASE k = 7
    <3>1. 5 \in 1 .. Len(Counters(sample)) /\ 6 \in 1 .. Len(Counters(sample)) /\ 5 < k /\ 6 < k
      BY <1>8, <2>3
    <3>2. Read(5) = Cpus /\ Read(6)' = Read(6)
      BY <1>4, <3>1
    <3>3. "L4" \in missed' /\ ("L3" \notin missed' => "L3" \notin missed)
      BY <1>2, <1>8, <2>3
    <3> QED
      BY <1>1, <1>3, <3>2, <3>3 DEF RxRead, Column
  <2>4. k \in 1 .. 7
    BY <1>8
  <2> QED
    BY <2>1, <2>2, <2>3, <2>4
<1> QED
  BY <1>6, <1>7, <1>9, <1>10 DEF StatsInv

(* One counter of one CPU is read.                                           *)
LEMMA CollectReads ==
  ASSUME MainInv, ProgramInv, StatsInv, Collect, rd # Pairs(sample), sample \in Counting,
         ProgramInv'
  PROVE  StatsInv'
<1>00. MainInv'
  BY CollectTypes
<1> USE DEF MainInv
<1>1. PICK p \in Pairs(sample) \ rd :
             /\ \A q \in Pairs(sample) \ rd : p = q \/ Before(sample, p, q)
             /\ rd' = rd \cup {p}
             /\ rec' = [rec EXCEPT ![Counters(sample)[p[1]]] =
                                      @ + cnt[p[2]][Counters(sample)[p[1]]]]
  BY DEF Collect
<1>2. PICK j, c : p = <<j, c>> /\ j \in 1 .. Len(Counters(sample)) /\ c \in Cpus
  BY DEF Pairs
<1>3. PICK key : key = Counters(sample)[j]
  OBVIOUS
<1>4. /\ UNCHANGED <<sample, cnt, missed>> /\ key \in Keys(sample) /\ p \notin rd
      /\ rec' = [rec EXCEPT ![key] = @ + cnt[c][key]] /\ rd' = rd \cup {<<j, c>>}
  BY <1>1, <1>2, <1>3, KeysIn DEF Collect, user, kernel
<1>5. InOrder /\ ReadSoFar /\ VerdictsRead /\ RxRead
  BY DEF StatsInv
<1>0. IsFiniteSet(Cpus)
  BY SampleAssumption
<1>6. ASSUME NEW k \in Keys(sample)
      PROVE  /\ Column(k)' = Column(k) /\ Column(k) \in [Cpus -> Nat]
             /\ Column(k)[c] = cnt[c][k] /\ cnt[c][k] \in Nat /\ rec[k] \in Nat
             /\ rec'[k] = IF k = key THEN rec[k] + cnt[c][k] ELSE rec[k]
             /\ rec'[k] \in Nat
             /\ \A S \in SUBSET Cpus : Total(Column(k), S) \in Nat
  <2>1. Column(k)' = Column(k)
    BY <1>4 DEF Column
  <2>2. Column(k) \in [Cpus -> Nat] /\ Column(k)[c] = cnt[c][k]
    BY <1>2, ColumnIs
  <2>3. cnt[c][k] \in Nat /\ rec[k] \in Nat
    BY <1>2 DEF Types
  <2>4. rec'[k] = IF k = key THEN rec[k] + cnt[c][k] ELSE rec[k]
    BY <1>4 DEF Types
  <2>5. \A S \in SUBSET Cpus : Total(Column(k), S) \in Nat
    BY <2>2, TotalOfPart, SampleAssumption
  <2> QED
    BY <2>1, <2>2, <2>3, <2>4, <2>5
<1>7. /\ \A k : k # j => Read(k)' = Read(k)
      /\ Read(j)' = Read(j) \cup {c} /\ c \notin Read(j) /\ c \in Cpus
      /\ \A k : Read(k) \in SUBSET Cpus /\ Read(k)' \in SUBSET Cpus
  BY <1>1, <1>2, <1>4 DEF Read
<1>8. \A q \in Pairs(sample) : q[1] < j => q \in rd
  <2>1. ASSUME NEW q \in Pairs(sample), q[1] < j, q \notin rd PROVE FALSE
    <3>1. p = q \/ Before(sample, p, q)
      BY <1>1, <2>1
    <3>2. q[1] \in Int /\ j \in Int /\ p[1] = j
      BY <1>2 DEF Pairs
    <3>3. j < q[1] \/ j = q[1]
      BY <3>1, <3>2 DEF Before, Counting
    <3> QED
      BY <2>1, <3>2, <3>3
  <2> QED
    BY <2>1
<1>9. \A k \in 1 .. Len(Counters(sample)) : k > j => Read(k) = {}
  <2>1. ASSUME NEW k \in 1 .. Len(Counters(sample)), k > j, NEW d \in Read(k) PROVE FALSE
    <3>1. <<k, d>> \in rd
      BY DEF Read
    <3>2. <<j, c>> \in Pairs(sample) /\ <<j, c>> \notin rd /\ j < k /\ <<k, d>>[1] = k
      BY <1>1, <1>2, <2>1
    <3> QED
      BY <1>5, <3>1, <3>2 DEF InOrder
  <2> QED
    BY <2>1
<1>10. InOrder'
  <2> SUFFICES ASSUME NEW r \in rd', NEW q \in Pairs(sample), q[1] < r[1]
               PROVE  q \in rd'
    BY <1>4 DEF InOrder
  <2>1. CASE r \in rd
    BY <1>4, <1>5, <2>1 DEF InOrder
  <2>2. CASE r = <<j, c>>
    <3>1. r[1] = j
      BY <2>2
    <3> QED
      BY <1>4, <1>8, <3>1
  <2> QED
    BY <1>4, <2>1, <2>2
<1>11. Total(Column(key), Read(j)') = Total(Column(key), Read(j)) + cnt[c][key]
  <2>1. PICK m \in [Cpus -> Nat] : m = Column(key) /\ m[c] = cnt[c][key]
    BY <1>4, <1>6
  <2>2. PICK S \in SUBSET Cpus : S = Read(j) /\ c \in Cpus \ S
    BY <1>7
  <2>3. Total(m, S \cup {c}) = Total(m, S) + m[c]
    BY <1>0, <2>1, <2>2, TotalPlus
  <2> QED
    BY <1>7, <2>1, <2>2, <2>3
<1>12. Total(Column(key), Cpus \ Read(j)) = Total(Column(key), Cpus \ Read(j)') + cnt[c][key]
  <2>1. PICK m \in [Cpus -> Nat] : m = Column(key) /\ m[c] = cnt[c][key]
    BY <1>4, <1>6
  <2>2. PICK S \in SUBSET Cpus : S = Cpus \ Read(j)' /\ c \in Cpus \ S
    BY <1>7
  <2>3. Total(m, S \cup {c}) = Total(m, S) + m[c]
    BY <1>0, <2>1, <2>2, TotalPlus
  <2>4. S \cup {c} = Cpus \ Read(j)
    BY <1>7, <2>2
  <2> QED
    BY <2>1, <2>2, <2>3, <2>4
<1>13. \A k \in 1 .. Len(Counters(sample)) : Counters(sample)[k] = key => k = j
  BY <1>2, <1>3, KeysApart
<1>14. ReadSoFar'
  <2> SUFFICES ASSUME NEW k \in 1 .. Len(Counters(sample))
               PROVE  rec'[Counters(sample)[k]] <= Total(Column(Counters(sample)[k])', Read(k)')
    BY <1>4 DEF ReadSoFar
  <2>1. PICK key2 : key2 = Counters(sample)[k]
    OBVIOUS
  <2>2. /\ key2 \in Keys(sample) /\ Column(Counters(sample)[k])' = Column(key2)
        /\ rec[key2] <= Total(Column(key2), Read(k))
    BY <1>4, <1>5, <2>1, KeysIn DEF Column, ReadSoFar
  <2>3. CASE k = j
    <3>1. key2 = key
      BY <1>3, <2>1, <2>3
    <3>2. rec'[key] = rec[key] + cnt[c][key] /\ rec[key] \in Nat /\ cnt[c][key] \in Nat
          /\ Total(Column(key), Read(j)) \in Nat
      BY <1>4, <1>6, <1>7
    <3>3. rec'[key] <= Total(Column(key), Read(j)')
      BY <1>11, <2>2, <2>3, <3>1, <3>2
    <3> QED
      BY <2>1, <2>2, <2>3, <3>1, <3>3
  <2>4. CASE k # j
    <3>1. key2 # key /\ Read(k)' = Read(k)
      BY <1>7, <1>13, <2>1, <2>4
    <3>2. rec'[key2] = rec[key2]
      BY <1>6, <2>2, <3>1
    <3> QED
      BY <2>1, <2>2, <3>1, <3>2
  <2> QED
    BY <2>3, <2>4
<1>15. /\ "aborted" \in Keys(sample) /\ "drop" \in Keys(sample) /\ "pass" \in Keys(sample)
       /\ "tx" \in Keys(sample) /\ "rx" \in Keys(sample)
       /\ Counters(sample)[1] = "aborted" /\ Counters(sample)[2] = "drop"
       /\ Counters(sample)[3] = "pass" /\ Counters(sample)[4] = "tx" /\ Counters(sample)[5] = "rx"
       /\ 1 .. 5 \subseteq 1 .. Len(Counters(sample))
  BY CountingKeys DEF VerdictSet
<1>16. /\ key = "rx" <=> j = 5
       /\ j > 4 => key # "aborted" /\ key # "drop" /\ key # "pass" /\ key # "tx"
  <2>1. 1 \in 1 .. Len(Counters(sample)) /\ 2 \in 1 .. Len(Counters(sample))
        /\ 3 \in 1 .. Len(Counters(sample)) /\ 4 \in 1 .. Len(Counters(sample))
        /\ 5 \in 1 .. Len(Counters(sample)) /\ j \in Int
    BY <1>2, <1>15
  <2> QED
    BY <1>3, <1>13, <1>15, <2>1
<1>17. ASSUME j > 4 PROVE VerdictsRead'
  <2> SUFFICES ASSUME "rx" \notin missed, \A k \in 1 .. 4 : Read(k)' = Cpus
               PROVE  rec'["aborted"] + rec'["drop"] + rec'["pass"] + rec'["tx"]
                        <= rec'["rx"] + Total(Column("rx"), Cpus \ Read(5)')
    BY <1>4, <1>6, <1>15 DEF VerdictsRead
  <2>2. CASE j > 4
    <3>1. \A k \in 1 .. 4 : Read(k) = Cpus
      BY <1>2, <1>7, <2>2
    <3>2. rec["aborted"] + rec["drop"] + rec["pass"] + rec["tx"]
            <= rec["rx"] + Total(Column("rx"), Cpus \ Read(5))
      BY <1>5, <3>1 DEF VerdictsRead
    <3>3. /\ rec'["aborted"] = rec["aborted"] /\ rec'["drop"] = rec["drop"]
          /\ rec'["pass"] = rec["pass"] /\ rec'["tx"] = rec["tx"]
      BY <1>6, <1>15, <1>16, <2>2
    <3>4. /\ rec["aborted"] \in Nat /\ rec["drop"] \in Nat /\ rec["pass"] \in Nat
          /\ rec["tx"] \in Nat /\ rec["rx"] \in Nat
      BY <1>6, <1>15
    <3>5. CASE j = 5
      <4>1. key = "rx"
        BY <1>16, <3>5
      <4>2. rec'["rx"] = rec["rx"] + cnt[c]["rx"] /\ cnt[c]["rx"] \in Nat
        BY <1>6, <1>15, <4>1
      <4>3. Total(Column("rx"), Cpus \ Read(5)) = Total(Column("rx"), Cpus \ Read(5)') + cnt[c]["rx"]
        BY <1>12, <3>5, <4>1
      <4>4. Total(Column("rx"), Cpus \ Read(5)') \in Nat
        BY <1>6, <1>15
      <4> QED
        BY <3>2, <3>3, <3>4, <4>2, <4>3, <4>4
    <3>6. CASE j # 5
      <4>1. rec'["rx"] = rec["rx"] /\ Read(5)' = Read(5)
        BY <1>6, <1>7, <1>15, <1>16, <3>6
      <4> QED
        BY <3>2, <3>3, <4>1
    <3> QED
      BY <3>5, <3>6
  <2> QED
    BY <1>17, <2>2
<1>19. ASSUME j <= 4 PROVE VerdictsRead'
  <2>1. Read(5)' = {}
    BY <1>2, <1>7, <1>9, <1>15, <1>19
  <2>2. (MainInv /\ ProgramInv /\ ReadSoFar /\ sample \in Counting /\ Read(5) = {})'
    BY <1>00, <1>4, <1>14, <2>1
  <2> QED
    BY <2>2, VerdictsFirst, PTL
<1>20. ASSUME sample = "rxhash", j <= 5 PROVE RxRead'
  <2>1. Len(Counters(sample)) = 7
    BY <1>20, CountingKeys
  <2>2. Read(6)' = {} /\ Read(7)' = {}
    <3>1. 6 \in 1 .. Len(Counters(sample)) /\ 7 \in 1 .. Len(Counters(sample))
      BY <2>1
    <3>2. 6 > j /\ 7 > j /\ 6 # j /\ 7 # j
      BY <1>2, <1>20, <2>1
    <3> QED
      BY <1>7, <1>9, <3>1, <3>2
  <2>3. (/\ MainInv /\ ProgramInv /\ ReadSoFar
         /\ sample = "rxhash" => Read(6) = {} /\ Read(7) = {})'
    BY <1>00, <1>14, <2>2
  <2> QED
    BY <2>3, RxFirst, PTL
<1>18. ASSUME j > 5 PROVE RxRead'
  <2> SUFFICES ASSUME sample = "rxhash", Read(5)' = Cpus
               PROVE  /\ "L3" \notin missed =>
                           rec'["rx"] <= rec'["L3"] + Total(Column("L3")', Cpus \ Read(6)')
                      /\ "L4" \notin missed =>
                           rec'["rx"] <= rec'["L4"] + Total(Column("L4")', Cpus \ Read(7)')
    BY <1>4 DEF RxRead
  <2>1. /\ Len(Counters(sample)) = 7 /\ Counters(sample)[6] = "L3" /\ Counters(sample)[7] = "L4"
        /\ "L3" \in Keys(sample) /\ "L4" \in Keys(sample) /\ 5 \in 1 .. 7 /\ 6 \in 1 .. 7 /\ 7 \in 1 .. 7
    BY CountingKeys
  <2>2. (key = "L3" <=> j = 6) /\ (key = "L4" <=> j = 7)
    BY <1>2, <1>3, <1>13, <2>1
  <2>3. /\ rec["rx"] \in Nat /\ rec["L3"] \in Nat /\ rec["L4"] \in Nat
        /\ rec'["L3"] \in Nat /\ rec'["L4"] \in Nat
        /\ Column("L3")' = Column("L3") /\ Column("L4")' = Column("L4")
        /\ Total(Column("L3"), Cpus \ Read(6)') \in Nat
        /\ Total(Column("L4"), Cpus \ Read(7)') \in Nat
    BY <1>6, <1>15, <2>1
  <2>6. CASE j > 5
    <3>1. Read(5) = Cpus /\ rec'["rx"] = rec["rx"]
      BY <1>6, <1>7, <1>15, <1>16, <2>6
    <3>2. /\ "L3" \notin missed => rec["rx"] <= rec["L3"] + Total(Column("L3"), Cpus \ Read(6))
          /\ "L4" \notin missed => rec["rx"] <= rec["L4"] + Total(Column("L4"), Cpus \ Read(7))
      BY <1>5, <3>1 DEF RxRead
    <3>3. "L3" \notin missed => rec'["rx"] <= rec'["L3"] + Total(Column("L3"), Cpus \ Read(6)')
      <4>1. CASE j = 6
        <5>1. key = "L3"
          BY <2>2, <4>1
        <5>2. rec'["L3"] = rec["L3"] + cnt[c]["L3"] /\ cnt[c]["L3"] \in Nat
          BY <1>6, <2>1, <5>1
        <5>3. Total(Column("L3"), Cpus \ Read(6)) = Total(Column("L3"), Cpus \ Read(6)') + cnt[c]["L3"]
          BY <1>12, <4>1, <5>1
        <5> QED
          BY <2>3, <3>1, <3>2, <5>2, <5>3
      <4>2. CASE j # 6
        <5>1. rec'["L3"] = rec["L3"] /\ Read(6)' = Read(6)
          BY <1>6, <1>7, <2>1, <2>2, <4>2
        <5> QED
          BY <3>1, <3>2, <5>1
      <4> QED
        BY <4>1, <4>2
    <3>4. "L4" \notin missed => rec'["rx"] <= rec'["L4"] + Total(Column("L4"), Cpus \ Read(7)')
      <4>1. CASE j = 7
        <5>1. key = "L4"
          BY <2>2, <4>1
        <5>2. rec'["L4"] = rec["L4"] + cnt[c]["L4"] /\ cnt[c]["L4"] \in Nat
          BY <1>6, <2>1, <5>1
        <5>3. Total(Column("L4"), Cpus \ Read(7)) = Total(Column("L4"), Cpus \ Read(7)') + cnt[c]["L4"]
          BY <1>12, <4>1, <5>1
        <5> QED
          BY <2>3, <3>1, <3>2, <5>2, <5>3
      <4>2. CASE j # 7
        <5>1. rec'["L4"] = rec["L4"] /\ Read(7)' = Read(7)
          BY <1>6, <1>7, <2>1, <2>2, <4>2
        <5> QED
          BY <3>1, <3>2, <5>1
      <4> QED
        BY <4>1, <4>2
    <3> QED
      BY <2>3, <3>3, <3>4
  <2> QED
    BY <1>18, <2>6
<1>21. RxRead'
  <2>1. sample # "rxhash" => RxRead'
    BY <1>4 DEF RxRead
  <2> QED
    BY <1>2, <1>18, <1>20, <2>1
<1>22. VerdictsRead'
  BY <1>2, <1>17, <1>19
<1> QED
  BY <1>10, <1>14, <1>21, <1>22 DEF StatsInv

-----------------------------------------------------------------------------
(* The invariant and the theorems *)

LEMMA InitIInv == Init => IInv
BY InitMain, InitPrograms, InitStats DEF IInv

LEMMA NextIInv == IInv /\ [Next]_vars => IInv'
<1> SUFFICES ASSUME IInv, [Next]_vars PROVE IInv'
  OBVIOUS
<1> USE DEF IInv
<1>1. CASE UNCHANGED vars
  <2>1. MainKept /\ UNCHANGED <<kernel, stats>>
    BY <1>1 DEF vars, MainKept
  <2>2. Types'
    BY <2>1 DEF MainInv, Types, MainKept, user, kernel, stats
  <2>3. UNCHANGED <<sample, cnt, stats>> /\ Meant' = Meant /\ at' = at
    BY <2>1 DEF MainKept, user, kernel, Meant
  <2> QED
    BY <2>1, <2>2, <2>3, MainKeptSteps, ProgramsKept, QuietKept, StatsKept DEF MainInv
<1>2. CASE \/ Load \/ Handle \/ Attach \/ Jump12 \/ Jump3 \/ TakeOver \/ ExitMain
           \/ ToolFails \/ (\E s \in {"INT", "TERM", "KILL"} : Signal(s))
  <2>1. MainInv' /\ ConfKept
    BY <1>2, LoadMain, HandleMain, AttachMain, JumpMain, EndMain
  <2>2. CountersKept /\ at' \in {at, at + 1}
    BY <1>2 DEF Load, Handle, Attach, Jump12, Jump3, TakeOver, ExitMain, ToolFails,
                Signal, TailCallsUnchanged, AddProgs, Continue, Exit, IntExit, Die, CountersKept
  <2>3. ProgramInv' /\ Quiet'
    BY <2>1, <2>2, ProgramsKept, QuietKept DEF ConfKept, CountersKept, MainInv
  <2>4. CASE UNCHANGED stats
    BY <2>1, <2>2, <2>3, <2>4, StatsKept DEF CountersKept, kernel
  <2>5. CASE NewRecord
    BY <2>1, <2>2, <2>3, <2>5, RecordStarts DEF CountersKept
  <2> QED
    BY <2>2, <2>4, <2>5 DEF CountersKept
<1>3. CASE SetAction \/ SetTouch \/ SetPattern
  <2>1. UNCHANGED <<sample, cnt, stats>>
    BY <1>3 DEF SetAction, SetTouch, SetPattern, SetMap, Continue, kernel
  <2> QED
    BY <1>3, <2>1, SetMain, SetPrograms, StatsKept
<1>4. CASE Collect \/ LookupFails
  <2>1. UNCHANGED <<sample, at, kernel>> /\ Meant' = Meant
    BY <1>4 DEF Collect, LookupFails, user, Meant
  <2>2. MainInv' /\ ProgramInv' /\ Quiet'
    BY <1>4, <2>1, CollectTypes, LookupFailsTypes, ProgramsKept, QuietKept DEF MainInv
  <2>3. sample \notin Counting => StatsInv'
    BY <2>1 DEF StatsInv
  <2>4. CASE Collect /\ rd = Pairs(sample)
    <3>1. NewRecord
      BY <2>4 DEF Collect
    <3> QED
      BY <2>1, <2>2, <3>1, RecordStarts
  <2>5. CASE Collect /\ rd # Pairs(sample)
    BY <2>2, <2>3, <2>5, CollectReads
  <2>6. CASE LookupFails
    BY <2>2, <2>3, <2>6, LookupFailsStats
  <2> QED
    BY <1>4, <2>4, <2>5, <2>6
<1>5. ASSUME NEW c \in Cpus, Packet(c) PROVE IInv'
  <2>1. UNCHANGED <<sample, cnt, stats>>
    BY <1>5 DEF Packet, user
  <2> QED
    BY <1>5, <2>1, PacketTypes, PacketPrograms, StatsKept
<1>6. ASSUME NEW c \in Cpus, Count(c) PROVE IInv'
  BY <1>6, CountTypes, CountPrograms, CountStats
<1> QED
  BY <1>1, <1>2, <1>3, <1>4, <1>5, <1>6 DEF Next, Main

LEMMA IInvTotals == IInv => TotalsOrdered
<1> SUFFICES ASSUME IInv, Collected, sample \in Counting
             PROVE  /\ "rx" \notin missed =>
                         rec["aborted"] + rec["drop"] + rec["pass"] + rec["tx"] <= rec["rx"]
                    /\ sample = "rxhash" => /\ "L3" \notin missed => rec["rx"] <= rec["L3"]
                                            /\ "L4" \notin missed => rec["rx"] <= rec["L4"]
  BY DEF TotalsOrdered, Counting
<1>1. VerdictsRead /\ RxRead /\ Types
  BY DEF IInv, StatsInv, MainInv
<1>2. \A k \in 1 .. Len(Counters(sample)) : Read(k) = Cpus
  BY DEF Collected, Pairs, Read
<1>3. Len(Counters(sample)) \in {5, 7} /\ (sample = "rxhash" => Len(Counters(sample)) = 7)
  BY CountingKeys
<1>4. (\A k \in 1 .. 4 : Read(k) = Cpus) /\ Read(5) = Cpus
  <2>1. 5 \in 1 .. Len(Counters(sample)) /\ \A k \in 1 .. 4 : k \in 1 .. Len(Counters(sample))
    <3>1. PICK l \in {5, 7} : l = Len(Counters(sample))
      BY <1>3
    <3>2. 5 \in 1 .. l /\ \A k \in 1 .. 4 : k \in 1 .. l
      BY <3>1
    <3> QED
      BY <3>1, <3>2
  <2> QED
    BY <1>2, <2>1
<1>5. Cpus \ Read(5) = {}
  BY <1>4
<1>6. rec["rx"] \in Nat
  BY <1>1, CountingKeys DEF Types
<1>7. "rx" \notin missed =>
        rec["aborted"] + rec["drop"] + rec["pass"] + rec["tx"] <= rec["rx"]
  BY <1>1, <1>4, <1>5, <1>6, TotalEmpty DEF VerdictsRead
<1>8. sample = "rxhash" => /\ "L3" \notin missed => rec["rx"] <= rec["L3"]
                           /\ "L4" \notin missed => rec["rx"] <= rec["L4"]
  <2> SUFFICES ASSUME sample = "rxhash"
               PROVE  /\ "L3" \notin missed => rec["rx"] <= rec["L3"]
                      /\ "L4" \notin missed => rec["rx"] <= rec["L4"]
    OBVIOUS
  <2>0. 6 \in 1 .. Len(Counters(sample)) /\ 7 \in 1 .. Len(Counters(sample))
    <3>1. 6 \in 1 .. 7 /\ 7 \in 1 .. 7
      OBVIOUS
    <3> QED
      BY <1>3, <3>1
  <2>1. Cpus \ Read(6) = {} /\ Cpus \ Read(7) = {}
    BY <1>2, <2>0
  <2>2. rec["L3"] \in Nat /\ rec["L4"] \in Nat
    BY <1>1, CountingKeys DEF Types
  <2>3. /\ "L3" \notin missed => rec["rx"] <= rec["L3"] + Total(Column("L3"), {})
        /\ "L4" \notin missed => rec["rx"] <= rec["L4"] + Total(Column("L4"), {})
    BY <1>1, <1>4, <2>1 DEF RxRead
  <2>4. Total(Column("L3"), {}) = 0 /\ Total(Column("L4"), {}) = 0
    BY TotalEmpty
  <2> QED
    BY <2>2, <2>3, <2>4
<1> QED
  BY <1>7, <1>8

LEMMA IInvVerdicts == IInv => VerdictsAsAsked
<1> SUFFICES ASSUME IInv, NEW c \in Cpus, sample \in Counting, cpu[c] = << >>
             PROVE  IF Meant.action # "none" THEN cnt[c][Meant.action] = cnt[c]["rx"]
                    ELSE IF sample = "rxhash"
                    THEN cnt[c]["aborted"] + cnt[c]["pass"] = cnt[c]["rx"]
                    ELSE IF Meant.type # 1 THEN cnt[c]["drop"] = cnt[c]["rx"]
                    ELSE /\ cnt[c]["drop"] = PatternDrops(cnt[c]["rx"], Meant.n)
                         /\ cnt[c]["pass"] = cnt[c]["rx"] - cnt[c]["drop"]
  BY DEF VerdictsAsAsked, Counting
<1>1. Balance(c) /\ Pattern02(c) /\ Types
  BY DEF IInv, ProgramInv, MainInv
<1>2. /\ cnt[c]["aborted"] \in Nat /\ cnt[c]["drop"] \in Nat /\ cnt[c]["pass"] \in Nat
      /\ cnt[c]["tx"] \in Nat /\ cnt[c]["rx"] \in Nat
  BY <1>1, CountingKeys DEF Types, VerdictSet
<1>3. Due(cpu[c]) = 0 /\ Coming(cpu[c]) = 0 /\ Drops(cpu[c]) = 0
  BY Marks DEF VerdictSet
<1>4. cnt[c]["aborted"] + cnt[c]["drop"] + cnt[c]["pass"] + cnt[c]["tx"] = cnt[c]["rx"]
  BY <1>1, <1>2, <1>3 DEF Balance
<1>5. \A v \in VerdictSet \ Wanted : cnt[c][v] = 0
  BY <1>1 DEF Balance
<1>6. ASSUME NEW v \in {"drop", "pass", "tx"}, Wanted = {v}
      PROVE  cnt[c][v] = cnt[c]["rx"]
  <2>1. /\ cnt[c]["aborted"] = 0
        /\ v # "drop" => cnt[c]["drop"] = 0
        /\ v # "pass" => cnt[c]["pass"] = 0
        /\ v # "tx" => cnt[c]["tx"] = 0
    BY <1>5, <1>6 DEF VerdictSet
  <2>2. CASE v = "drop"
    <3>1. cnt[c]["drop"] = cnt[c]["rx"]
      BY <1>2, <1>4, <2>1, <2>2
    <3> QED
      BY <2>2, <3>1
  <2>3. CASE v = "pass"
    <3>1. cnt[c]["aborted"] = 0 /\ cnt[c]["drop"] = 0 /\ cnt[c]["tx"] = 0
      BY <2>1, <2>3
    <3>2. cnt[c]["pass"] = cnt[c]["rx"]
      BY <1>2, <1>4, <3>1
    <3> QED
      BY <2>3, <3>2
  <2>4. CASE v = "tx"
    <3>1. cnt[c]["aborted"] = 0 /\ cnt[c]["drop"] = 0 /\ cnt[c]["pass"] = 0
      BY <2>1, <2>4
    <3>2. cnt[c]["tx"] = cnt[c]["rx"]
      BY <1>2, <1>4, <3>1
    <3> QED
      BY <2>4, <3>2
  <2> QED
    BY <2>2, <2>3, <2>4
<1>7. CASE Meant.action # "none"
  <2>1. Meant.action \in {"drop", "pass", "tx"} /\ Wanted = {Meant.action}
    BY <1>7, MeantTyped DEF IInv, Confs, Wanted
  <2> QED
    BY <1>6, <1>7, <2>1
<1>8. CASE Meant.action = "none" /\ sample = "rxhash"
  <2>1. Wanted = {"aborted", "pass"}
    BY <1>8 DEF Wanted
  <2> QED
    BY <1>2, <1>4, <1>5, <1>8, <2>1 DEF VerdictSet
<1>9. CASE Meant.action = "none" /\ sample = "bench02" /\ Meant.type # 1
  <2>1. Wanted = {"drop"}
    BY <1>9 DEF Wanted
  <2> QED
    BY <1>6, <1>9, <2>1
<1>10. CASE Meant.action = "none" /\ sample = "bench02" /\ Meant.type = 1
  <2>1. Wanted = {"drop", "pass"}
    BY <1>10 DEF Wanted
  <2>2. cnt[c]["drop"] = PatternDrops(cnt[c]["rx"], Meant.n)
    <3>1. cnt[c]["drop"] + Drops(cpu[c]) = PatternDrops(cnt[c]["rx"] + Coming(cpu[c]), Meant.n)
      BY <1>1, <1>10 DEF Pattern02
    <3>2. cnt[c]["drop"] + Drops(cpu[c]) = cnt[c]["drop"] /\ cnt[c]["rx"] + Coming(cpu[c]) = cnt[c]["rx"]
      BY <1>2, <1>3
    <3> QED
      BY <3>1, <3>2
  <2>3. cnt[c]["aborted"] = 0 /\ cnt[c]["tx"] = 0
    BY <1>5, <2>1 DEF VerdictSet
  <2>4. cnt[c]["pass"] = cnt[c]["rx"] - cnt[c]["drop"]
    BY <1>2, <1>4, <2>3
  <2> QED
    BY <1>10, <2>2, <2>4
<1> QED
  BY <1>7, <1>8, <1>9, <1>10 DEF Counting

LEMMA IInvCalls == IInv => CallsAsMeant
<1> SUFFICES ASSUME IInv, sample = "tail_calls", root # None
             PROVE  /\ root = "xdp"
                    /\ ended = None => /\ AfterCall("xdp") = "xdp_1"
                                       /\ AfterCall("xdp_1") \in {"xdp_5", "xdp_unrelated"}
                                       /\ Entry(2, 40) = "xdp_unrelated"
                    /\ ended # None => AfterCall("xdp") = None
  BY DEF CallsAsMeant
<1>1. at > AttachAt /\ AttachAt = 3 /\ at \in Int
  BY DEF IInv, MainInv, Steps, AttachAt, Types
<1>2. TailCalls /\ at > 2
  BY <1>1 DEF IInv, MainInv
<1>3. CASE ended = None
  BY <1>2, <1>3 DEF TailCalls, AfterCall, Entry
<1>4. CASE ended # None
  <2>1. DOMAIN jump = {}
    BY <1>2, <1>4 DEF TailCalls, NoEntries
  <2> QED
    BY <1>2, <1>4, <2>1 DEF TailCalls, AfterCall, Entry
<1> QED
  BY <1>3, <1>4

(* The invariant of the samples, their programs and their statistics.        *)
THEOREM InvariantHolds == Spec => []IInv
BY InitIInv, NextIInv, PTL DEF Spec

(* The record of stats_poll, read counter by counter while the programs run  *)
(* on, is consistent: no more verdicts than packets, and no more packets     *)
(* than hash types, on any number of CPUs, unless the lookup of the larger   *)
(* side has failed and left a 0 in the record.                               *)
THEOREM RecordsConsistent == Spec => []TotalsOrdered
BY InvariantHolds, IInvTotals, PTL

(* Each CPU gives its packets the verdicts of what main has configured,      *)
(* whatever N the pattern has: those that the command line asked for, or,    *)
(* where main went on after a failed update of a map, those of its default.  *)
THEOREM VerdictsHonest == Spec => []VerdictsAsAsked
BY InvariantHolds, IInvVerdicts, PTL

(* Ctrl-C leaves no program on the device, unless the kernel has refused to  *)
(* remove it.                                                                *)
THEOREM InterruptCleansUp == Spec => []NothingLeft
<1>1. IInv => NothingLeft
  BY DEF IInv, MainInv, Steps, NothingLeft
<1> QED
  BY <1>1, InvariantHolds, PTL

(* The tail calls go where the jump table was meant to lead them, whichever  *)
(* programs the loader has left out, while the process lives, and nowhere    *)
(* after its end.                                                            *)
THEOREM TailCallsLead == Spec => []CallsAsMeant
BY InvariantHolds, IInvCalls, PTL
=============================================================================
