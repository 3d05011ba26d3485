------------------------------ MODULE AlfQueue ------------------------------
(* include/linux/alf_queue.h: the array-based lock-free queue.               *)
(*                                                                           *)
(* Every thread is a CPU inside one inlined function of the header (the      *)
(* callers disable preemption).  A step is one access to shared memory, in   *)
(* program order; q->producer and q->consumer are u32 pairs that wrap at W   *)
(* (2^32 in the code), and a slot of the array is a counter's low bits.      *)
(* The store and load helpers move one element per step, in index order, as  *)
(* their "mask" and "unroll" forms do.                                       *)
EXTENDS Integers, Sequences

CONSTANTS
    Producers, Consumers, Observers,  \* the threads, by what they call
    MultiProducer,  \* TRUE: alf_mp_enqueue, FALSE: alf_sp_enqueue
    MultiConsumer,  \* TRUE: alf_mc_dequeue, FALSE: alf_sc_dequeue
    Size,           \* q->size
    W,              \* the counters are modulo W
    MaxBulk,        \* largest n of a call
    Serials         \* items of a producer are numbered modulo Serials

(* alf_queue_alloc takes powers of two only, so W = 2^32 is a multiple of    *)
(* Size, and Size <= 65536 leaves W far above 2 * Size.                      *)
ASSUME SizeAssumption ==
    /\ Size \in Nat \ {0}
    /\ W \in Nat \ {0}
    /\ W > 2 * Size
    /\ W % Size = 0
    /\ MaxBulk \in Nat \ {0}
    /\ Serials \in Nat \ {0}

(* The "single" variants are for one caller only (alf_queue.h:157,192).      *)
ASSUME ThreadAssumption ==
    /\ MultiProducer \in BOOLEAN
    /\ MultiConsumer \in BOOLEAN
    /\ Producers \cap Consumers = {}
    /\ Producers \cap Observers = {}
    /\ Consumers \cap Observers = {}
    /\ ~MultiProducer => \A p, q \in Producers : p = q
    /\ ~MultiConsumer => \A c, d \in Consumers : c = d

Threads == Producers \cup Consumers \cup Observers
U32     == 0 .. (W - 1)
Item    == Producers \X (0 .. (Serials - 1))

VARIABLES
    prodHead, prodTail,  \* q->producer
    consHead, consTail,  \* q->consumer
    ring,                \* q->ring
    pc,                  \* where each thread is
    n,                   \* the argument: elements asked for
    head,                \* p_head, c_head, or an observer's first load
    elems,               \* p_next - p_head, c_next - c_head
    idx,                 \* loop index of the store and load helpers
    ptr,                 \* the caller's array: given to enqueue, filled by dequeue
    serial,              \* number of a producer's next item
    seen                 \* what an observer's last call returned

shared == <<prodHead, prodTail, consHead, consTail, ring>>
vars   == <<prodHead, prodTail, consHead, consTail, ring,
            pc, n, head, elems, idx, ptr, serial, seen>>

Wrap_Never(x) == x             \* FAULTY: counters wider than u32
Wrap(x)    == x % W
Dist(a, b) == Wrap(a - b)      \* u32 subtraction a - b
Slot(x)    == x % Size         \* x & q->mask

NoItem == <<>>                 \* kzalloc'ed slot

NothingSeen == [op |-> "none", val |-> 0]

InitAt(start) ==
    /\ prodHead = start /\ prodTail = start
    /\ consHead = start /\ consTail = start
    /\ ring   = [s \in 0 .. (Size - 1) |-> NoItem]
    /\ pc     = [t \in Threads |-> "idle"]
    /\ n      = [t \in Threads |-> 0]
    /\ head   = [t \in Threads |-> 0]
    /\ elems  = [t \in Threads |-> 0]
    /\ idx    = [t \in Threads |-> 0]
    /\ ptr    = [t \in Threads |-> << >>]
    /\ serial = [p \in Producers |-> 0]
    /\ seen   = [o \in Observers |-> NothingSeen]

Init == InitAt(0)

(* Back to the caller: the locals die.                                       *)
Return(t) ==
    /\ pc'   = [pc   EXCEPT ![t] = "idle"]
    /\ n'    = [n    EXCEPT ![t] = 0]
    /\ head' = [head EXCEPT ![t] = 0]
    /\ elems' = [elems EXCEPT ![t] = 0]
    /\ idx'  = [idx  EXCEPT ![t] = 0]
    /\ ptr'  = [ptr  EXCEPT ![t] = << >>]

Goto(t, label) == pc' = [pc EXCEPT ![t] = label]

(* Bound: no thread sits between its loads and its cmpxchg while W - Size    *)
(* items pass by.  In the code that is 2^32 - size items during a handful of *)
(* instructions with preemption off; beyond it the cmpxchg would suffer ABA. *)
InFlight == {"ldtail", "cas", "empty", "count", "space"}
NotStale(t, k) ==
    \A u \in Threads \ {t} :
        pc[u] \in InFlight => Dist(prodHead, head[u]) + k + Size < W

(* space and elems, from the first load in head and the second load now      *)
Space_PlusOne(t) == Wrap(Size + consTail - head[t]) + 1    \* FAULTY: off by one
Space_OfHead(t)  == Wrap(Size + consHead - head[t])        \* FAULTY: consumer.head
Space_LessOne(t) == Wrap(Size + consTail - head[t] - 1)    \* FAULTY: keeps a slot free
Space(t)         == Wrap(Size + consTail - head[t])

Avail_LessOne(t) == IF prodTail = head[t] THEN 0 ELSE Dist(prodTail, head[t]) - 1 \* FAULTY
Avail(t)         == Dist(prodTail, head[t])

-----------------------------------------------------------------------------
(* alf_mp_enqueue, alf_sp_enqueue *)

EnqCall(p) ==
    /\ pc[p] = "idle"
    /\ \E k \in 1 .. MaxBulk :
         /\ n'   = [n EXCEPT ![p] = k]
         /\ ptr' = [ptr EXCEPT ![p] =
                      [j \in 1 .. k |-> <<p, (serial[p] + j - 1) % Serials>>]]
    /\ Goto(p, "ldhead")
    /\ UNCHANGED <<shared, head, elems, idx, serial, seen>>

EnqLoadHead(p) ==
    /\ pc[p] = "ldhead"
    /\ head' = [head EXCEPT ![p] = prodHead]
    /\ Goto(p, "ldtail")
    /\ UNCHANGED <<shared, n, elems, idx, ptr, serial, seen>>

EnqLoadTail_Spin(p) ==         \* FAULTY: waits for room, no "return 0"
    /\ pc[p] = "ldtail"
    /\ n[p] <= Space(p)
    /\ elems' = [elems EXCEPT ![p] = n[p]]
    /\ Goto(p, "cas")
    /\ UNCHANGED <<shared, n, head, idx, ptr, serial, seen>>

EnqLoadTail(p) ==
    /\ pc[p] = "ldtail"
    /\ \/ /\ n[p] > Space(p)
          /\ Return(p)
       \/ /\ n[p] <= Space(p)
          /\ elems' = [elems EXCEPT ![p] = n[p]]
          /\ Goto(p, "cas")
          /\ UNCHANGED <<n, head, idx, ptr>>
    /\ UNCHANGED <<shared, serial, seen>>

(* cmpxchg(&q->producer.head, p_head, p_next), or the single producer's store *)
EnqReserve_Plain(p) ==         \* FAULTY: a store where a cmpxchg is needed
    /\ pc[p] = "cas"
    /\ prodHead' = Wrap(head[p] + elems[p])
    /\ Goto(p, "store")
    /\ UNCHANGED <<prodTail, consHead, consTail, ring,
                   n, head, elems, idx, ptr, serial, seen>>

EnqReserve_Early(p) ==         \* FAULTY: producer.tail moves before the stores
    /\ pc[p] = "cas"
    /\ prodHead' = Wrap(head[p] + elems[p])
    /\ prodTail' = prodHead'
    /\ Goto(p, "store")
    /\ UNCHANGED <<consHead, consTail, ring,
                   n, head, elems, idx, ptr, serial, seen>>

EnqReserve(p) ==
    /\ pc[p] = "cas"
    /\ MultiProducer => prodHead = head[p]
    /\ NotStale(p, elems[p])
    /\ prodHead' = Wrap(head[p] + elems[p])
    /\ Goto(p, "store")
    /\ UNCHANGED <<prodTail, consHead, consTail, ring,
                   n, head, elems, idx, ptr, serial, seen>>

EnqRetry(p) ==
    /\ pc[p] = "cas"
    /\ MultiProducer
    /\ prodHead # head[p]
    /\ Goto(p, "ldhead")
    /\ UNCHANGED <<shared, n, head, elems, idx, ptr, serial, seen>>

EnqStore(p) ==
    /\ pc[p] = "store"
    /\ ring' = [ring EXCEPT ![Slot(head[p] + idx[p])] = ptr[p][idx[p] + 1]]
    /\ idx'  = [idx EXCEPT ![p] = idx[p] + 1]
    /\ \/ /\ idx[p] + 1 < elems[p]
          /\ UNCHANGED pc
       \/ /\ idx[p] + 1 = elems[p]
          /\ Goto(p, IF MultiProducer THEN "wait" ELSE "publish")
    /\ UNCHANGED <<prodHead, prodTail, consHead, consTail,
                   n, head, elems, ptr, serial, seen>>

(* while (ACCESS_ONCE(q->producer.tail) != p_head) cpu_relax(); *)
EnqWait_None(p) ==             \* FAULTY: publishes out of order
    /\ pc[p] = "wait"
    /\ Goto(p, "publish")
    /\ UNCHANGED <<shared, n, head, elems, idx, ptr, serial, seen>>

EnqWait_Next(p) ==             \* FAULTY: waits for p_next
    /\ pc[p] = "wait"
    /\ prodTail = Wrap(head[p] + elems[p])
    /\ Goto(p, "publish")
    /\ UNCHANGED <<shared, n, head, elems, idx, ptr, serial, seen>>

EnqWait(p) ==
    /\ pc[p] = "wait"
    /\ prodTail = head[p]
    /\ Goto(p, "publish")
    /\ UNCHANGED <<shared, n, head, elems, idx, ptr, serial, seen>>

EnqPublish(p) ==
    /\ pc[p] = "publish"
    /\ prodTail' = Wrap(head[p] + elems[p])
    /\ serial' = [serial EXCEPT ![p] = (serial[p] + elems[p]) % Serials]
    /\ Return(p)
    /\ UNCHANGED <<prodHead, consHead, consTail, ring, seen>>

Enqueue(p) ==
    \/ EnqLoadHead(p) \/ EnqLoadTail(p) \/ EnqReserve(p) \/ EnqRetry(p)
    \/ EnqStore(p) \/ EnqWait(p) \/ EnqPublish(p)

-----------------------------------------------------------------------------
(* alf_mc_dequeue, alf_sc_dequeue *)

DeqCall(c) ==
    /\ pc[c] = "idle"
    /\ \E k \in 1 .. MaxBulk : n' = [n EXCEPT ![c] = k]
    /\ Goto(c, "ldhead")
    /\ UNCHANGED <<shared, head, elems, idx, ptr, serial, seen>>

DeqLoadHead(c) ==
    /\ pc[c] = "ldhead"
    /\ head' = [head EXCEPT ![c] = consHead]
    /\ Goto(c, "ldtail")
    /\ UNCHANGED <<shared, n, elems, idx, ptr, serial, seen>>

DeqLoadTail_Spin(c) ==         \* FAULTY: waits for an item, no "return 0"
    /\ pc[c] = "ldtail"
    /\ Avail(c) # 0
    /\ elems' = [elems EXCEPT ![c] = IF Avail(c) < n[c] THEN Avail(c) ELSE n[c]]
    /\ Goto(c, "cas")
    /\ UNCHANGED <<shared, n, head, idx, ptr, serial, seen>>

DeqLoadTail(c) ==
    /\ pc[c] = "ldtail"
    /\ \/ /\ Avail(c) = 0
          /\ Return(c)
       \/ /\ Avail(c) # 0
          /\ elems' = [elems EXCEPT ![c] = IF Avail(c) < n[c] THEN Avail(c) ELSE n[c]]
          /\ Goto(c, "cas")
          /\ UNCHANGED <<n, head, idx, ptr>>
    /\ UNCHANGED <<shared, serial, seen>>

(* cmpxchg(&q->consumer.head, c_head, c_next), or the single consumer's store *)
DeqReserve(c) ==
    /\ pc[c] = "cas"
    /\ MultiConsumer => consHead = head[c]
    /\ consHead' = Wrap(head[c] + elems[c])
    /\ Goto(c, "load")
    /\ UNCHANGED <<prodHead, prodTail, consTail, ring,
                   n, head, elems, idx, ptr, serial, seen>>

DeqRetry(c) ==
    /\ pc[c] = "cas"
    /\ MultiConsumer
    /\ consHead # head[c]
    /\ Goto(c, "ldhead")
    /\ UNCHANGED <<shared, n, head, elems, idx, ptr, serial, seen>>

DeqLoad(c) ==
    /\ pc[c] = "load"
    /\ ptr' = [ptr EXCEPT ![c] = Append(ptr[c], ring[Slot(head[c] + idx[c])])]
    /\ idx' = [idx EXCEPT ![c] = idx[c] + 1]
    /\ \/ /\ idx[c] + 1 < elems[c]
          /\ UNCHANGED pc
       \/ /\ idx[c] + 1 = elems[c]
          /\ Goto(c, IF MultiConsumer THEN "wait" ELSE "publish")
    /\ UNCHANGED <<shared, n, head, elems, serial, seen>>

DeqWait(c) ==
    /\ pc[c] = "wait"
    /\ consTail = head[c]
    /\ Goto(c, "publish")
    /\ UNCHANGED <<shared, n, head, elems, idx, ptr, serial, seen>>

DeqPublish(c) ==
    /\ pc[c] = "publish"
    /\ consTail' = Wrap(head[c] + elems[c])
    /\ Return(c)
    /\ UNCHANGED <<prodHead, prodTail, consHead, ring, serial, seen>>

Dequeue(c) ==
    \/ DeqLoadHead(c) \/ DeqLoadTail(c) \/ DeqReserve(c) \/ DeqRetry(c)
    \/ DeqLoad(c) \/ DeqWait(c) \/ DeqPublish(c)

-----------------------------------------------------------------------------
(* alf_queue_empty, alf_queue_count, alf_queue_avail_space: two loads each   *)

FirstLoad_Head(op) ==          \* FAULTY: alf_queue_empty asks consumer.head
    IF op = "space" THEN prodHead ELSE consHead

FirstLoad(op) ==
    CASE op = "empty" -> consTail
      [] op = "count" -> consHead
      [] op = "space" -> prodHead

ObsCall(o) ==
    /\ pc[o] = "idle"
    /\ \E op \in {"empty", "count", "space"} :
         /\ Goto(o, op)
         /\ head' = [head EXCEPT ![o] = FirstLoad(op)]
    /\ seen' = [seen EXCEPT ![o] = NothingSeen]
    /\ UNCHANGED <<shared, n, elems, idx, ptr, serial>>

ObsReturn(o, val) ==
    /\ seen' = [seen EXCEPT ![o] = [op |-> pc[o], val |-> val]]
    /\ Return(o)
    /\ UNCHANGED <<shared, serial>>

ObsEmpty(o) == pc[o] = "empty" /\ ObsReturn(o, IF prodTail = head[o] THEN 1 ELSE 0)
ObsCount_Masked(o) ==          \* FAULTY: & q->mask, as the comment at 261 would have it
    pc[o] = "count" /\ ObsReturn(o, Avail(o) % Size)
ObsCount(o) == pc[o] = "count" /\ ObsReturn(o, Avail(o))
ObsSpace(o) == pc[o] = "space" /\ ObsReturn(o, Space(o))

Observe(o) == ObsEmpty(o) \/ ObsCount(o) \/ ObsSpace(o)

-----------------------------------------------------------------------------
Next ==
    \/ \E p \in Producers : EnqCall(p) \/ Enqueue(p)
    \/ \E c \in Consumers : DeqCall(c) \/ Dequeue(c)
    \/ \E o \in Observers : ObsCall(o) \/ Observe(o)

Spec == Init /\ [][Next]_vars

(* A call runs with preemption off, so a CPU inside one keeps executing; the *)
(* callers owe the queue no call.                                            *)
Fairness ==
    /\ \A p \in Producers : WF_vars(Enqueue(p))
    /\ \A c \in Consumers : WF_vars(Dequeue(c))
    /\ \A o \in Observers : WF_vars(Observe(o))

FairSpec == Spec /\ Fairness

-----------------------------------------------------------------------------
(* Properties *)

TypeOK ==
    /\ prodHead \in U32 /\ prodTail \in U32
    /\ consHead \in U32 /\ consTail \in U32
    /\ ring   \in [0 .. (Size - 1) -> Item \cup {NoItem}]
    /\ pc     \in [Threads -> {"idle", "ldhead", "ldtail", "cas", "store", "load",
                               "wait", "publish", "empty", "count", "space"}]
    /\ n      \in [Threads -> 0 .. MaxBulk]
    /\ head   \in [Threads -> U32]
    /\ elems  \in [Threads -> 0 .. MaxBulk]
    /\ idx    \in [Threads -> 0 .. MaxBulk]
    /\ ptr    \in [Threads -> Seq(Item \cup {NoItem})]
    /\ serial \in [Producers -> 0 .. (Serials - 1)]
    /\ seen   \in [Observers -> [op : {"none", "empty", "count", "space"}, val : U32]]

(* What thread t has reserved and not yet published or released.             *)
Holding(t)   == pc[t] \in {"store", "load", "wait", "publish"}
Slots(t)     == {Slot(head[t] + k) : k \in 0 .. (elems[t] - 1)}

(* The four counters never pass one another and never span more than the     *)
(* array: consumer.tail, consumer.head, producer.tail and producer.head come *)
(* in this order, through every wrap of the u32 arithmetic.                  *)
CountersOrdered ==
    /\ Dist(prodHead, consTail) <= Size
    /\ Dist(prodHead, consTail) = Dist(prodHead, prodTail) + Dist(prodTail, consHead)
                                                           + Dist(consHead, consTail)

(* No two CPUs inside a store or a load phase share a slot of the array,     *)
(* whichever of the two sides each of them is on.                            *)
SlotsExclusive ==
    \A t, u \in Threads : t # u /\ Holding(t) /\ Holding(u) => Slots(t) \cap Slots(u) = {}

(* "return 0" of enqueue is the truth at the second load: n slots are not    *)
(* free at that instant, however stale the first load was.                   *)
RefusedOnlyIfFull ==
    [][\A p \in Producers : pc[p] = "ldtail" /\ pc'[p] = "idle"
            => n[p] > Size - Dist(prodHead, consTail)]_vars

(* "return 0" of dequeue is the truth at the second load: every published    *)
(* item is taken at that instant.                                            *)
ZeroOnlyIfEmpty ==
    [][\A c \in Consumers : pc[c] = "ldtail" /\ pc'[c] = "idle"
            => prodTail = consHead]_vars

(* A TRUE of alf_queue_empty is the truth at its second load: nothing        *)
(* published is left, neither to take nor in a consumer's load phase.        *)
EmptyIsTrue ==
    [][\A o \in Observers : pc[o] = "empty" /\ pc'[o] = "idle" /\ seen'[o].val = 1
            => prodTail = consHead /\ consHead = consTail]_vars

(* alf_queue_count never misses an item that can be taken when it returns,   *)
(* and alf_queue_avail_space no free slot: a stale first load only makes     *)
(* either of them too large, so neither may be used to size a call that must *)
(* succeed ("The max avail space is q->size", alf_queue.h:274, is the value  *)
(* at rest: with producers at work more than q->size is returned).           *)
CountsNeverLow ==
    [][\A o \in Observers : pc'[o] = "idle" =>
            /\ pc[o] = "count" => seen'[o].val >= Dist(prodTail, consHead)
            /\ pc[o] = "space" => seen'[o].val >= Size - Dist(prodHead, consTail)]_vars

(* The queue implements the bounded FIFO: the items between consumer.head    *)
(* and producer.tail, read from the array itself, are the queue; an enqueue  *)
(* happens at its store to producer.tail, a dequeue at its reservation, and  *)
(* what a consumer holds until it returns is what it has loaded followed by  *)
(* what it has still to load.                                                *)
Stored(from, k) == [j \in 1 .. k |-> ring[Slot(from + j - 1)]]

Contents == Stored(consHead, Dist(prodTail, consHead))
Offers   == [p \in Producers |->
                [items |-> ptr[p], whole |-> pc[p] # "idle"]]
Asks     == [c \in Consumers |->
                [n |-> IF Holding(c) THEN 0 ELSE n[c], whole |-> FALSE]]
Hands    == [c \in Consumers |->
                IF Holding(c)
                THEN ptr[c] \o Stored(head[c] + idx[c], elems[c] - idx[c])
                ELSE << >>]

F == INSTANCE Fifo WITH Capacity <- Size,
                        queue <- Contents, offer <- Offers, ask <- Asks, hand <- Hands
ImplementsFifo == F!FifoSpec

(* A CPU that has reserved its part of the array gets to publish or release  *)
(* it: the waits for producer.tail and consumer.tail end.                    *)
ReservationsComplete ==
    \A t \in Threads : Holding(t) ~> pc[t] = "idle"

(* Lock-freedom: one of the CPUs that fight over a counter gets through.     *)
SomeoneGetsThrough ==
    /\ (\A p \in Producers : pc[p] # "idle") ~> (\E p \in Producers : pc[p] = "idle")
    /\ (\A c \in Consumers : pc[c] # "idle") ~> (\E c \in Consumers : pc[c] = "idle")

(* With a single producer and a single consumer every call returns.          *)
CallsReturn ==
    \A t \in Threads : pc[t] # "idle" ~> pc[t] = "idle"

-----------------------------------------------------------------------------
(* The inductive invariant behind the safety properties.                     *)

Reserving(t) == pc[t] \in {"cas", "store", "load", "wait", "publish"}

(* What the locals of a call are worth at each of its labels.                *)
LocalsOK(t) ==
    /\ pc[t] \in {"ldhead", "ldtail", "cas", "store", "load", "wait", "publish"}
          => n[t] \in 1 .. MaxBulk
    /\ Reserving(t) => elems[t] \in 1 .. n[t]
    /\ pc[t] \in {"store", "load"} => idx[t] < elems[t]
    /\ pc[t] \in {"wait", "publish"} => idx[t] = elems[t]
    /\ ~Holding(t) => idx[t] = 0

ProducerOK(p) ==
    /\ pc[p] \in {"idle", "ldhead", "ldtail", "cas", "store", "wait", "publish"}
    /\ pc[p] = "idle" => ptr[p] = << >>
    /\ pc[p] # "idle" => ptr[p] \in Seq(Item) /\ Len(ptr[p]) = n[p]
    /\ Reserving(p) => elems[p] = n[p]

ConsumerOK(c) ==
    /\ pc[c] \in {"idle", "ldhead", "ldtail", "cas", "load", "wait", "publish"}
    /\ Len(ptr[c]) = idx[c]

ObserverOK(o) == pc[o] \in {"idle", "empty", "count", "space"} /\ ptr[o] = << >>

Locals ==
    /\ \A t \in Threads   : LocalsOK(t)
    /\ \A p \in Producers : ProducerOK(p)
    /\ \A c \in Consumers : ConsumerOK(c)
    /\ \A o \in Observers : ObserverOK(o)

(* A first load that is still to be used is old, but not too old.            *)
SnapshotsFresh ==
    /\ \A t \in Threads : pc[t] \in InFlight => Dist(prodHead, head[t]) + Size < W
    /\ \A c \in Consumers : pc[c] \in InFlight =>
          Dist(prodHead, head[c]) = Dist(prodHead, consHead) + Dist(consHead, head[c])
    /\ \A o \in Observers :
          /\ pc[o] = "count" =>
                Dist(prodHead, head[o]) = Dist(prodHead, consHead) + Dist(consHead, head[o])
          /\ pc[o] = "empty" =>
                Dist(prodHead, head[o]) = Dist(prodHead, consTail) + Dist(consTail, head[o])

(* What a reservation about to succeed is worth: the space is still there.   *)
ReservationsFit ==
    /\ \A p \in Producers : pc[p] = "cas" /\ head[p] = prodHead
          => Dist(prodHead, consTail) + elems[p] <= Size
    /\ \A c \in Consumers : pc[c] = "cas" /\ head[c] = consHead
          => elems[c] <= Dist(prodTail, consHead)

(* Reservations lie between tail and head, in disjoint pieces.               *)
Before(t, u, tail) == Dist(head[t], tail) + elems[t] <= Dist(head[u], tail)

ProducersApart ==
    /\ \A p \in Producers : Holding(p) =>
          Dist(head[p], prodTail) + elems[p] <= Dist(prodHead, prodTail)
    /\ \A p, q \in Producers : p # q /\ Holding(p) /\ Holding(q) =>
          Before(p, q, prodTail) \/ Before(q, p, prodTail)
    /\ \A p \in Producers : pc[p] = "publish" => head[p] = prodTail

ConsumersApart ==
    /\ \A c \in Consumers : Holding(c) =>
          Dist(head[c], consTail) + elems[c] <= Dist(consHead, consTail)
    /\ \A c, d \in Consumers : c # d /\ Holding(c) /\ Holding(d) =>
          Before(c, d, consTail) \/ Before(d, c, consTail)
    /\ \A c \in Consumers : pc[c] = "publish" => head[c] = consTail

(* The single variants have no cmpxchg and no wait: their one caller knows.  *)
SinglesAlone ==
    /\ ~MultiProducer => \A p \in Producers :
          /\ pc[p] \in {"ldtail", "cas"} => head[p] = prodHead
          /\ Holding(p)  => head[p] = prodTail /\ Dist(prodHead, prodTail) = elems[p]
          /\ ~Holding(p) => prodTail = prodHead
    /\ ~MultiConsumer => \A c \in Consumers :
          /\ pc[c] \in {"ldtail", "cas"} => head[c] = consHead
          /\ Holding(c)  => head[c] = consTail /\ Dist(consHead, consTail) = elems[c]
          /\ ~Holding(c) => consTail = consHead

(* What a producer has stored so far is what its slots hold.                 *)
StoredSoFar ==
    \A p \in Producers : Holding(p) =>
        \A k \in 0 .. (idx[p] - 1) : ring[Slot(head[p] + k)] = ptr[p][k + 1]

IInv ==
    /\ TypeOK
    /\ Locals
    /\ CountersOrdered
    /\ SnapshotsFresh
    /\ ReservationsFit
    /\ ProducersApart
    /\ ConsumersApart
    /\ SinglesAlone
    /\ StoredSoFar
=============================================================================
