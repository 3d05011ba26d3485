----------------------------- MODULE RingQueue -----------------------------
(* include/linux/ring_queue.h, lib/ring_queue.c: the queue taken over from   *)
(* the FreeBSD/DPDK ring.  It differs from AlfQueue in what a user sees: one *)
(* slot stays free, a call is fixed (all or nothing) or a burst (as many as  *)
(* possible), the flags of ring_queue_create choose the single or the multi  *)
(* variants, an enqueue reports when a watermark is exceeded, and the four   *)
(* readers test the tails, modulo the size.                                  *)
(*                                                                           *)
(* A step is one access to the memory that the CPUs share, with the accesses *)
(* that only the owner of a reservation can see taken together: the copy of  *)
(* all n pointers (the slots are its own, see SlotsExclusive), the last,     *)
(* successful test of a wait with the store it allows (only the owner of the *)
(* next reservation moves a tail), and a failed cmpxchg, which changes       *)
(* nothing and would fail later too, with the load that follows it.          *)
EXTENDS Integers, Sequences

CONSTANTS
    Producers, Consumers, Observers,
    Solo,        \* the producers and consumers that may use a "single" ring
    FlagChoices, \* flags of ring_queue_create: sets of "SP_ENQ", "SC_DEQ"
    Size,        \* count of ring_queue_create
    W,           \* the counters are modulo W (2^32 in the code)
    FixedCounts, \* n of the calls with RING_QUEUE_FIXED
    BurstCounts, \* n of the calls with RING_QUEUE_VARIABLE
    Serials,     \* items of a producer are numbered modulo Serials
    WaterMarks   \* counts passed to ring_queue_set_water_mark

(* ring_queue_create takes a power of two up to RING_QUEUE_SZ_MASK (2^28-1). *)
ASSUME RingAssumption ==
    /\ Size \in Nat \ {0} /\ W \in Nat \ {0}
    /\ W > 2 * Size /\ W % Size = 0
    /\ Serials \in Nat \ {0}
    /\ FixedCounts \subseteq Nat \ {0}
    /\ BurstCounts \subseteq Nat \ {0}
    /\ WaterMarks \subseteq Nat
    /\ FlagChoices \subseteq SUBSET {"SP_ENQ", "SC_DEQ"}

(* A single ring is for one producer, or one consumer.                       *)
ASSUME SoloAssumption ==
    /\ Producers \cap Consumers = {}
    /\ \A p, q \in Producers \cap Solo : p = q
    /\ \A c, d \in Consumers \cap Solo : c = d

Threads == Producers \cup Consumers \cup Observers
U32     == 0 .. (W - 1)
Counts  == {0} \cup FixedCounts \cup BurstCounts
Item    == Producers \X (0 .. (Serials - 1))
NoItem  == << >>

Mask    == Size - 1
Wrap_Never(x) == x                  \* FAULTY: counters wider than u32
Wrap(x) == x % W

VARIABLES
    flags,   \* r->flags, and so prod.sp_enqueue and cons.sc_dequeue
    prod,    \* r->prod: head, tail, watermark
    cons,    \* r->cons: head, tail
    ring,    \* r->ring
    pc,      \* where each thread is
    loc,     \* the arguments and locals of a thread's call
    tbl,     \* obj_table
    serial,  \* number of a producer's next item
    seen     \* what a thread's last reading returned

SingleProducer == "SP_ENQ" \in flags
SingleConsumer == "SC_DEQ" \in flags

vars == <<flags, prod, cons, ring, pc, loc, tbl, serial, seen>>

(* fixed: RING_QUEUE_FIXED; head: prod_head, cons_head or a reader's         *)
(* prod_tail; room: free_entries or entries; quota: -EDQUOT or QUOT_EXCEED.  *)
NoCall == [asked |-> 0, fixed |-> FALSE, head |-> 0, room |-> 0, n |-> 0, quota |-> FALSE]
Unseen == [op |-> "none", val |-> 0]

(* ring_queue_create: "Water marking is disabled by default."                *)
Init ==
    /\ flags \in FlagChoices
    /\ prod   = [head |-> 0, tail |-> 0, watermark |-> Size]
    /\ cons   = [head |-> 0, tail |-> 0]
    /\ ring   = [s \in 0 .. Mask |-> NoItem]
    /\ pc     = [t \in Threads |-> "idle"]
    /\ loc    = [t \in Threads |-> NoCall]
    /\ tbl    = [t \in Threads |-> << >>]
    /\ serial = [p \in Producers |-> 0]
    /\ seen   = [t \in Threads |-> Unseen]

(* Any time: a count of 0 disables the mark, one that is not below the size  *)
(* is refused (-EINVAL).                                                     *)
SetWaterMark(count) ==
    /\ count < Size
    /\ prod' = [prod EXCEPT !.watermark = IF count = 0 THEN Size ELSE count]
    /\ UNCHANGED <<flags, cons, ring, pc, loc, tbl, serial, seen>>

Goto(t, label) == pc' = [pc EXCEPT ![t] = label]

Return(t) ==
    /\ Goto(t, "idle")
    /\ loc'  = [loc  EXCEPT ![t] = NoCall]
    /\ tbl'  = [tbl  EXCEPT ![t] = << >>]
    /\ seen' = [seen EXCEPT ![t] = Unseen]

(* ring_queue_enqueue and ring_queue_dequeue go by the flags; a single ring  *)
(* is for one producer, or one consumer.                                     *)
MayCall(t) ==
    /\ t \in Producers /\ SingleProducer => t \in Solo
    /\ t \in Consumers /\ SingleConsumer => t \in Solo

(* Bound: see NotStale of AlfQueue.                                          *)
NotStale(t, k) ==
    \A u \in Threads \ {t} : pc[u] \in {"ldtail", "cas", "read"}
        => Wrap(prod.head - loc[u].head) + k + Size < W

(* How many pointers a call moves: asked, or fewer in a burst; 0 is a        *)
(* refusal (-ENOBUFS, -ENOENT, or 0 from a burst).                           *)
Fit(t, room) ==
    IF loc[t].asked <= room THEN loc[t].asked
                            ELSE IF loc[t].fixed THEN 0 ELSE room

(* free_entries and entries *)
Free_OfHead(t) == Wrap(Mask + cons.head - loc[t].head)   \* FAULTY: cons.head
Free_All(t)    == Wrap(Size + cons.tail - loc[t].head)   \* FAULTY: no slot is kept free
Free(t)        == Wrap(Mask + cons.tail - loc[t].head)
Entries(t)     == Wrap(prod.tail - loc[t].head)

(* The call, up to its first load: prod.head or cons.head.                   *)
Call(t, head) ==
    /\ pc[t] = "idle" /\ MayCall(t)
    /\ \E k \in FixedCounts \cup BurstCounts, f \in BOOLEAN :
         /\ k \in IF f THEN FixedCounts ELSE BurstCounts
         /\ loc' = [loc EXCEPT ![t].asked = k, ![t].fixed = f, ![t].head = head]
         /\ tbl' = [tbl EXCEPT ![t] =
                      IF t \in Producers
                      THEN [j \in 1 .. k |-> <<t, (serial[t] + j - 1) % Serials>>]
                      ELSE << >>]
    /\ Goto(t, "ldtail")
    /\ UNCHANGED <<flags, prod, cons, ring, serial, seen>>

LoadTail(t, room) ==
    /\ pc[t] = "ldtail"
    /\ \/ /\ Fit(t, room) = 0
          /\ Return(t)
       \/ /\ Fit(t, room) # 0
          /\ loc' = [loc EXCEPT ![t].room = room, ![t].n = Fit(t, room)]
          /\ Goto(t, "cas")
          /\ UNCHANGED <<tbl, seen>>
    /\ UNCHANGED <<flags, prod, cons, ring, serial>>

(* The cmpxchg of the multi variants failed: the next round of the loop      *)
(* starts from max, with all other locals dead.                              *)
Retry(t, single, head) ==
    /\ pc[t] = "cas"
    /\ ~single /\ head # loc[t].head
    /\ Goto(t, "ldtail")
    /\ loc' = [loc EXCEPT ![t].head = head, ![t].room = 0, ![t].n = 0]
    /\ UNCHANGED <<flags, prod, cons, ring, tbl, serial, seen>>

-----------------------------------------------------------------------------
(* __ring_queue_mp_do_enqueue, __ring_queue_sp_do_enqueue *)

EnqReserve_Plain(p) ==              \* FAULTY: a store where a cmpxchg is needed
    /\ pc[p] = "cas"
    /\ prod' = [prod EXCEPT !.head = Wrap(loc[p].head + loc[p].n)]
    /\ Goto(p, "copy")
    /\ UNCHANGED <<flags, cons, ring, loc, tbl, serial, seen>>

EnqReserve(p) ==
    /\ pc[p] = "cas"
    /\ SingleProducer \/ prod.head = loc[p].head
    /\ NotStale(p, loc[p].n)
    /\ prod' = [prod EXCEPT !.head = Wrap(loc[p].head + loc[p].n)]
    /\ Goto(p, "copy")
    /\ UNCHANGED <<flags, cons, ring, loc, tbl, serial, seen>>

(* ENQUEUE_PTRS: n slots from prod_head & mask on, and from 0 after the last *)
EnqueuePtrs(p) ==
    [s \in 0 .. Mask |-> LET k == (s - loc[p].head) % Size
                         IN  IF k < loc[p].n THEN tbl[p][k + 1] ELSE ring[s]]

(* The watermark test uses free_entries of the successful round.             *)
Exceeds_Before(p) == Wrap(Mask - loc[p].room) > prod.watermark    \* FAULTY: without n
Exceeds(p)        == Wrap(Size - loc[p].room + loc[p].n) > prod.watermark

EnqCopy(p) ==
    /\ pc[p] = "copy"
    /\ ring' = EnqueuePtrs(p)
    /\ loc'  = [loc EXCEPT ![p].quota = Exceeds(p)]
    /\ Goto(p, "publish")
    /\ UNCHANGED <<flags, prod, cons, tbl, serial, seen>>

EnqPublish_NoWait(p) ==             \* FAULTY: publishes before those ahead of it
    /\ pc[p] = "publish"
    /\ prod' = [prod EXCEPT !.tail = Wrap(loc[p].head + loc[p].n)]
    /\ serial' = [serial EXCEPT ![p] = (serial[p] + loc[p].n) % Serials]
    /\ Return(p)
    /\ UNCHANGED <<flags, cons, ring>>

EnqPublish(p) ==
    /\ pc[p] = "publish"
    /\ SingleProducer \/ prod.tail = loc[p].head
    /\ prod' = [prod EXCEPT !.tail = Wrap(loc[p].head + loc[p].n)]
    /\ serial' = [serial EXCEPT ![p] = (serial[p] + loc[p].n) % Serials]
    /\ Return(p)
    /\ UNCHANGED <<flags, cons, ring>>

Enqueue(p) ==
    \/ Call(p, prod.head) \/ LoadTail(p, Free(p))
    \/ EnqReserve(p) \/ Retry(p, SingleProducer, prod.head) \/ EnqCopy(p) \/ EnqPublish(p)

-----------------------------------------------------------------------------
(* __ring_queue_mc_do_dequeue, __ring_queue_sc_do_dequeue *)

DeqReserve(c) ==
    /\ pc[c] = "cas"
    /\ SingleConsumer \/ cons.head = loc[c].head
    /\ cons' = [cons EXCEPT !.head = Wrap(loc[c].head + loc[c].n)]
    /\ Goto(c, "copy")
    /\ UNCHANGED <<flags, prod, ring, loc, tbl, serial, seen>>

(* DEQUEUE_PTRS *)
Stored(from, k) == [j \in 1 .. k |-> ring[(from + j - 1) % Size]]

DeqCopy(c) ==
    /\ pc[c] = "copy"
    /\ tbl' = [tbl EXCEPT ![c] = Stored(loc[c].head, loc[c].n)]
    /\ Goto(c, "publish")
    /\ UNCHANGED <<flags, prod, cons, ring, loc, serial, seen>>

DeqPublish(c) ==
    /\ pc[c] = "publish"
    /\ SingleConsumer \/ cons.tail = loc[c].head
    /\ cons' = [cons EXCEPT !.tail = Wrap(loc[c].head + loc[c].n)]
    /\ Return(c)
    /\ UNCHANGED <<flags, prod, ring, serial>>

Dequeue(c) ==
    \/ Call(c, cons.head) \/ LoadTail(c, Entries(c))
    \/ DeqReserve(c) \/ Retry(c, SingleConsumer, cons.head) \/ DeqCopy(c) \/ DeqPublish(c)

-----------------------------------------------------------------------------
(* ring_queue_full, _empty, _count, _free_count: prod.tail, then cons.tail.  *)
(* Bound: the callers themselves read only where both sides are single.      *)

MayRead(t) == t \in Producers \cup Consumers => SingleProducer /\ SingleConsumer /\ t \in Solo

Read(t) ==
    /\ pc[t] = "idle" /\ MayRead(t)
    /\ loc' = [loc EXCEPT ![t].head = prod.tail]
    /\ Goto(t, "read")
    /\ seen' = [seen EXCEPT ![t] = Unseen]
    /\ UNCHANGED <<flags, prod, cons, ring, tbl, serial>>

Reading_Size(t) ==                  \* FAULTY: counts the slot that stays free
    [full  |-> (cons.tail - loc[t].head - 1) % Size = 0,
     empty |-> cons.tail = loc[t].head,
     count |-> (loc[t].head - cons.tail) % Size,
     free  |-> Size - ((loc[t].head - cons.tail) % Size)]
Reading(t) ==
    [full  |-> (cons.tail - loc[t].head - 1) % Size = 0,
     empty |-> cons.tail = loc[t].head,
     count |-> (loc[t].head - cons.tail) % Size,
     free  |-> (cons.tail - loc[t].head - 1) % Size]

ReadReturn(t) ==
    /\ pc[t] = "read"
    /\ \E op \in {"full", "empty", "count", "free"} :
          seen' = [seen EXCEPT ![t] = [op |-> op, val |-> Reading(t)[op]]]
    /\ Goto(t, "idle")
    /\ loc' = [loc EXCEPT ![t] = NoCall]
    /\ UNCHANGED <<flags, prod, cons, ring, tbl, serial>>

-----------------------------------------------------------------------------
Next ==
    \/ \E p \in Producers : Enqueue(p)
    \/ \E c \in Consumers : Dequeue(c)
    \/ \E t \in Observers : Read(t) \/ ReadReturn(t)
    \/ \E count \in WaterMarks : SetWaterMark(count)

Spec == Init /\ [][Next]_vars

-----------------------------------------------------------------------------
(* Properties *)

TypeOK ==
    /\ flags \in FlagChoices
    /\ prod \in [head : U32, tail : U32, watermark : 1 .. Size]
    /\ cons \in [head : U32, tail : U32]
    /\ ring \in [0 .. Mask -> Item \cup {NoItem}]
    /\ pc \in [Threads -> {"idle", "ldtail", "cas", "copy", "publish", "read"}]
    /\ loc \in [Threads -> [asked : Counts, fixed : BOOLEAN, head : U32,
                            room : U32, n : U32, quota : BOOLEAN]]
    /\ tbl \in [Threads -> Seq(Item \cup {NoItem})]
    /\ serial \in [Producers -> 0 .. (Serials - 1)]
    /\ \A t \in Threads : seen[t].op \in {"none", "full", "empty", "count", "free"}

(* Between its reservation and the move of its tail a thread has n slots to  *)
(* itself; this is also what lets the copy be one step of the model.         *)
Holding(t) == pc[t] \in {"copy", "publish"}
Slots(t)   == {(loc[t].head + k) % Size : k \in 0 .. (loc[t].n - 1)}

SlotsExclusive ==
    \A t, u \in Threads : t # u /\ Holding(t) /\ Holding(u) => Slots(t) \cap Slots(u) = {}

(* A bounded FIFO of count - 1 pointers ("the real usable ring size is       *)
(* *count-1*", ring_queue.c:110), for all four choices of the flags, whose   *)
(* fixed calls move all of their pointers or none.                           *)
Contents == Stored(cons.head, Wrap(prod.tail - cons.head))
Offers   == [p \in Producers |-> [items |-> tbl[p], whole |-> loc[p].fixed]]
Asks     == [c \in Consumers |->
                IF Holding(c) THEN [n |-> 0, whole |-> FALSE]
                              ELSE [n |-> loc[c].asked, whole |-> loc[c].fixed]]
Hands    == [c \in Consumers |->
                IF Holding(c) THEN Stored(loc[c].head, loc[c].n) ELSE << >>]

F == INSTANCE Fifo WITH Capacity <- Size - 1,
                        queue <- Contents, offer <- Offers, ask <- Asks, hand <- Hands
ImplementsFifo == F!FifoSpec

(* The quota report is never missed: an enqueue that leaves more than        *)
(* watermark pointers in the ring, counted when it reserves its slots, says  *)
(* so, although free_entries may be stale by then.                           *)
QuotaNeverMissed ==
    [][\A p \in Producers : pc[p] = "copy" /\ pc'[p] = "publish" /\ ~loc'[p].quota
            => Wrap(loc[p].head + loc[p].n - cons.tail) <= prod.watermark]_vars

(* What the only producer reads of the free room, and the only consumer of   *)
(* the count, it can use: a call for so many is not refused or cut short.    *)
FreeSeen(t) ==
    CASE seen[t].op = "free" -> seen[t].val
      [] seen[t].op = "full" -> IF seen[t].val THEN 0 ELSE 1
      [] OTHER -> 0
CountSeen(t) ==
    CASE seen[t].op = "count" -> seen[t].val
      [] seen[t].op = "empty" -> IF seen[t].val THEN 0 ELSE 1
      [] OTHER -> 0
ReadingsKept ==
    [][/\ SingleProducer => \A p \in Producers :
            pc[p] = "ldtail" /\ Fit(p, Free(p)) < loc[p].asked => FreeSeen(p) < loc[p].asked
       /\ SingleConsumer => \A c \in Consumers :
            pc[c] = "ldtail" /\ Fit(c, Entries(c)) < loc[c].asked
                => CountSeen(c) < loc[c].asked]_vars
=============================================================================
