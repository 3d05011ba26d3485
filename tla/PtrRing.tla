------------------------------ MODULE PtrRing ------------------------------
(* include/linux/ptr_ring.h and its typed wrapper skb_array.h: an array of   *)
(* pointers in which NULL says that a cell is free, so that producers and    *)
(* consumers, each side under a lock of its own, share nothing but the cells *)
(* and the size.  A step is one access to a cell that the other side sees,   *)
(* with the taking of the lock before it and the private index and the       *)
(* unlock after it; the _irq, _bh and _any variants differ only in what the  *)
(* lock disables.                                                            *)
(*                                                                           *)
(* ptr_ring_resize holds producer_lock throughout, but takes consumer_lock   *)
(* only inside each ptr_ring_consume.  Exclusive says that the callers keep  *)
(* consumers away from a resize by other means; without it a consumer gets   *)
(* pointers newer than those that are already in the new array.              *)
EXTENDS Integers, Sequences, FiniteSets

CONSTANTS
    Producers, Consumers, Resizers,
    Sizes,      \* sizes passed to ptr_ring_init and ptr_ring_resize
    Serials,    \* pointers of a producer are numbered modulo Serials
    Exclusive,  \* no consumer runs during a resize
    PastEnd,    \* producers are followed past the end of an array: see InArray
    Null, Free  \* no pointer; no thread

ASSUME PtrAssumption ==
    /\ Sizes \subseteq Nat \ {0}
    /\ Serials \in Nat \ {0}
    /\ Exclusive \in BOOLEAN /\ PastEnd \in BOOLEAN
    /\ Free \notin Producers \cup Consumers \cup Resizers
    /\ Null \notin Producers \X (0 .. (Serials - 1))

(* A thread is on one side of the ring.                                      *)
ASSUME RoleAssumption ==
    /\ Producers \cap Consumers = {}
    /\ Producers \cap Resizers = {} /\ Consumers \cap Resizers = {}

VARIABLES
    ring,    \* producer, consumer, size, queue; size 0: not initialised
    lock,    \* holders of producer_lock and consumer_lock
    call,    \* the call a thread is in
    pc,      \* how far it got
    ptr,     \* the pointer a consumer peeked
    moved,   \* what the loop of the resize under way took out
    serial,  \* number of a producer's next pointer
    ans      \* the answer that the last step gave: who and what

vars == <<ring, lock, call, pc, ptr, moved, serial, ans>>

Threads == Producers \cup Consumers \cup Resizers
Item    == Producers \X (0 .. (Serials - 1))
NoCall  == [op |-> "none"]
NoAns   == << >>
NoRing  == [producer |-> 0, consumer |-> 0, size |-> 0, queue |-> << >>]

(* __ptr_ring_init_queue_alloc: the array is zeroed and ends in padding up   *)
(* to a cache line (8 pointers); cell n is the first cell of the padding.    *)
NewQueue(n) == [i \in 0 .. n |-> Null]

(* ptr_ring_init *)
NewRing(n) == [producer |-> 0, consumer |-> 0, size |-> n, queue |-> NewQueue(n)]

Init ==
    /\ ring \in {NewRing(n) : n \in Sizes}
    /\ lock   = [side \in {"producer", "consumer"} |-> Free]
    /\ call   = [t \in Threads |-> NoCall]
    /\ pc     = [t \in Threads |-> "idle"]
    /\ ptr    = [c \in Consumers |-> Null]
    /\ moved  = << >>
    /\ serial = [p \in Producers |-> 0]
    /\ ans    = NoAns

Idle(T) == \A t \in T : pc[t] = "idle"

Calls(t) ==
    (IF t \in Producers THEN {[op |-> "produce", item |-> <<t, serial[t]>>], [op |-> "full"]}
                        ELSE {})
    \cup (IF t \in Consumers THEN [op : {"consume", "peek"}] ELSE {})
    \cup (IF t \in Resizers THEN [op : {"resize"}, size : Sizes] ELSE {})

Invoke(t) ==
    /\ ring.size # 0 /\ pc[t] = "idle"
    /\ Exclusive => /\ t \in Consumers => Idle(Resizers)
                    /\ t \in Resizers => Idle(Consumers)
    /\ \E c \in Calls(t) : call' = [call EXCEPT ![t] = c]
    /\ pc'  = [pc  EXCEPT ![t] = "call"]
    /\ ans' = NoAns
    /\ UNCHANGED <<ring, lock, ptr, moved, serial>>

Answer(t, a) ==
    /\ pc'   = [pc   EXCEPT ![t] = "idle"]
    /\ call' = [call EXCEPT ![t] = NoCall]
    /\ ans'  = <<t, a>>

Goes(t, label) == pc' = [pc EXCEPT ![t] = label] /\ ans' = NoAns

(* A thread that gets the lock of its side.                                  *)
Starts(t, side, op) == pc[t] = "call" /\ call[t].op = op /\ lock[side] = Free
Take(t, side, label) ==
    /\ lock' = [lock EXCEPT ![side] = t]
    /\ Goes(t, label)

Advance_Late(i) == IF i + 1 > ring.size THEN 0 ELSE i + 1    \* FAULTY: one too far
Advance(i)      == IF i + 1 >= ring.size THEN 0 ELSE i + 1

(* Bound: a resize that fills its new array leaves producer at the size, so  *)
(* that the next producer uses a cell behind the array; unless PastEnd, it   *)
(* is not followed there.                                                    *)
InArray == PastEnd \/ ring.producer < ring.size

ProducerCell == ring.queue[ring.producer]
ConsumerCell == ring.queue[ring.consumer]

-----------------------------------------------------------------------------
(* ptr_ring_produce: -ENOSPC when the cell is taken.                         *)

PTest_Unlocked(p) ==                \* FAULTY: does not take producer_lock
    /\ Starts(p, "producer", "produce") /\ InArray
    /\ IF ProducerCell # Null
       THEN Answer(p, "ENOSPC")
       ELSE Goes(p, "store") /\ UNCHANGED call
    /\ UNCHANGED <<ring, lock, ptr, moved, serial>>

PTest(p) ==
    /\ Starts(p, "producer", "produce") /\ InArray
    /\ \/ /\ ProducerCell # Null
          /\ Answer(p, "ENOSPC")
          /\ UNCHANGED lock
       \/ /\ ProducerCell = Null
          /\ Take(p, "producer", "store")
          /\ UNCHANGED call
    /\ UNCHANGED <<ring, ptr, moved, serial>>

PStore(p) ==
    /\ pc[p] = "store"
    /\ ring' = [ring EXCEPT !.queue[ring.producer] = call[p].item,
                            !.producer = Advance(ring.producer)]
    /\ serial' = [serial EXCEPT ![p] = (serial[p] + 1) % Serials]
    /\ lock' = [lock EXCEPT !["producer"] = Free]
    /\ Answer(p, "ok")
    /\ UNCHANGED <<ptr, moved>>

Full(p) ==
    /\ Starts(p, "producer", "full") /\ InArray
    /\ Answer(p, IF ProducerCell # Null THEN "yes" ELSE "no")
    /\ UNCHANGED <<ring, lock, ptr, moved, serial>>

-----------------------------------------------------------------------------
(* ptr_ring_consume; ptr_ring_empty and PTR_RING_PEEK_CALL look at the cell. *)

CPeek(c) ==
    /\ Starts(c, "consumer", "consume")
    /\ \/ /\ ConsumerCell = Null
          /\ Answer(c, Null)
          /\ UNCHANGED <<lock, ptr>>
       \/ /\ ConsumerCell # Null
          /\ Take(c, "consumer", "discard")
          /\ ptr' = [ptr EXCEPT ![c] = ConsumerCell]
          /\ UNCHANGED call
    /\ UNCHANGED <<ring, moved, serial>>

(* __ptr_ring_discard_one *)
Discarded == [ring EXCEPT !.queue[ring.consumer] = Null, !.consumer = Advance(ring.consumer)]

CDiscard(c) ==
    /\ pc[c] = "discard"
    /\ ring' = Discarded
    /\ lock' = [lock EXCEPT !["consumer"] = Free]
    /\ ptr'  = [ptr EXCEPT ![c] = Null]
    /\ Answer(c, ptr[c])
    /\ UNCHANGED <<moved, serial>>

Peek(c) ==
    /\ Starts(c, "consumer", "peek")
    /\ Answer(c, ConsumerCell)
    /\ UNCHANGED <<ring, lock, ptr, moved, serial>>

-----------------------------------------------------------------------------
(* ptr_ring_resize: kzalloc may fail; then, under producer_lock, one         *)
(* ptr_ring_consume after the other into the new array, the pointers that do *)
(* not fit to destroy(); then the new array takes the place of the old.      *)

RNoMemory(r) ==
    /\ pc[r] = "call"
    /\ Answer(r, "ENOMEM")
    /\ UNCHANGED <<ring, lock, ptr, moved, serial>>

RLock(r) ==
    /\ Starts(r, "producer", "resize")
    /\ Take(r, "producer", "drain")
    /\ UNCHANGED <<ring, call, ptr, moved, serial>>

RMove_Peek(r) ==                    \* FAULTY: a peek where a consume is needed
    /\ pc[r] = "drain" /\ lock["consumer"] = Free /\ ConsumerCell # Null
    /\ moved' = IF Len(moved) < call[r].size THEN Append(moved, ConsumerCell) ELSE moved
    /\ Goes(r, "drain")
    /\ UNCHANGED <<ring, lock, call, ptr, serial>>

RMove(r) ==
    /\ pc[r] = "drain" /\ lock["consumer"] = Free
    /\ ConsumerCell # Null
    /\ ring' = Discarded
    /\ moved' = Append(moved, ConsumerCell)
    /\ Goes(r, "drain")
    /\ UNCHANGED <<lock, call, ptr, serial>>

RDrained(r) ==
    /\ pc[r] = "drain" /\ lock["consumer"] = Free
    /\ ConsumerCell = Null
    /\ Goes(r, "swap")
    /\ UNCHANGED <<ring, lock, call, ptr, moved, serial>>

InNewArray(n) == IF Len(moved) <= n THEN moved ELSE SubSeq(moved, 1, n)

(* r->producer = producer, without the test for the end of the array.        *)
Resized(n) ==
    [producer |-> Len(InNewArray(n)), consumer |-> 0, size |-> n,
     queue |-> [i \in 0 .. n |-> IF i < Len(InNewArray(n)) THEN moved[i + 1] ELSE Null]]

RSwap(r) ==
    /\ pc[r] = "swap"
    /\ ring' = Resized(call[r].size)
    /\ moved' = << >>
    /\ lock' = [lock EXCEPT !["producer"] = Free]
    /\ Answer(r, "ok")
    /\ UNCHANGED <<ptr, serial>>

-----------------------------------------------------------------------------
(* ptr_ring_cleanup when all calls are over, and ptr_ring_init of a new ring *)

Cleanup ==
    /\ ring.size # 0 /\ Idle(Threads)
    /\ ring' = NoRing
    /\ ans' = NoAns
    /\ UNCHANGED <<lock, call, pc, ptr, moved, serial>>

Setup ==
    /\ ring.size = 0
    /\ \E n \in Sizes : ring' = NewRing(n)
    /\ ans' = NoAns
    /\ UNCHANGED <<lock, call, pc, ptr, moved, serial>>

Step(t) ==
    \/ t \in Producers /\ (PTest(t) \/ PStore(t) \/ Full(t))
    \/ t \in Consumers /\ (CPeek(t) \/ CDiscard(t) \/ Peek(t))
    \/ t \in Resizers /\ (RNoMemory(t) \/ RLock(t) \/ RMove(t) \/ RDrained(t) \/ RSwap(t))

Next ==
    \/ \E t \in Threads : Invoke(t) \/ Step(t)
    \/ Cleanup \/ Setup

(* The locks are ticket or queued spinlocks: whoever waits gets its turn.    *)
(* Whoever holds one has interrupts or preemption off and goes on.           *)
Spec == Init /\ [][Next]_vars /\ \A t \in Threads : SF_vars(Step(t))

-----------------------------------------------------------------------------
(* Properties *)

TypeOK ==
    /\ ring.size \in Sizes \cup {0}
    /\ ring.producer \in 0 .. ring.size
    /\ ring.size # 0 => ring.consumer \in 0 .. (ring.size - 1)
    /\ ring.size # 0 => ring.queue \in [0 .. ring.size -> Item \cup {Null}]
    /\ lock \in [{"producer", "consumer"} -> Threads \cup {Free}]
    /\ \A t \in Threads : call[t] = NoCall <=> pc[t] = "idle"
    /\ pc \in [Threads -> {"idle", "call", "store", "discard", "drain", "swap"}]
    /\ ptr \in [Consumers -> Item \cup {Null}]
    /\ moved \in Seq(Item)
    /\ serial \in [Producers -> 0 .. (Serials - 1)]

(* What the ring holds: the run of taken cells that starts at consumer.      *)
Cells == 0 .. (ring.size - 1)
Stored == LET n == IF ring.size = 0 THEN 0
                   ELSE Cardinality({i \in Cells : ring.queue[i] # Null})
          IN  [j \in 1 .. n |-> ring.queue[(ring.consumer + j - 1) % ring.size]]

(* A limited-size FIFO for any number of producers and consumers, with       *)
(* honest refusals, and a resize that keeps the oldest pointers.  The resize *)
(* takes effect when the new array replaces the old.                         *)
F == INSTANCE PtrFifo WITH queue <- moved \o Stored, capacity <- ring.size
ImplementsPtrFifo == F!FifoSpec

(* Every call comes to its end: no lock is kept, no two threads wait for     *)
(* each other, and the loop of a resize ends, since producers are kept out.  *)
(* (A producer that InArray stops is not followed.)                          *)
CallsReturn ==
    \A t \in Threads :
        pc[t] # "idle" ~> (pc[t] = "idle" \/ (t \in Producers /\ ring.producer = ring.size))
=============================================================================
