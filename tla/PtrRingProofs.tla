--------------------------- MODULE PtrRingProofs ---------------------------
(* Proofs about PtrRing, for any threads, sizes and pointers.  TypeCorrect   *)
(* holds of every ring; ImplementsFifo, that the ring is the FIFO of PtrFifo *)
(* in each of its steps, of the rings whose callers keep consumers out of a  *)
(* resize and whose producers stay inside the array.                         *)
EXTENDS PtrRing, SequenceTheorems, FiniteSetTheorems, TLAPS

-----------------------------------------------------------------------------
(* Types, and what a thread inside a call knows: who holds a lock, and that  *)
(* the cell it has looked at is as it was.                                   *)

Fields == ring = [producer |-> ring.producer, consumer |-> ring.consumer,
                  size |-> ring.size, queue |-> ring.queue]
CallFunction == call = [t \in Threads |-> call[t]]

Storing(t) ==
    pc[t] = "store" => /\ t \in Producers /\ call[t].op = "produce"
                       /\ lock["producer"] = t /\ ProducerCell = Null
Discarding(t) ==
    pc[t] = "discard" => /\ t \in Consumers /\ call[t].op = "consume"
                         /\ lock["consumer"] = t
                         /\ ConsumerCell # Null /\ ptr[t] = ConsumerCell
Resizing(t) ==
    /\ pc[t] \in {"drain", "swap"} => /\ t \in Resizers /\ call[t].op = "resize"
                                      /\ lock["producer"] = t
    /\ pc[t] = "swap" => ConsumerCell = Null
InCall(t) == pc[t] # "idle" => ring.size # 0 /\ call[t] \in F!Calls(t)

Knows(t) == Storing(t) /\ Discarding(t) /\ Resizing(t) /\ InCall(t)
IInv == TypeOK /\ Fields /\ CallFunction /\ \A t \in Threads : Knows(t)

LEMMA NullIsNone == Null \notin Item
BY PtrAssumption DEF Item

LEMMA Roles ==
    /\ \A t \in Producers : t \in Threads /\ t \notin Consumers /\ t \notin Resizers
    /\ \A t \in Consumers : t \in Threads /\ t \notin Producers /\ t \notin Resizers
    /\ \A t \in Resizers  : t \in Threads /\ t \notin Producers /\ t \notin Consumers
    /\ Free \notin Threads
BY RoleAssumption, PtrAssumption DEF Threads

LEMMA SizesAreNat == \A n \in Sizes \cup {0} : n \in Nat
BY PtrAssumption

(* A call is of its thread's side, and is none of the others.                *)
LEMMA CallsOf ==
    ASSUME NEW t \in Threads, NEW c \in F!Calls(t)
    PROVE  /\ c # NoCall
           /\ c.op = "produce" => t \in Producers /\ c.item \in Item
           /\ c.op = "full" => t \in Producers
           /\ c.op \in {"consume", "peek"} => t \in Consumers
           /\ c.op = "resize" => t \in Resizers /\ c.size \in Sizes
           /\ t \in Producers => c.op \in {"produce", "full"}
           /\ t \in Consumers => c.op \in {"consume", "peek"}
           /\ t \in Resizers  => c.op = "resize"
<1>1. NoCall.op = "none" /\ NoCall = [op |-> "none"]  BY DEF NoCall
<1>2. CASE t \in Producers
  <2>1. c \in [op : {"produce"}, item : Item] \cup [op : {"full"}]
    BY <1>2, Roles DEF F!Calls
  <2>2. CASE c \in [op : {"produce"}, item : Item]
    BY <1>1, <1>2, <2>2, Roles
  <2>3. CASE c \in [op : {"full"}]
    BY <1>1, <1>2, <2>3, Roles
  <2> QED  BY <2>1, <2>2, <2>3
<1>3. CASE t \in Consumers
  <2>1. c \in [op : {"consume", "peek"}]  BY <1>3, Roles DEF F!Calls
  <2> QED  BY <1>1, <1>3, <2>1, Roles
<1>4. CASE t \in Resizers
  <2>1. c \in [op : {"resize"}, size : Sizes]  BY <1>4, Roles DEF F!Calls
  <2> QED  BY <1>1, <1>4, <2>1, Roles
<1> QED  BY <1>2, <1>3, <1>4 DEF Threads

LEMMA CallsOfFifo ==
    ASSUME NEW t \in Threads, NEW c \in Calls(t), t \in Producers => serial[t] \in 0 .. (Serials - 1)
    PROVE  c \in F!Calls(t)
<1>1. CASE t \in Producers
  <2>1. c \in {[op |-> "produce", item |-> <<t, serial[t]>>], [op |-> "full"]}
    BY <1>1, Roles DEF Calls
  <2>2. <<t, serial[t]>> \in Item  BY <1>1 DEF Item
  <2>3. c \in [op : {"produce"}, item : Item] \cup [op : {"full"}]
    BY <2>1, <2>2
  <2> QED  BY <1>1, <2>3 DEF F!Calls
<1>2. CASE t \notin Producers
  BY <1>2 DEF Calls, F!Calls
<1> QED  BY <1>1, <1>2

-----------------------------------------------------------------------------
(* The parts of the ring after a store, a discard and a swap                 *)

LEMMA AdvanceIs ==
    ASSUME ring.size \in Nat \ {0}, NEW i \in 0 .. ring.size
    PROVE  /\ Advance(i) \in 0 .. (ring.size - 1)
           /\ i + 1 < ring.size => Advance(i) = i + 1
           /\ i + 1 >= ring.size => Advance(i) = 0
BY SMT DEF Advance

LEMMA IndexIs ==
    ASSUME TypeOK, ring.size # 0
    PROVE  /\ ring.size \in Sizes /\ ring.size \in Nat \ {0}
           /\ ring.producer \in 0 .. ring.size
           /\ ring.consumer \in 0 .. (ring.size - 1) /\ ring.consumer \in 0 .. ring.size
           /\ ring.queue \in [0 .. ring.size -> Item \cup {Null}]
           /\ ProducerCell \in Item \cup {Null} /\ ConsumerCell \in Item \cup {Null}
<1>1. ring.size \in Sizes /\ ring.size \in Nat \ {0}  BY SizesAreNat DEF TypeOK
<1>2. /\ ring.producer \in 0 .. ring.size /\ ring.consumer \in 0 .. (ring.size - 1)
      /\ ring.queue \in [0 .. ring.size -> Item \cup {Null}]
  BY DEF TypeOK
<1>3. ring.consumer \in 0 .. ring.size  BY <1>1, <1>2
<1> QED  BY <1>1, <1>2, <1>3 DEF ProducerCell, ConsumerCell

LEMMA AfterStore ==
    ASSUME IInv, ring.size # 0, NEW p \in Producers, PStore(p)
    PROVE  /\ ring'.producer = Advance(ring.producer)
           /\ ring'.consumer = ring.consumer /\ ring'.size = ring.size
           /\ ring'.queue = [ring.queue EXCEPT ![ring.producer] = call[p].item]
           /\ Fields'
<1> DEFINE q == [ring.queue EXCEPT ![ring.producer] = call[p].item]
           r == [producer |-> Advance(ring.producer), consumer |-> ring.consumer,
                 size |-> ring.size, queue |-> q]
<1>1. ring' = r
  <2>1. ring' = [ring EXCEPT !.queue[ring.producer] = call[p].item,
                             !.producer = Advance(ring.producer)]  BY DEF PStore
  <2> QED  BY <2>1 DEF IInv, Fields
<1> HIDE DEF q
<1>2. /\ ring'.producer = Advance(ring.producer) /\ ring'.consumer = ring.consumer
      /\ ring'.size = ring.size /\ ring'.queue = q
  BY <1>1
<1>3. Fields'  BY <1>1, <1>2 DEF Fields
<1> QED  BY <1>2, <1>3 DEF q

LEMMA AfterDiscard ==
    ASSUME IInv, ring' = Discarded
    PROVE  /\ ring'.producer = ring.producer
           /\ ring'.consumer = Advance(ring.consumer) /\ ring'.size = ring.size
           /\ ring'.queue = [ring.queue EXCEPT ![ring.consumer] = Null]
           /\ Fields'
<1> DEFINE q == [ring.queue EXCEPT ![ring.consumer] = Null]
           r == [producer |-> ring.producer, consumer |-> Advance(ring.consumer),
                 size |-> ring.size, queue |-> q]
<1>1. ring' = r
  <2>1. ring' = [ring EXCEPT !.queue[ring.consumer] = Null,
                             !.consumer = Advance(ring.consumer)]  BY DEF Discarded
  <2> QED  BY <2>1 DEF IInv, Fields
<1> HIDE DEF q
<1>2. /\ ring'.producer = ring.producer /\ ring'.consumer = Advance(ring.consumer)
      /\ ring'.size = ring.size /\ ring'.queue = q
  BY <1>1
<1>3. Fields'  BY <1>1, <1>2 DEF Fields
<1> QED  BY <1>2, <1>3 DEF q

LEMMA NewArray ==
    ASSUME moved \in Seq(Item), NEW n \in Nat
    PROVE  /\ InNewArray(n) \in Seq(Item) /\ Len(InNewArray(n)) \in 0 .. n
           /\ Len(InNewArray(n)) \in Nat /\ Len(InNewArray(n)) <= Len(moved)
           /\ \A i \in 1 .. Len(InNewArray(n)) : InNewArray(n)[i] = moved[i] /\ moved[i] \in Item
           /\ Len(InNewArray(n)) = IF Len(moved) <= n THEN Len(moved) ELSE n
<1>0. Len(moved) \in Nat /\ \A i \in 1 .. Len(moved) : moved[i] \in Item
  BY LenProperties, ElementOfSeq
<1>1. CASE Len(moved) <= n
  <2>1. InNewArray(n) = moved  BY <1>1 DEF InNewArray
  <2> QED  BY <1>0, <1>1, <2>1
<1>2. CASE ~ (Len(moved) <= n)
  <2>1. InNewArray(n) = SubSeq(moved, 1, n)  BY <1>2 DEF InNewArray
  <2>2. \A i \in 1 .. n : moved[i] \in Item  BY <1>0, <1>2
  <2>3. /\ SubSeq(moved, 1, n) \in Seq(Item)
        /\ Len(SubSeq(moved, 1, n)) = IF 1 <= n THEN n - 1 + 1 ELSE 0
        /\ \A i \in 1 .. n - 1 + 1 : SubSeq(moved, 1, n)[i] = moved[1 + i - 1]
    BY <2>2, SubSeqProperties
  <2>4. Len(SubSeq(moved, 1, n)) = n  BY <2>3
  <2> QED  BY <1>0, <1>2, <2>1, <2>2, <2>3, <2>4
<1> QED  BY <1>1, <1>2

LEMMA AfterSwap ==
    ASSUME moved \in Seq(Item), NEW n \in Sizes, ring' = Resized(n)
    PROVE  /\ ring'.producer = Len(InNewArray(n)) /\ ring'.producer \in 0 .. n
           /\ ring'.consumer = 0 /\ ring'.size = n
           /\ ring'.queue = [i \in 0 .. n |-> IF i < Len(InNewArray(n)) THEN moved[i + 1] ELSE Null]
           /\ ring'.queue \in [0 .. n -> Item \cup {Null}]
           /\ Fields'
<1>0. n \in Nat \ {0}  BY PtrAssumption
<1> DEFINE k == Len(InNewArray(n))
           q == [i \in 0 .. n |-> IF i < k THEN moved[i + 1] ELSE Null]
           r == [producer |-> k, consumer |-> 0, size |-> n, queue |-> q]
<1>1. ring' = r  BY DEF Resized
<1>2. q \in [0 .. n -> Item \cup {Null}]
  <2> SUFFICES ASSUME NEW i \in 0 .. n, i < k PROVE moved[i + 1] \in Item  OBVIOUS
  <2>1. k \in Nat /\ \A j \in 1 .. k : moved[j] \in Item  BY <1>0, NewArray
  <2>2. i + 1 \in 1 .. k
    <3> HIDE DEF k
    <3> QED  BY <1>0, <2>1
  <2> QED  BY <2>1, <2>2
<1>3. k \in 0 .. n  BY <1>0, NewArray
<1> HIDE DEF q, k
<1>4. ring'.producer = k /\ ring'.consumer = 0 /\ ring'.size = n /\ ring'.queue = q  BY <1>1
<1>5. Fields'  BY <1>1, <1>4 DEF Fields
<1> QED  BY <1>2, <1>3, <1>4, <1>5 DEF q, k

LEMMA AfterSetup ==
    ASSUME NEW n \in Sizes
    PROVE  /\ NewRing(n).producer = 0 /\ NewRing(n).consumer = 0 /\ NewRing(n).size = n
           /\ NewRing(n).queue = [i \in 0 .. n |-> Null]
           /\ NewRing(n) = [producer |-> NewRing(n).producer, consumer |-> NewRing(n).consumer,
                            size |-> NewRing(n).size, queue |-> NewRing(n).queue]
BY DEF NewRing, NewQueue

-----------------------------------------------------------------------------
(* The invariant is inductive                                                *)

Pcs == {"idle", "call", "store", "discard", "drain", "swap"}
RingTypes ==
    /\ ring.size \in Sizes \cup {0}
    /\ ring.producer \in 0 .. ring.size
    /\ ring.size # 0 => ring.consumer \in 0 .. (ring.size - 1)
    /\ ring.size # 0 => ring.queue \in [0 .. ring.size -> Item \cup {Null}]
CallTypes ==
    /\ \A t \in Threads : call[t] = NoCall <=> pc[t] = "idle"
    /\ pc \in [Threads -> Pcs]
    /\ CallFunction
LockTypes == lock \in [{"producer", "consumer"} -> Threads \cup {Free}]

OtherTypes ==
    /\ ptr \in [Consumers -> Item \cup {Null}]
    /\ moved \in Seq(Item)
    /\ serial \in [Producers -> 0 .. (Serials - 1)]
TypeParts == RingTypes /\ LockTypes /\ CallTypes /\ OtherTypes

LEMMA TypesAre == (TypeOK /\ CallFunction) <=> TypeParts
BY DEF TypeOK, TypeParts, RingTypes, LockTypes, CallTypes, OtherTypes, Pcs

LEMMA TypesAreThen == TypeParts' => (TypeOK /\ CallFunction)'
BY TypesAre, PTL

LEMMA Answered ==
    ASSUME IInv, NEW t \in Threads, NEW a, Answer(t, a)
    PROVE  /\ CallTypes' /\ pc'[t] = "idle"
           /\ \A u \in Threads \ {t} : pc'[u] = pc[u] /\ call'[u] = call[u]
BY TypesAre DEF IInv, TypeParts, CallTypes, Answer, CallFunction, Pcs

LEMMA Went ==
    ASSUME IInv, NEW t \in Threads, NEW l \in Pcs \ {"idle"}, Goes(t, l),
           pc[t] # "idle", UNCHANGED call
    PROVE  /\ CallTypes' /\ pc'[t] = l
           /\ \A u \in Threads : call'[u] = call[u]
           /\ \A u \in Threads \ {t} : pc'[u] = pc[u]
BY TypesAre DEF IInv, TypeParts, CallTypes, Goes, CallFunction, Pcs

(* Threads whose cells, locks and calls a step leaves alone know what they   *)
(* knew.                                                                     *)
LEMMA StillKnows ==
    ASSUME NEW u \in Threads, Knows(u),
           pc'[u] = pc[u], call'[u] = call[u], ring'.size = ring.size,
           u \in Consumers => ptr'[u] = ptr[u],
           pc[u] = "store" => lock'["producer"] = u /\ ProducerCell' = ProducerCell,
           pc[u] = "discard" => lock'["consumer"] = u /\ ConsumerCell' = ConsumerCell,
           pc[u] \in {"drain", "swap"} => lock'["producer"] = u,
           pc[u] = "swap" => ConsumerCell' = Null
    PROVE  Knows(u)'
BY DEF Knows, Storing, Discarding, Resizing, InCall, F!Calls

LEMMA IdleKnows == ASSUME NEW t \in Threads, pc'[t] = "idle" PROVE Knows(t)'
BY DEF Knows, Storing, Discarding, Resizing, InCall

LEMMA InvInit == Init => IInv
<1> SUFFICES ASSUME Init PROVE IInv  OBVIOUS
<1>1. PICK n \in Sizes : ring = NewRing(n)  BY DEF Init
<1>2. n \in Nat \ {0}  BY PtrAssumption
<1>3. RingTypes /\ Fields
  <2>1. /\ ring.producer = 0 /\ ring.consumer = 0 /\ ring.size = n
        /\ ring.queue = [i \in 0 .. n |-> Null]
    BY <1>1, AfterSetup
  <2>2. Fields  BY <1>1, AfterSetup DEF Fields
  <2> QED  BY <1>2, <2>1, <2>2 DEF RingTypes
<1>4. LockTypes /\ CallTypes  BY DEF Init, LockTypes, CallTypes, CallFunction, Pcs, NoCall
<1>5. OtherTypes  BY PtrAssumption, EmptySeq DEF Init, OtherTypes
<1>6. \A t \in Threads : pc[t] = "idle"  BY DEF Init
<1>7. \A t \in Threads : Knows(t)  BY <1>6 DEF Knows, Storing, Discarding, Resizing, InCall
<1> QED  BY <1>3, <1>4, <1>5, <1>7, TypesAre DEF IInv, TypeParts

LEMMA InvInvoke == ASSUME IInv, NEW t \in Threads, Invoke(t) PROVE IInv'
<1>1. PICK c \in Calls(t) : call' = [call EXCEPT ![t] = c]  BY DEF Invoke
<1>2. c \in F!Calls(t)  BY CallsOfFifo DEF IInv, TypeOK
<1>3. c # NoCall  BY <1>2, CallsOf
<1>4. /\ ring' = ring /\ lock' = lock /\ ptr' = ptr /\ moved' = moved /\ serial' = serial
      /\ pc' = [pc EXCEPT ![t] = "call"] /\ ring.size # 0 /\ pc[t] = "idle"
  BY DEF Invoke
<1>5. /\ CallTypes' /\ pc'[t] = "call" /\ call'[t] = c
      /\ \A u \in Threads \ {t} : pc'[u] = pc[u] /\ call'[u] = call[u]
  BY <1>1, <1>3, <1>4, TypesAre DEF IInv, TypeParts, CallTypes, CallFunction, Pcs
<1>6. TypeOK' /\ CallFunction' /\ Fields'
  BY <1>4, <1>5, TypesAre, TypesAreThen
     DEF IInv, Fields, TypeParts, OtherTypes, RingTypes, LockTypes
<1>7. ASSUME NEW u \in Threads PROVE Knows(u)'
  <2>1. CASE u = t
    BY <1>2, <1>4, <1>5, <2>1
       DEF Knows, Storing, Discarding, Resizing, InCall, F!Calls
  <2>2. CASE u # t
    <3>1. ProducerCell' = ProducerCell /\ ConsumerCell' = ConsumerCell
      BY <1>4 DEF ProducerCell, ConsumerCell
    <3>2. Knows(u)  BY DEF IInv
    <3> QED
      BY <1>4, <1>5, <2>2, <3>1, <3>2, StillKnows DEF Knows, Storing, Discarding, Resizing
  <2> QED  BY <2>1, <2>2
<1> QED  BY <1>6, <1>7 DEF IInv

(* Steps that touch neither the ring nor a lock: a refusal, a look at a cell *)
LEMMA InvAnswer ==
    ASSUME IInv, NEW t \in Threads, NEW a, Answer(t, a),
           UNCHANGED <<ring, lock, ptr, moved, serial>>, pc[t] = "call"
    PROVE  IInv'
<1>1. /\ CallTypes' /\ pc'[t] = "idle"
      /\ \A u \in Threads \ {t} : pc'[u] = pc[u] /\ call'[u] = call[u]
  BY Answered
<1>2. TypeOK' /\ CallFunction' /\ Fields'
  BY <1>1, TypesAre, TypesAreThen
     DEF IInv, Fields, TypeParts, OtherTypes, RingTypes, LockTypes
<1>3. ASSUME NEW u \in Threads PROVE Knows(u)'
  <2>1. CASE u = t  BY <1>1, <2>1, IdleKnows
  <2>2. CASE u # t
    <3>1. ProducerCell' = ProducerCell /\ ConsumerCell' = ConsumerCell
      BY DEF ProducerCell, ConsumerCell
    <3>2. Knows(u)  BY DEF IInv
    <3> QED
      BY <1>1, <2>2, <3>1, <3>2, StillKnows DEF Knows, Storing, Discarding, Resizing
  <2> QED  BY <2>1, <2>2
<1> QED  BY <1>2, <1>3 DEF IInv

(* A thread takes the lock of its side and keeps it, the cells as they are.  *)
LEMMA LockTaken ==
    ASSUME IInv, NEW t \in Threads, NEW side \in {"producer", "consumer"},
           NEW l \in Pcs \ {"idle"},
           pc[t] = "call", lock[side] = Free, Take(t, side, l),
           UNCHANGED <<ring, call, moved, serial>>,
           ptr' \in [Consumers -> Item \cup {Null}],
           \A c \in Consumers \ {t} : ptr'[c] = ptr[c],
           Knows(t)'
    PROVE  IInv'
<1>1. /\ CallTypes' /\ pc'[t] = l
      /\ \A u \in Threads : call'[u] = call[u]
      /\ \A u \in Threads \ {t} : pc'[u] = pc[u]
  BY Went DEF Take
<1>2. lock \in [{"producer", "consumer"} -> Threads \cup {Free}]  BY DEF IInv, TypeOK
<1>3. lock' = [lock EXCEPT ![side] = t]  BY DEF Take
<1>4. LockTypes'  BY <1>2, <1>3 DEF LockTypes
<1>5. TypeOK' /\ CallFunction' /\ Fields'
  BY <1>1, <1>4, TypesAre, TypesAreThen
     DEF IInv, Fields, TypeParts, OtherTypes, RingTypes
<1>6. ASSUME NEW u \in Threads, u # t PROVE Knows(u)'
  <2>1. ProducerCell' = ProducerCell /\ ConsumerCell' = ConsumerCell
    BY DEF ProducerCell, ConsumerCell
  <2>2. Knows(u)  BY DEF IInv
  <2>3. u # Free  BY Roles
  <2>4. /\ lock["producer"] = u => lock'["producer"] = u
        /\ lock["consumer"] = u => lock'["consumer"] = u
    BY <1>2, <1>3, <2>3
  <2> QED
    BY <1>1, <1>6, <2>1, <2>2, <2>4, StillKnows DEF Knows, Storing, Discarding, Resizing
<1> QED  BY <1>5, <1>6 DEF IInv

LEMMA InvPTest == ASSUME IInv, NEW p \in Producers, PTest(p) PROVE IInv'
<1>0. p \in Threads /\ pc[p] = "call"  BY Roles DEF PTest, Starts
<1>1. CASE Answer(p, "ENOSPC") /\ UNCHANGED lock
  BY <1>0, <1>1, InvAnswer DEF PTest
<1>2. CASE ProducerCell = Null /\ Take(p, "producer", "store") /\ UNCHANGED call
  <2>1. /\ ring' = ring /\ ptr' = ptr /\ lock["producer"] = Free /\ call[p].op = "produce"
        /\ moved' = moved /\ serial' = serial
    BY DEF PTest, Starts
  <2>2. pc'[p] = "store" /\ lock'["producer"] = p
    BY <1>0, <1>2 DEF Take, Goes, IInv, TypeOK
  <2>3. Knows(p)
    BY <1>0 DEF IInv
  <2>4. Knows(p)'
    BY <1>0, <1>2, <2>1, <2>2, <2>3
       DEF Knows, Storing, Discarding, Resizing, InCall, ProducerCell, F!Calls
  <2>5. ptr \in [Consumers -> Item \cup {Null}]  BY DEF IInv, TypeOK
  <2> QED  BY <1>0, <1>2, <2>1, <2>4, <2>5, LockTaken DEF Pcs
<1> QED  BY <1>1, <1>2 DEF PTest

LEMMA InvCPeek == ASSUME IInv, NEW c \in Consumers, CPeek(c) PROVE IInv'
<1>0. c \in Threads /\ pc[c] = "call"  BY Roles DEF CPeek, Starts
<1>1. CASE Answer(c, Null) /\ UNCHANGED <<lock, ptr>>
  BY <1>0, <1>1, InvAnswer DEF CPeek
<1>2. CASE /\ ConsumerCell # Null /\ Take(c, "consumer", "discard")
           /\ ptr' = [ptr EXCEPT ![c] = ConsumerCell] /\ UNCHANGED call
  <2>1. /\ ring' = ring /\ lock["consumer"] = Free /\ call[c].op = "consume"
        /\ moved' = moved /\ serial' = serial
    BY DEF CPeek, Starts
  <2>2. pc'[c] = "discard" /\ lock'["consumer"] = c
    BY <1>0, <1>2 DEF Take, Goes, IInv, TypeOK
  <2>3. Knows(c)  BY <1>0 DEF IInv
  <2>4. ring.size # 0  BY <1>0, <2>3 DEF Knows, InCall
  <2>5. ConsumerCell \in Item \cup {Null}  BY <2>4, IndexIs DEF IInv
  <2>6. ptr \in [Consumers -> Item \cup {Null}]  BY DEF IInv, TypeOK
  <2>7. /\ ptr' \in [Consumers -> Item \cup {Null}] /\ ptr'[c] = ConsumerCell
        /\ \A d \in Consumers \ {c} : ptr'[d] = ptr[d]
    BY <1>2, <2>5, <2>6
  <2>8. Knows(c)'
    BY <1>0, <1>2, <2>1, <2>2, <2>3, <2>7
       DEF Knows, Storing, Discarding, Resizing, InCall, ConsumerCell, F!Calls
  <2> QED  BY <1>0, <1>2, <2>1, <2>7, <2>8, LockTaken DEF Pcs
<1> QED  BY <1>1, <1>2 DEF CPeek

LEMMA InvRLock == ASSUME IInv, NEW r \in Resizers, RLock(r) PROVE IInv'
<1>0. r \in Threads /\ pc[r] = "call"  BY Roles DEF RLock, Starts
<1>1. /\ ring' = ring /\ lock["producer"] = Free /\ call[r].op = "resize"
      /\ Take(r, "producer", "drain") /\ UNCHANGED <<ring, call, ptr, moved, serial>>
  BY DEF RLock, Starts
<1>2. pc'[r] = "drain" /\ lock'["producer"] = r
  BY <1>0, <1>1 DEF Take, Goes, IInv, TypeOK
<1>3. Knows(r)  BY <1>0 DEF IInv
<1>4. Knows(r)'
  BY <1>0, <1>1, <1>2, <1>3 DEF Knows, Storing, Discarding, Resizing, InCall, F!Calls
<1>5. ptr \in [Consumers -> Item \cup {Null}]  BY DEF IInv, TypeOK
<1> QED  BY <1>0, <1>1, <1>4, <1>5, LockTaken DEF Pcs

LEMMA InvRDrained == ASSUME IInv, NEW r \in Resizers, RDrained(r) PROVE IInv'
<1>0. r \in Threads  BY Roles
<1>1. /\ pc[r] = "drain" /\ ConsumerCell = Null /\ Goes(r, "swap")
      /\ UNCHANGED <<ring, lock, call, ptr, moved, serial>>
  BY DEF RDrained
<1>2. /\ CallTypes' /\ pc'[r] = "swap"
      /\ \A u \in Threads : call'[u] = call[u]
      /\ \A u \in Threads \ {r} : pc'[u] = pc[u]
  BY <1>0, <1>1, Went DEF Pcs
<1>3. TypeOK' /\ CallFunction' /\ Fields'
  BY <1>1, <1>2, TypesAre, TypesAreThen
     DEF IInv, Fields, TypeParts, OtherTypes, RingTypes, LockTypes
<1>4. ProducerCell' = ProducerCell /\ ConsumerCell' = ConsumerCell
  BY <1>1 DEF ProducerCell, ConsumerCell
<1>5. ASSUME NEW u \in Threads PROVE Knows(u)'
  <2>1. Knows(u)  BY DEF IInv
  <2>2. CASE u = r
    BY <1>1, <1>2, <1>4, <2>1, <2>2
       DEF Knows, Storing, Discarding, Resizing, InCall, F!Calls
  <2>3. CASE u # r
    BY <1>1, <1>2, <1>4, <2>1, <2>3, StillKnows DEF Knows, Storing, Discarding, Resizing
  <2> QED  BY <2>2, <2>3
<1> QED  BY <1>3, <1>5 DEF IInv

LEMMA InvPStore == ASSUME IInv, NEW p \in Producers, PStore(p) PROVE IInv'
<1>0. p \in Threads /\ pc[p] = "store" /\ Knows(p)  BY Roles DEF PStore, IInv
<1>1. /\ ring.size # 0 /\ call[p] \in F!Calls(p) /\ call[p].op = "produce"
      /\ lock["producer"] = p /\ ProducerCell = Null
  BY <1>0 DEF Knows, Storing, InCall
<1>2. call[p].item \in Item  BY <1>0, <1>1, CallsOf
<1>3. /\ ring.size \in Sizes /\ ring.size \in Nat \ {0} /\ ring.producer \in 0 .. ring.size
      /\ ring.consumer \in 0 .. (ring.size - 1) /\ ring.consumer \in 0 .. ring.size
      /\ ring.queue \in [0 .. ring.size -> Item \cup {Null}]
  BY <1>1, IndexIs DEF IInv
<1>4. /\ ring'.producer = Advance(ring.producer)
      /\ ring'.consumer = ring.consumer /\ ring'.size = ring.size
      /\ ring'.queue = [ring.queue EXCEPT ![ring.producer] = call[p].item]
      /\ Fields'
  BY <1>1, AfterStore
<1>5. Advance(ring.producer) \in 0 .. ring.size  BY <1>3, AdvanceIs
<1>6. RingTypes'
  <2>1. ring'.size \in Sizes \cup {0} /\ ring'.producer \in 0 .. ring'.size
    BY <1>3, <1>4, <1>5
  <2>2. ring'.queue \in [0 .. ring'.size -> Item \cup {Null}]
    BY <1>2, <1>3, <1>4
  <2> QED  BY <1>3, <1>4, <2>1, <2>2 DEF RingTypes
<1>7. /\ CallTypes' /\ pc'[p] = "idle"
      /\ \A u \in Threads \ {p} : pc'[u] = pc[u] /\ call'[u] = call[u]
  BY <1>0, Answered DEF PStore
<1>8. /\ lock' = [lock EXCEPT !["producer"] = Free] /\ ptr' = ptr /\ moved' = moved
      /\ serial' = [serial EXCEPT ![p] = (serial[p] + 1) % Serials]
  BY DEF PStore
<1>9. OtherTypes'
  <2>1. serial \in [Producers -> 0 .. (Serials - 1)]  BY DEF IInv, TypeOK
  <2>2. (serial[p] + 1) % Serials \in 0 .. (Serials - 1)
    <3>1. serial[p] + 1 \in Int  BY <2>1
    <3>2. Serials \in Nat \ {0}  BY PtrAssumption
    <3> QED  BY <3>1, <3>2
  <2>3. serial' \in [Producers -> 0 .. (Serials - 1)]  BY <1>8, <2>1, <2>2
  <2> QED  BY <1>8, <2>3 DEF IInv, TypeOK, OtherTypes
<1>10. /\ LockTypes' /\ lock'["consumer"] = lock["consumer"]
  BY <1>8 DEF LockTypes, IInv, TypeOK
<1>11. TypeOK' /\ CallFunction'
  BY <1>6, <1>7, <1>9, <1>10, TypesAreThen DEF TypeParts
<1>12. ASSUME NEW u \in Threads PROVE Knows(u)'
  <2>1. Knows(u)  BY DEF IInv
  <2>2. CASE u = p  BY <1>7, <2>2, IdleKnows
  <2>3. CASE u # p
    <3>1. pc[u] \notin {"store", "drain", "swap"}
      BY <1>1, <2>1, <2>3 DEF Knows, Storing, Resizing
    <3>2. pc[u] = "discard" => ConsumerCell' = ConsumerCell
      <4> SUFFICES ASSUME pc[u] = "discard" PROVE ConsumerCell' = ConsumerCell  OBVIOUS
      <4>1. ConsumerCell # Null  BY <2>1 DEF Knows, Discarding
      <4>2. ring.consumer # ring.producer  BY <1>1, <4>1 DEF ConsumerCell, ProducerCell
      <4> QED  BY <1>3, <1>4, <4>2 DEF ConsumerCell
    <3> QED
      BY <1>4, <1>7, <1>8, <1>10, <2>1, <2>3, <3>1, <3>2, StillKnows
         DEF Knows, Discarding
  <2> QED  BY <2>2, <2>3
<1> QED  BY <1>4, <1>11, <1>12 DEF IInv

(* The ring after a pointer has left it                                      *)
LEMMA DiscardKeepsTypes ==
    ASSUME IInv, ring.size # 0, ring' = Discarded
    PROVE  /\ RingTypes' /\ Fields' /\ ring'.size = ring.size
           /\ ring'.producer = ring.producer
           /\ ProducerCell = Null => ProducerCell' = Null
<1>1. /\ ring.size \in Sizes /\ ring.size \in Nat \ {0} /\ ring.producer \in 0 .. ring.size
      /\ ring.consumer \in 0 .. ring.size
      /\ ring.queue \in [0 .. ring.size -> Item \cup {Null}]
  BY IndexIs DEF IInv
<1>2. /\ ring'.producer = ring.producer
      /\ ring'.consumer = Advance(ring.consumer) /\ ring'.size = ring.size
      /\ ring'.queue = [ring.queue EXCEPT ![ring.consumer] = Null]
      /\ Fields'
  BY AfterDiscard
<1>3. Advance(ring.consumer) \in 0 .. (ring.size - 1)  BY <1>1, AdvanceIs
<1>4. ring'.queue \in [0 .. ring'.size -> Item \cup {Null}]  BY <1>1, <1>2
<1>5. RingTypes'  BY <1>1, <1>2, <1>3, <1>4 DEF RingTypes
<1>6. ProducerCell = Null => ProducerCell' = Null  BY <1>1, <1>2 DEF ProducerCell
<1> QED  BY <1>2, <1>5, <1>6

LEMMA InvCDiscard == ASSUME IInv, NEW c \in Consumers, CDiscard(c) PROVE IInv'
<1>0. c \in Threads /\ pc[c] = "discard" /\ Knows(c)  BY Roles DEF CDiscard, IInv
<1>1. ring.size # 0 /\ lock["consumer"] = c /\ ConsumerCell # Null
  BY <1>0 DEF Knows, Discarding, InCall
<1>2. /\ RingTypes' /\ Fields' /\ ring'.size = ring.size
      /\ ProducerCell = Null => ProducerCell' = Null
  BY <1>1, DiscardKeepsTypes DEF CDiscard
<1>3. /\ CallTypes' /\ pc'[c] = "idle"
      /\ \A u \in Threads \ {c} : pc'[u] = pc[u] /\ call'[u] = call[u]
  BY <1>0, Answered DEF CDiscard
<1>4. /\ lock' = [lock EXCEPT !["consumer"] = Free] /\ ptr' = [ptr EXCEPT ![c] = Null]
      /\ moved' = moved /\ serial' = serial
  BY DEF CDiscard
<1>5. LockTypes' /\ OtherTypes' /\ lock'["producer"] = lock["producer"]
  BY <1>4 DEF LockTypes, OtherTypes, IInv, TypeOK
<1>6. TypeOK' /\ CallFunction'
  BY <1>2, <1>3, <1>5, TypesAreThen DEF TypeParts
<1>7. ASSUME NEW u \in Threads PROVE Knows(u)'
  <2>1. Knows(u)  BY DEF IInv
  <2>2. CASE u = c  BY <1>3, <2>2, IdleKnows
  <2>3. CASE u # c
    <3>1. pc[u] # "discard"  BY <1>1, <2>1, <2>3 DEF Knows, Discarding
    <3>2. pc[u] # "swap"  BY <1>1, <2>1 DEF Knows, Resizing
    <3>3. pc[u] = "store" => ProducerCell' = ProducerCell
      BY <1>2, <2>1 DEF Knows, Storing
    <3>4. u \in Consumers => ptr'[u] = ptr[u]  BY <1>4, <2>3 DEF IInv, TypeOK
    <3> QED
      BY <1>2, <1>3, <1>5, <2>1, <2>3, <3>1, <3>2, <3>3, <3>4, StillKnows
         DEF Knows, Storing, Resizing
  <2> QED  BY <2>2, <2>3
<1> QED  BY <1>2, <1>6, <1>7 DEF IInv

LEMMA InvRMove == ASSUME IInv, NEW r \in Resizers, RMove(r) PROVE IInv'
<1>0. r \in Threads /\ pc[r] = "drain" /\ Knows(r)  BY Roles DEF RMove, IInv
<1>1. /\ ring.size # 0 /\ lock["producer"] = r /\ lock["consumer"] = Free
      /\ ConsumerCell # Null
  BY <1>0 DEF Knows, Resizing, InCall, RMove
<1>2. RingTypes' /\ Fields' /\ ring'.size = ring.size
  BY <1>1, DiscardKeepsTypes DEF RMove
<1>3. /\ CallTypes' /\ pc'[r] = "drain"
      /\ \A u \in Threads : call'[u] = call[u]
      /\ \A u \in Threads \ {r} : pc'[u] = pc[u]
  BY <1>0, Went DEF Pcs, RMove
<1>4. /\ lock' = lock /\ ptr' = ptr /\ moved' = Append(moved, ConsumerCell)
      /\ serial' = serial
  BY DEF RMove
<1>5. LockTypes' /\ OtherTypes'
  <2>1. ConsumerCell \in Item  BY <1>1, IndexIs DEF IInv
  <2>2. moved' \in Seq(Item)  BY <1>4, <2>1, AppendProperties DEF IInv, TypeOK
  <2> QED  BY <1>4, <2>2 DEF LockTypes, OtherTypes, IInv, TypeOK
<1>6. TypeOK' /\ CallFunction'
  BY <1>2, <1>3, <1>5, TypesAreThen DEF TypeParts
<1>7. ASSUME NEW u \in Threads PROVE Knows(u)'
  <2>1. Knows(u)  BY DEF IInv
  <2>2. CASE u = r
    BY <1>0, <1>1, <1>2, <1>3, <1>4, <2>2
       DEF Knows, Storing, Discarding, Resizing, InCall, F!Calls
  <2>3. CASE u # r
    <3>1. pc[u] \notin {"store", "drain", "swap"}
      BY <1>1, <2>1, <2>3 DEF Knows, Storing, Resizing
    <3>2. pc[u] # "discard"  BY <1>1, <2>1, Roles DEF Knows, Discarding
    <3> QED
      BY <1>2, <1>3, <1>4, <2>1, <2>3, <3>1, <3>2, StillKnows
  <2> QED  BY <2>2, <2>3
<1> QED  BY <1>2, <1>6, <1>7 DEF IInv

LEMMA InvRSwap == ASSUME IInv, NEW r \in Resizers, RSwap(r) PROVE IInv'
<1>0. r \in Threads /\ pc[r] = "swap" /\ Knows(r)  BY Roles DEF RSwap, IInv
<1>1. /\ lock["producer"] = r /\ ConsumerCell = Null
      /\ call[r] \in F!Calls(r) /\ call[r].op = "resize"
  BY <1>0 DEF Knows, Resizing, InCall
<1>2. call[r].size \in Sizes  BY <1>0, <1>1, CallsOf
<1> DEFINE n == call[r].size
<1>3. n \in Nat \ {0}  BY <1>2, PtrAssumption
<1>4. /\ ring'.producer \in 0 .. n /\ ring'.consumer = 0 /\ ring'.size = n
      /\ ring'.queue \in [0 .. n -> Item \cup {Null}]
      /\ Fields'
  <2>1. moved \in Seq(Item) /\ ring' = Resized(n)  BY DEF IInv, TypeOK, RSwap
  <2> QED  BY <1>2, <2>1, AfterSwap
<1>5. RingTypes'  BY <1>2, <1>3, <1>4 DEF RingTypes
<1>6. /\ CallTypes' /\ pc'[r] = "idle"
      /\ \A u \in Threads \ {r} : pc'[u] = pc[u] /\ call'[u] = call[u]
  BY <1>0, Answered DEF RSwap
<1>7. /\ lock' = [lock EXCEPT !["producer"] = Free] /\ ptr' = ptr /\ moved' = << >>
      /\ serial' = serial
  BY DEF RSwap
<1>8. LockTypes' /\ OtherTypes'
  BY <1>7, EmptySeq DEF LockTypes, OtherTypes, IInv, TypeOK
<1>9. TypeOK' /\ CallFunction'
  BY <1>5, <1>6, <1>8, TypesAreThen DEF TypeParts
<1>10. ASSUME NEW u \in Threads PROVE Knows(u)'
  <2>1. Knows(u)  BY DEF IInv
  <2>2. CASE u = r  BY <1>6, <2>2, IdleKnows
  <2>3. CASE u # r
    <3>1. pc[u] \notin {"store", "drain", "swap"}
      BY <1>1, <2>1, <2>3 DEF Knows, Storing, Resizing
    <3>2. pc[u] # "discard"  BY <1>1, <2>1 DEF Knows, Discarding
    <3>3. InCall(u)'
      BY <1>3, <1>4, <1>6, <2>1, <2>3 DEF Knows, InCall, F!Calls
    <3> QED
      BY <1>6, <2>3, <3>1, <3>2, <3>3 DEF Knows, Storing, Discarding, Resizing
  <2> QED  BY <2>2, <2>3
<1> QED  BY <1>4, <1>9, <1>10 DEF IInv

LEMMA InvSetup == ASSUME IInv, Cleanup \/ Setup PROVE IInv'
<1>1. /\ UNCHANGED <<lock, call, pc, ptr, moved, serial>>
  BY DEF Cleanup, Setup
<1>2. \A t \in Threads : pc[t] = "idle"
  BY DEF Cleanup, Idle, Setup, IInv, Knows, InCall
<1>3. RingTypes' /\ Fields'
  <2>1. CASE Cleanup
    <3>1. /\ ring'.producer = 0 /\ ring'.consumer = 0 /\ ring'.size = 0
          /\ Fields'
      BY <2>1 DEF Cleanup, NoRing, Fields
    <3> QED  BY <3>1 DEF RingTypes
  <2>2. CASE Setup
    <3>1. PICK n \in Sizes : ring' = NewRing(n)  BY <2>2 DEF Setup
    <3>2. n \in Nat \ {0}  BY PtrAssumption
    <3>3. /\ ring'.producer = 0 /\ ring'.consumer = 0 /\ ring'.size = n
          /\ ring'.queue = [i \in 0 .. n |-> Null]
      BY <3>1, AfterSetup
    <3>4. Fields'  BY <3>1, AfterSetup DEF Fields
    <3> QED  BY <3>2, <3>3, <3>4 DEF RingTypes
  <2> QED  BY <2>1, <2>2
<1>4. TypeOK' /\ CallFunction'
  BY <1>1, <1>3, TypesAre, TypesAreThen
     DEF IInv, TypeParts, OtherTypes, LockTypes, CallTypes, CallFunction
<1>5. \A t \in Threads : Knows(t)'
  BY <1>1, <1>2 DEF Knows, Storing, Discarding, Resizing, InCall
<1> QED  BY <1>3, <1>4, <1>5 DEF IInv

LEMMA InvNext == IInv /\ [Next]_vars => IInv'
<1> SUFFICES ASSUME IInv, [Next]_vars PROVE IInv'  OBVIOUS
<1>1. CASE UNCHANGED vars
  BY <1>1 DEF vars, IInv, TypeOK, Fields, CallFunction, Knows, Storing, Discarding,
              Resizing, InCall, F!Calls, ProducerCell, ConsumerCell
<1>2. ASSUME NEW t \in Threads, Invoke(t) PROVE IInv'  BY <1>2, InvInvoke
<1>3. ASSUME NEW p \in Producers, PTest(p) \/ PStore(p) \/ Full(p) PROVE IInv'
  <2>1. CASE Full(p)
    BY <2>1, Roles, InvAnswer DEF Full, Starts
  <2> QED  BY <1>3, <2>1, InvPTest, InvPStore
<1>4. ASSUME NEW c \in Consumers, CPeek(c) \/ CDiscard(c) \/ Peek(c) PROVE IInv'
  <2>1. CASE Peek(c)
    BY <2>1, Roles, InvAnswer DEF Peek, Starts
  <2> QED  BY <1>4, <2>1, InvCPeek, InvCDiscard
<1>5. ASSUME NEW r \in Resizers,
             RNoMemory(r) \/ RLock(r) \/ RMove(r) \/ RDrained(r) \/ RSwap(r)
      PROVE  IInv'
  <2>1. CASE RNoMemory(r)
    BY <2>1, Roles, InvAnswer DEF RNoMemory
  <2> QED  BY <1>5, <2>1, InvRLock, InvRMove, InvRDrained, InvRSwap
<1>6. CASE Cleanup \/ Setup  BY <1>6, InvSetup
<1> QED  BY <1>1, <1>2, <1>3, <1>4, <1>5, <1>6 DEF Next, Step

(* Whatever the threads do, the indices stay inside the array (or, after a   *)
(* resize that fills it, one behind), every cell and every pointer in hand   *)
(* is a pointer that was produced or NULL, and the locks have one holder.    *)
THEOREM TypeCorrect == Spec => []TypeOK
<1>1. IInv => TypeOK  BY DEF IInv
<1> QED  BY InvInit, InvNext, <1>1, PTL DEF Spec

-----------------------------------------------------------------------------
(* The ring as a FIFO.  Way is how far a cell is behind the consumer's, and  *)
(* At the cell that is k behind it: the two sides of the wrap-around.        *)

Way(n, c, i) == IF i >= c THEN i - c ELSE i - c + n
At(n, c, k)  == IF c + k < n THEN c + k ELSE c + k - n

LEMMA WayAt ==
    ASSUME NEW n \in Nat \ {0}, NEW c \in 0 .. (n - 1)
    PROVE  /\ \A k \in 0 .. (n - 1) : /\ At(n, c, k) \in 0 .. (n - 1)
                                      /\ Way(n, c, At(n, c, k)) = k
                                      /\ (c + k) % n = At(n, c, k)
           /\ \A i \in 0 .. (n - 1) : /\ Way(n, c, i) \in 0 .. (n - 1)
                                      /\ At(n, c, Way(n, c, i)) = i
                                      /\ Way(n, c, i) = 0 <=> i = c
           /\ At(n, c, 0) = c
<1>1. ASSUME NEW k \in 0 .. (n - 1)
      PROVE  /\ At(n, c, k) \in 0 .. (n - 1)
             /\ Way(n, c, At(n, c, k)) = k
  BY SMT DEF At, Way
<1>2. ASSUME NEW k \in 0 .. (n - 1) PROVE (c + k) % n = At(n, c, k)
  <2>1. CASE c + k < n
    <3>1. c + k \in 0 .. (n - 1)  BY <2>1
    <3>2. (c + k) % n = c + k  BY <3>1
    <3> QED  BY <2>1, <3>2 DEF At
  <2>2. CASE ~ (c + k < n)
    <3> DEFINE m == c + k - n
    <3>1. m \in 0 .. (n - 1)  BY <2>2
    <3>2. m % n = m  BY <3>1
    <3>3. c + k = m + n  OBVIOUS
    <3> HIDE DEF m
    <3>4. (m + n) % n = m % n  BY <3>1
    <3>5. (c + k) % n = m  BY <3>2, <3>3, <3>4
    <3> QED  BY <2>2, <3>5 DEF At, m
  <2> QED  BY <2>1, <2>2
<1>3. ASSUME NEW i \in 0 .. (n - 1)
      PROVE  /\ Way(n, c, i) \in 0 .. (n - 1)
             /\ At(n, c, Way(n, c, i)) = i
             /\ Way(n, c, i) = 0 <=> i = c
  BY SMT DEF At, Way
<1>4. At(n, c, 0) = c  BY DEF At
<1> QED  BY <1>1, <1>2, <1>3, <1>4

LEMMA WayOfAt ==
    ASSUME NEW n \in Nat \ {0}, NEW c \in 0 .. (n - 1), NEW k \in 0 .. (n - 1)
    PROVE  At(n, c, k) \in 0 .. (n - 1) /\ Way(n, c, At(n, c, k)) = k
BY SMT DEF At, Way

LEMMA AtIs ==
    ASSUME NEW n \in Nat \ {0}, NEW c \in 0 .. (n - 1), NEW k \in 0 .. (n - 1)
    PROVE  At(n, c, k) \in 0 .. (n - 1) /\ Way(n, c, At(n, c, k)) = k /\ (c + k) % n = At(n, c, k)
BY WayAt

LEMMA WayIs ==
    ASSUME NEW n \in Nat \ {0}, NEW c \in 0 .. (n - 1), NEW i \in 0 .. (n - 1)
    PROVE  Way(n, c, i) \in 0 .. (n - 1) /\ At(n, c, Way(n, c, i)) = i
BY WayAt

LEMMA WayZero ==
    ASSUME NEW n \in Nat \ {0}, NEW c \in 0 .. (n - 1), NEW i \in 0 .. (n - 1)
    PROVE  (Way(n, c, i) = 0 <=> i = c) /\ Way(n, c, c) = 0
BY WayAt

(* The run of taken cells: how many there are, and where the producer is.    *)
Taken == {i \in Cells : ring.queue[i] # Null}
Held  == Cardinality(Taken)
Last  == IF ring.producer = ring.size THEN 0 ELSE ring.producer

Run ==
    ring.size # 0 =>
        /\ \A i \in Cells : ring.queue[i] # Null <=> Way(ring.size, ring.consumer, i) < Held
        /\ Held < ring.size => Way(ring.size, ring.consumer, Last) = Held
        /\ Held = ring.size => Last = ring.consumer
Inside == \A t \in Threads : pc[t] = "store" => ring.producer < ring.size
Moving == moved # << >> => \E r \in Resizers : pc[r] \in {"drain", "swap"}
Kept   == Exclusive /\ ~ PastEnd /\ (Idle(Resizers) \/ Idle(Consumers))

RunInv == IInv /\ Run /\ Inside /\ Moving /\ Kept

LEMMA HeldIs ==
    ASSUME TypeOK, ring.size # 0
    PROVE  /\ IsFiniteSet(Taken) /\ Held \in 0 .. ring.size
           /\ Held = 0 <=> Taken = {}
           /\ Held = ring.size <=> Taken = Cells
<1>1. ring.size \in Nat \ {0}  BY IndexIs
<1>2. IsFiniteSet(Cells) /\ Cardinality(Cells) = ring.size
  <2>1. 0 \in Int /\ ring.size - 1 \in Int /\ ~ (0 > ring.size - 1)
        /\ ring.size - 1 - 0 + 1 = ring.size
    BY <1>1
  <2> QED  BY <2>1, FS_Interval DEF Cells
<1>3. Taken \in SUBSET Cells  BY DEF Taken
<1>4. /\ IsFiniteSet(Taken) /\ Held <= ring.size
      /\ ring.size = Held => Cells = Taken
  BY <1>2, <1>3, FS_Subset DEF Held
<1>5. Held \in Nat  BY <1>4, FS_CardinalityType DEF Held
<1>6. Held = 0 <=> Taken = {}  BY <1>4, FS_EmptySet DEF Held
<1>7. Held \in 0 .. ring.size  BY <1>1, <1>4, <1>5
<1>8. Taken = Cells => Held = ring.size  BY <1>2 DEF Held
<1> QED  BY <1>4, <1>6, <1>7, <1>8

LEMMA StoredIs ==
    ASSUME TypeOK, Run
    PROVE  /\ Stored \in Seq(Item)
           /\ ring.size = 0 => Stored = << >>
           /\ ring.size # 0 =>
                /\ Len(Stored) = Held
                /\ \A j \in 1 .. Held : Stored[j] = ring.queue[At(ring.size, ring.consumer, j - 1)]
<1>1. CASE ring.size = 0
  <2>1. Stored = [j \in 1 .. 0 |-> ring.queue[(ring.consumer + j - 1) % ring.size]]
    BY <1>1 DEF Stored
  <2>2. Stored = << >>  BY <2>1
  <2> QED  BY <1>1, <2>2, EmptySeq
<1>2. CASE ring.size # 0
  <2> DEFINE n == ring.size
             c == ring.consumer
             q == ring.queue
  <2>1. /\ n \in Nat \ {0} /\ c \in 0 .. (n - 1) /\ q \in [0 .. n -> Item \cup {Null}]
    BY <1>2, IndexIs
  <2>2. Held \in 0 .. n  BY <1>2, HeldIs
  <2>3. Stored = [j \in 1 .. Held |-> q[(c + j - 1) % n]]
    BY <1>2 DEF Stored, Held, Taken
  <2>4. \A i \in 0 .. (n - 1) : q[i] # Null <=> Way(n, c, i) < Held
    BY <1>2 DEF Run, Cells
  <2> HIDE DEF n, c, q
  <2>5. ASSUME NEW j \in 1 .. Held
        PROVE  /\ q[(c + j - 1) % n] = q[At(n, c, j - 1)]
               /\ q[At(n, c, j - 1)] \in Item
    <3>1. j - 1 \in 0 .. (n - 1) /\ j - 1 < Held /\ c + (j - 1) = c + j - 1
      BY <2>1, <2>2
    <3>2. /\ At(n, c, j - 1) \in 0 .. (n - 1)
          /\ Way(n, c, At(n, c, j - 1)) = j - 1
          /\ (c + j - 1) % n = At(n, c, j - 1)
      <4> DEFINE k == j - 1
      <4>1. k \in 0 .. (n - 1) /\ c + k = c + j - 1  BY <3>1
      <4> HIDE DEF k
      <4>2. At(n, c, k) \in 0 .. (n - 1) /\ Way(n, c, At(n, c, k)) = k /\ (c + k) % n = At(n, c, k)
        <5>1. n \in Nat \ {0} /\ c \in 0 .. (n - 1) /\ k \in 0 .. (n - 1)  BY <2>1, <4>1
        <5> QED  BY <5>1, AtIs
      <4>3. (c + j - 1) % n = At(n, c, k)  BY <4>1, <4>2
      <4> QED  BY <4>2, <4>3 DEF k
    <3>3. At(n, c, j - 1) \in 0 .. n
      <4>1. 0 .. (n - 1) \subseteq 0 .. n  BY <2>1
      <4> QED  BY <3>2, <4>1
    <3> QED  BY <2>1, <2>4, <3>1, <3>2, <3>3
  <2>6. Held \in Nat /\ \A j \in 1 .. Held : q[(c + j - 1) % n] \in Item
    <3>1. Held \in Nat  BY <2>1, <2>2
    <3> QED  BY <3>1, <2>5
  <2>7. Stored \in Seq(Item) /\ Len(Stored) = Held
    BY <2>3, <2>6
  <2>8. \A j \in 1 .. Held : Stored[j] = q[At(n, c, j - 1)]
    BY <2>3, <2>5
  <2> QED  BY <1>2, <2>7, <2>8 DEF n, c, q
<1> QED  BY <1>1, <1>2

StoredFacts ==
    /\ Stored \in Seq(Item)
    /\ ring.size = 0 => Stored = << >>
    /\ ring.size # 0 =>
         /\ Len(Stored) = Held
         /\ \A j \in 1 .. Held : Stored[j] = ring.queue[At(ring.size, ring.consumer, j - 1)]

LEMMA StoredThen == TypeOK' /\ Run' => StoredFacts'
<1>1. TypeOK /\ Run => StoredFacts  BY StoredIs DEF StoredFacts
<1> QED  BY <1>1, PTL

(* What the cell that a side looks at says of the ring as a whole.           *)
LEMMA CellSays ==
    ASSUME TypeOK, Run, ring.size # 0
    PROVE  /\ ConsumerCell = Null <=> Held = 0
           /\ ConsumerCell # Null => ConsumerCell \in Item /\ Stored # << >> /\ Head(Stored) = ConsumerCell
           /\ ring.producer < ring.size => (ProducerCell # Null <=> Held = ring.size)
<1>1. /\ ring.size \in Nat \ {0} /\ ring.producer \in 0 .. ring.size
      /\ ring.consumer \in 0 .. (ring.size - 1)
      /\ ConsumerCell \in Item \cup {Null}
  BY IndexIs
<1>2. Held \in 0 .. ring.size  BY HeldIs
<1>3. Way(ring.size, ring.consumer, ring.consumer) = 0 /\ ring.consumer \in Cells
  BY <1>1, WayAt DEF Cells
<1>4. ConsumerCell # Null <=> 0 < Held  BY <1>3 DEF Run, ConsumerCell
<1>5. ConsumerCell = Null <=> Held = 0  BY <1>2, <1>4
<1>6. ASSUME ConsumerCell # Null
      PROVE  ConsumerCell \in Item /\ Stored # << >> /\ Head(Stored) = ConsumerCell
  <2>1. 1 \in 1 .. Held /\ 1 - 1 = 0  BY <1>2, <1>4, <1>6
  <2>2. Stored \in Seq(Item) /\ Len(Stored) = Held
        /\ Stored[1] = ring.queue[At(ring.size, ring.consumer, 1 - 1)]
    BY <2>1, StoredIs
  <2>3. Stored[1] = ConsumerCell
    <3>1. At(ring.size, ring.consumer, 1 - 1) = At(ring.size, ring.consumer, 0)  BY <2>1
    <3>2. At(ring.size, ring.consumer, 0) = ring.consumer  BY <1>1, WayAt
    <3> QED  BY <2>2, <3>1, <3>2 DEF ConsumerCell
  <2>4. Stored # << >>  BY <2>1, <2>2, EmptySeq
  <2> QED  BY <1>1, <1>6, <2>2, <2>3, <2>4
<1>7. ASSUME ring.producer < ring.size
      PROVE  ProducerCell # Null <=> Held = ring.size
  <2>1. ring.producer \in Cells /\ Last = ring.producer /\ ring.producer \in 0 .. (ring.size - 1)
    BY <1>1, <1>7 DEF Cells, Last
  <2>2. ProducerCell # Null <=> Way(ring.size, ring.consumer, ring.producer) < Held
    BY <2>1 DEF Run, ProducerCell
  <2>3. Held < ring.size => Way(ring.size, ring.consumer, ring.producer) = Held
    BY <2>1 DEF Run
  <2>4. Way(ring.size, ring.consumer, ring.producer) \in 0 .. (ring.size - 1)
    BY <1>1, <2>1, WayAt
  <2> QED  BY <1>1, <1>2, <2>2, <2>3, <2>4
<1> QED  BY <1>5, <1>6, <1>7

-----------------------------------------------------------------------------
(* The run after a store, a discard, a swap and a setup                      *)

LEMMA NextWay ==
    ASSUME NEW n \in Nat \ {0}, NEW c \in 0 .. (n - 1), NEW i \in 0 .. (n - 1), NEW d \in 0 .. (n - 1),
           d = IF i + 1 >= n THEN 0 ELSE i + 1
    PROVE  /\ Way(n, c, i) + 1 < n => Way(n, c, d) = Way(n, c, i) + 1
           /\ Way(n, c, i) + 1 = n => d = c
BY SMT DEF Way

LEMMA NextStart ==
    ASSUME NEW n \in Nat \ {0}, NEW c \in 0 .. (n - 1), NEW i \in 0 .. (n - 1), NEW d \in 0 .. (n - 1),
           d = IF c + 1 >= n THEN 0 ELSE c + 1
    PROVE  Way(n, d, i) = IF i = c THEN n - 1 ELSE Way(n, c, i) - 1
BY SMT DEF Way

LEMMA NextAt ==
    ASSUME NEW n \in Nat \ {0}, NEW c \in 0 .. (n - 1), NEW k \in 0 .. (n - 1), NEW d \in 0 .. (n - 1),
           d = IF c + 1 >= n THEN 0 ELSE c + 1, k + 1 < n
    PROVE  At(n, d, k) = At(n, c, k + 1)
BY SMT DEF At

LEMMA StoreRun ==
    ASSUME RunInv, TypeOK', NEW p \in Producers, PStore(p)
    PROVE  /\ Run' /\ Stored' = Append(Stored, call[p].item)
           /\ call[p].op = "produce" /\ moved = << >>
           /\ Len(Stored) < ring.size
<1>0. p \in Threads /\ pc[p] = "store" /\ Knows(p)  BY Roles DEF PStore, RunInv, IInv
<1>1. /\ ring.size # 0 /\ call[p] \in F!Calls(p) /\ call[p].op = "produce"
      /\ lock["producer"] = p /\ ProducerCell = Null
  BY <1>0 DEF Knows, Storing, InCall
<1> DEFINE n == ring.size
           c == ring.consumer
           i == ring.producer
           x == call[p].item
<1>2. x \in Item /\ x # Null  BY <1>0, <1>1, CallsOf, NullIsNone
<1>3. /\ n \in Nat \ {0} /\ c \in 0 .. (n - 1) /\ i \in 0 .. (n - 1) /\ i \in 0 .. n
      /\ ring.queue \in [0 .. n -> Item \cup {Null}]
  <2>1. i < n  BY <1>0 DEF RunInv, Inside
  <2> QED  BY <1>1, <2>1, IndexIs DEF RunInv, IInv
<1>4. /\ ring'.producer = Advance(i) /\ ring'.consumer = c /\ ring'.size = n
      /\ ring'.queue = [ring.queue EXCEPT ![i] = x]
  BY <1>1, AfterStore DEF RunInv
<1>5. Held < n /\ Way(n, c, i) = Held /\ Held \in Nat
  <2>1. Held \in 0 .. n /\ Held # n
    BY <1>1, <1>3, HeldIs, CellSays DEF RunInv, IInv
  <2>2. Last = i  BY <1>3 DEF Last
  <2> QED  BY <1>3, <2>1, <2>2 DEF RunInv, Run
<1>6. Held' = Held + 1
  <2>1. i \notin Taken /\ IsFiniteSet(Taken)
    BY <1>1, HeldIs DEF Taken, ProducerCell, RunInv, IInv
  <2>2. Taken' = Taken \cup {i}
    <3>1. Cells' = Cells /\ Cells = 0 .. (n - 1)  BY <1>4 DEF Cells
    <3>2. \A j \in 0 .. (n - 1) : ring'.queue[j] # Null <=> (ring.queue[j] # Null \/ j = i)
      BY <1>2, <1>3, <1>4
    <3> QED  BY <1>3, <3>1, <3>2 DEF Taken
  <2>3. Cardinality(Taken \cup {i}) = Cardinality(Taken) + 1  BY <2>1, FS_AddElement
  <2> QED  BY <2>2, <2>3 DEF Held
<1>7. Advance(i) = (IF i + 1 >= n THEN 0 ELSE i + 1) /\ Advance(i) \in 0 .. (n - 1)
  BY <1>3, AdvanceIs DEF Advance
<1>8. Run'
  <2>1. ASSUME NEW j \in 0 .. (n - 1)
        PROVE  ring'.queue[j] # Null <=> Way(n, c, j) < Held + 1
    <3>1. ring.queue[j] # Null <=> Way(n, c, j) < Held  BY <1>1 DEF RunInv, Run, Cells
    <3>2. Way(n, c, j) \in 0 .. (n - 1)  BY <1>3, WayAt
    <3>3. Way(n, c, j) = Held => j = i
      <4>1. At(n, c, Way(n, c, j)) = j /\ At(n, c, Way(n, c, i)) = i  BY <1>3, WayIs
      <4> QED  BY <1>5, <4>1
    <3>4. CASE j = i
      <4>1. ring'.queue[j] = x  BY <1>3, <1>4, <3>4
      <4>2. Way(n, c, j) < Held + 1  BY <1>5, <3>4
      <4> QED  BY <1>2, <4>1, <4>2
    <3>5. CASE j # i
      <4>1. ring'.queue[j] = ring.queue[j]  BY <1>3, <1>4, <3>5
      <4>2. Way(n, c, j) # Held  BY <3>3, <3>5
      <4>3. Way(n, c, j) \in Int  BY <1>3, <3>2
      <4>4. Way(n, c, j) < Held + 1 <=> Way(n, c, j) < Held
        <5> HIDE DEF n, c
        <5> QED  BY <1>5, <4>2, <4>3
      <4> QED  BY <3>1, <4>1, <4>4
    <3> QED  BY <3>4, <3>5
  <2>2. Last' = Advance(i)
    <3>1. Advance(i) # n  BY <1>3, <1>7
    <3> QED  BY <1>4, <3>1 DEF Last
  <2>3. /\ Way(n, c, i) + 1 < n => Way(n, c, Advance(i)) = Way(n, c, i) + 1
        /\ Way(n, c, i) + 1 = n => Advance(i) = c
    BY <1>3, <1>7, NextWay
  <2>4. Cells' = 0 .. (n - 1) /\ ring'.size = n /\ ring'.consumer = c  BY <1>4 DEF Cells
  <2> QED  BY <1>5, <1>6, <2>1, <2>2, <2>3, <2>4 DEF Run
<1>9. Stored' = Append(Stored, x)
  <2>0. /\ Stored \in Seq(Item) /\ Len(Stored) = Held
        /\ \A j \in 1 .. Held : Stored[j] = ring.queue[At(n, c, j - 1)]
    BY <1>1, StoredIs DEF RunInv, IInv
  <2>2. /\ Stored' \in Seq(Item) /\ Len(Stored') = Held + 1
        /\ \A j \in 1 .. (Held + 1) : Stored'[j] = ring'.queue[At(n, c, j - 1)]
    <3>1. TypeOK' /\ Run' /\ ring'.size # 0  BY <1>1, <1>4, <1>8
    <3>2. StoredFacts'  BY <3>1, StoredThen
    <3> QED  BY <1>4, <1>6, <3>1, <3>2 DEF StoredFacts
  <2>3. /\ Append(Stored, x) \in Seq(Item) /\ Len(Append(Stored, x)) = Held + 1
        /\ \A j \in 1 .. Held : Append(Stored, x)[j] = Stored[j]
        /\ Append(Stored, x)[Held + 1] = x
    BY <1>2, <2>0, AppendProperties
  <2>4. ASSUME NEW j \in 1 .. (Held + 1)
        PROVE  Stored'[j] = Append(Stored, x)[j]
    <3>1. CASE j = Held + 1
      <4>1. j - 1 = Held  BY <1>5, <3>1
      <4>2. At(n, c, Held) = i
        <5>1. At(n, c, Way(n, c, i)) = i  BY <1>3, WayIs
        <5> QED  BY <1>5, <5>1
      <4>3. At(n, c, j - 1) = At(n, c, Held)  BY <4>1
      <4>4. ring'.queue[i] = x  BY <1>3, <1>4
      <4> QED  BY <2>2, <2>3, <3>1, <4>2, <4>3, <4>4
    <3>2. CASE j # Held + 1
      <4>1. j \in 1 .. Held /\ j - 1 \in 0 .. (n - 1) /\ j - 1 # Held
        <5> HIDE DEF n
        <5> QED  BY <1>3, <1>5, <3>2
      <4>2. At(n, c, j - 1) \in 0 .. (n - 1) /\ Way(n, c, At(n, c, j - 1)) = j - 1
        <5>1. n \in Nat \ {0} /\ c \in 0 .. (n - 1)  BY <1>3
        <5> HIDE DEF n, c
        <5> QED  BY <4>1, <5>1, WayOfAt
      <4>3. At(n, c, j - 1) # i  BY <1>5, <4>1, <4>2
      <4>4. ring'.queue[At(n, c, j - 1)] = ring.queue[At(n, c, j - 1)]
        BY <1>3, <1>4, <4>2, <4>3
      <4> QED  BY <2>0, <2>2, <2>3, <4>1, <4>4
    <3> QED  BY <3>1, <3>2
  <2> QED  BY <2>2, <2>3, <2>4, SeqEqual
<1>10. moved = << >>
  <2> SUFFICES ASSUME moved # << >> PROVE FALSE  OBVIOUS
  <2>1. PICK r \in Resizers : pc[r] \in {"drain", "swap"}  BY DEF RunInv, Moving
  <2>2. r \in Threads /\ Knows(r) /\ r # p  BY Roles DEF RunInv, IInv
  <2> QED  BY <1>1, <2>1, <2>2 DEF Knows, Resizing
<1>11. Len(Stored) < ring.size  BY <1>1, <1>5, StoredIs DEF RunInv, IInv
<1> QED  BY <1>1, <1>8, <1>9, <1>10, <1>11

LEMMA DiscardRun ==
    ASSUME RunInv, TypeOK', ring.size # 0, ConsumerCell # Null, ring' = Discarded
    PROVE  /\ Run' /\ ConsumerCell \in Item /\ Stored # << >>
           /\ Head(Stored) = ConsumerCell /\ Stored' = Tail(Stored)
           /\ ring'.size = ring.size
<1> DEFINE n == ring.size
           c == ring.consumer
           d == Advance(c)
<1>1. /\ n \in Nat \ {0} /\ c \in 0 .. (n - 1) /\ c \in 0 .. n
      /\ ring.producer \in 0 .. n
      /\ ring.queue \in [0 .. n -> Item \cup {Null}]
  BY IndexIs DEF RunInv, IInv
<1>2. /\ ring'.producer = ring.producer /\ ring'.consumer = d /\ ring'.size = n
      /\ ring'.queue = [ring.queue EXCEPT ![c] = Null]
  BY AfterDiscard DEF RunInv
<1>3. Held \in 1 .. n
  <2>1. Held \in 0 .. n /\ Held # 0  BY HeldIs, CellSays DEF RunInv, IInv
  <2> QED  BY <1>1, <2>1
<1>4. Held' = Held - 1
  <2>1. c \in Taken /\ IsFiniteSet(Taken)
    BY <1>1, HeldIs DEF Taken, Cells, ConsumerCell, RunInv, IInv
  <2>2. Taken' = Taken \ {c}
    <3>1. Cells' = Cells /\ Cells = 0 .. (n - 1)  BY <1>2 DEF Cells
    <3>2. \A j \in 0 .. (n - 1) : ring'.queue[j] # Null <=> (ring.queue[j] # Null /\ j # c)
      BY <1>1, <1>2
    <3> QED  BY <3>1, <3>2 DEF Taken
  <2>3. Cardinality(Taken \ {c}) = Cardinality(Taken) - 1  BY <2>1, FS_RemoveElement
  <2> QED  BY <2>2, <2>3 DEF Held
<1>5. d = (IF c + 1 >= n THEN 0 ELSE c + 1) /\ d \in 0 .. (n - 1)
  BY <1>1, AdvanceIs DEF Advance
<1>6. Last \in 0 .. (n - 1) /\ Last' = Last
  BY <1>1, <1>2 DEF Last
<1>7. Run'
  <2>1. ASSUME NEW j \in 0 .. (n - 1)
        PROVE  ring'.queue[j] # Null <=> Way(n, d, j) < Held - 1
    <3>1. ring.queue[j] # Null <=> Way(n, c, j) < Held  BY DEF RunInv, Run, Cells
    <3>2. Way(n, d, j) = IF j = c THEN n - 1 ELSE Way(n, c, j) - 1
      BY <1>1, <1>5, NextStart
    <3>3. Way(n, c, j) \in 0 .. (n - 1)  BY <1>1, WayIs
    <3>4. CASE j = c
      <4>1. ring'.queue[j] = Null  BY <1>1, <1>2, <3>4
      <4>2. ~ (Way(n, d, j) < Held - 1)
        <5>1. Way(n, d, j) = n - 1  BY <3>2, <3>4
        <5> HIDE DEF n, d
        <5> QED  BY <1>1, <1>3, <5>1
      <4> QED  BY <4>1, <4>2
    <3>5. CASE j # c
      <4>1. ring'.queue[j] = ring.queue[j]  BY <1>1, <1>2, <3>5
      <4>2. Way(n, d, j) = Way(n, c, j) - 1  BY <3>2, <3>5
      <4>3. Way(n, d, j) < Held - 1 <=> Way(n, c, j) < Held
        <5> HIDE DEF n, c, d
        <5> QED  BY <1>1, <1>3, <3>3, <4>2
      <4> QED  BY <3>1, <4>1, <4>3
    <3> QED  BY <3>4, <3>5
  <2>2. Held - 1 < n /\ Held - 1 # n
    <3> HIDE DEF n
    <3> QED  BY <1>1, <1>3
  <2>3. Way(n, d, Last) = Held - 1
    <3>1. Way(n, d, Last) = IF Last = c THEN n - 1 ELSE Way(n, c, Last) - 1
      BY <1>1, <1>5, <1>6, NextStart
    <3>2. /\ Held < n => Way(n, c, Last) = Held
          /\ Held = n => Last = c
      BY DEF RunInv, Run
    <3>3. Way(n, c, Last) = 0 <=> Last = c  BY <1>1, <1>6, WayZero
    <3> HIDE DEF n, c, d
    <3>4. CASE Held = n  BY <3>1, <3>2, <3>4
    <3>5. CASE Held # n
      <4>1. Held < n /\ Held # 0  BY <1>1, <1>3, <3>5
      <4> QED  BY <3>1, <3>2, <3>3, <4>1
    <3> QED  BY <3>4, <3>5
  <2>4. Cells' = 0 .. (n - 1) /\ ring'.size = n /\ ring'.consumer = d  BY <1>2 DEF Cells
  <2> QED  BY <1>4, <1>6, <2>1, <2>2, <2>3, <2>4 DEF Run
<1>8. ConsumerCell \in Item /\ Stored # << >> /\ Head(Stored) = ConsumerCell
  BY CellSays DEF RunInv, IInv
<1>9. Stored' = Tail(Stored)
  <2>1. /\ Stored \in Seq(Item) /\ Len(Stored) = Held
        /\ \A j \in 1 .. Held : Stored[j] = ring.queue[At(n, c, j - 1)]
    BY StoredIs DEF RunInv, IInv
  <2>2. /\ Stored' \in Seq(Item) /\ Len(Stored') = Held - 1
        /\ \A j \in 1 .. (Held - 1) : Stored'[j] = ring'.queue[At(n, d, j - 1)]
    <3>1. TypeOK' /\ Run' /\ ring'.size # 0  BY <1>2, <1>7
    <3>2. StoredFacts'  BY <3>1, StoredThen
    <3> QED  BY <1>2, <1>4, <3>1, <3>2 DEF StoredFacts
  <2>3. /\ Tail(Stored) \in Seq(Item) /\ Len(Tail(Stored)) = Held - 1
        /\ \A j \in 1 .. (Held - 1) : Tail(Stored)[j] = Stored[j + 1]
    <3>1. /\ Tail(Stored) \in Seq(Item) /\ Len(Tail(Stored)) = Len(Stored) - 1
          /\ \A j \in 1 .. Len(Tail(Stored)) : Tail(Stored)[j] = Stored[j + 1]
      BY <1>8, <2>1, HeadTailProperties
    <3> QED  BY <2>1, <3>1
  <2>4. ASSUME NEW j \in 1 .. (Held - 1)
        PROVE  Stored'[j] = Tail(Stored)[j]
    <3>1. /\ j - 1 \in 0 .. (n - 1) /\ j \in 0 .. (n - 1) /\ (j - 1) + 1 < n
          /\ (j - 1) + 1 = j /\ j + 1 \in 1 .. Held /\ (j + 1) - 1 = j /\ j # 0
      <4> HIDE DEF n
      <4> QED  BY <1>1, <1>3
    <3>2. At(n, d, j - 1) = At(n, c, j)
      <4>1. At(n, d, j - 1) = At(n, c, (j - 1) + 1)  BY <1>1, <1>5, <3>1, NextAt
      <4> QED  BY <3>1, <4>1
    <3>3. Stored[j + 1] = ring.queue[At(n, c, j)]
      <4>1. Stored[j + 1] = ring.queue[At(n, c, (j + 1) - 1)]  BY <2>1, <3>1
      <4> QED  BY <3>1, <4>1
    <3>4. At(n, c, j) \in 0 .. (n - 1) /\ Way(n, c, At(n, c, j)) = j  BY <1>1, <3>1, AtIs
    <3>5. Way(n, c, c) = 0  BY <1>1, WayZero
    <3>6. At(n, c, j) # c  BY <3>1, <3>4, <3>5
    <3>7. ring'.queue[At(n, c, j)] = ring.queue[At(n, c, j)]
      BY <1>1, <1>2, <3>4, <3>6
    <3> QED  BY <2>2, <2>3, <3>2, <3>3, <3>7
  <2>5. Held - 1 \in Nat  BY <1>1, <1>3
  <2> QED  BY <2>2, <2>3, <2>4, <2>5, SeqEqual
<1> QED  BY <1>2, <1>7, <1>8, <1>9

(* A ring whose first k cells are taken and whose producer is at cell k.     *)
Packed ==
    /\ ring.size # 0 /\ ring.consumer = 0
    /\ \A i \in 0 .. (ring.size - 1) : ring.queue[i] # Null <=> i < ring.producer

LEMMA PackedRun ==
    ASSUME TypeOK, Packed
    PROVE  Run /\ Held = ring.producer
<1> USE DEF Packed
<1> DEFINE n == ring.size
           k == ring.producer
<1>1. n \in Nat \ {0} /\ k \in Nat /\ k <= n
  <2>1. n \in Nat \ {0} /\ k \in 0 .. n  BY IndexIs
  <2> HIDE DEF n, k
  <2> QED  BY <2>1
<1>2. Taken = 0 .. (k - 1)
  <2>1. \A i : i \in 0 .. (n - 1) /\ i < k <=> i \in 0 .. (k - 1)
    <3> HIDE DEF n, k
    <3> QED  BY <1>1
  <2>2. \A i : i \in Taken <=> i \in 0 .. (n - 1) /\ i < k  BY DEF Taken, Cells
  <2> QED  BY <2>1, <2>2
<1>3. Held = k
  <2>1. Cardinality(0 .. (k - 1)) = IF 0 > k - 1 THEN 0 ELSE k - 1 - 0 + 1
    <3>1. 0 \in Int /\ k - 1 \in Int  BY <1>1
    <3> QED  BY <3>1, FS_Interval
  <2> QED  BY <1>1, <1>2, <2>1 DEF Held
<1>4. \A i \in 0 .. (n - 1) : Way(n, 0, i) = i  BY <1>1 DEF Way
<1>5. \A i \in Cells : ring.queue[i] # Null <=> Way(ring.size, ring.consumer, i) < Held
  BY <1>3, <1>4 DEF Cells
<1>6. Held < n => Way(n, 0, Last) = Held
  <2>1. k < n => Last = k /\ k \in 0 .. (n - 1)  BY <1>1 DEF Last
  <2> QED  BY <1>3, <1>4, <2>1
<1>7. Held = n => Last = 0  BY <1>3 DEF Last
<1> QED  BY <1>3, <1>5, <1>6, <1>7 DEF Run

-----------------------------------------------------------------------------
(* What the steps have in common                                             *)

LEMMA PackedThen == TypeOK' /\ Packed' => Run' /\ (Held = ring.producer)'
<1>1. TypeOK /\ Packed => Run /\ Held = ring.producer  BY PackedRun
<1> QED  BY <1>1, PTL

LEMMA SameRing ==
    ASSUME RunInv, ring' = ring, moved' = moved
    PROVE  Run' /\ Stored' = Stored /\ (moved \o Stored)' = moved \o Stored
BY DEF RunInv, Run, Held, Taken, Last, Cells, Stored

LEMMA NothingMoved ==
    ASSUME RunInv, lock["producer"] = Free \/ \E c \in Consumers : pc[c] # "idle"
    PROVE  moved = << >>
<1> SUFFICES ASSUME moved # << >> PROVE FALSE  OBVIOUS
<1>1. PICK r \in Resizers : pc[r] \in {"drain", "swap"}  BY DEF RunInv, Moving
<1>2. r \in Threads /\ Knows(r)  BY Roles DEF RunInv, IInv
<1>3. lock["producer"] # Free  BY <1>1, <1>2, Roles DEF Knows, Resizing
<1>4. ~ Idle(Resizers)  BY <1>1 DEF Idle
<1> QED  BY <1>3, <1>4 DEF RunInv, Kept, Idle

LEMMA QueueIs ==
    ASSUME RunInv, moved = << >>
    PROVE  moved \o Stored = Stored
BY StoredIs, ConcatEmptySeq DEF RunInv, IInv

LEMMA StepKept ==
    ASSUME RunInv, NEW t \in Threads, pc[t] # "idle",
           \A u \in Threads \ {t} : pc'[u] = pc[u]
    PROVE  Kept'
<1>1. Exclusive /\ ~ PastEnd  BY DEF RunInv, Kept
<1>2. CASE Idle(Resizers)
  <2>1. t \notin Resizers  BY <1>2 DEF Idle
  <2>2. Idle(Resizers)'  BY <1>2, <2>1, Roles DEF Idle
  <2> QED  BY <1>1, <2>2 DEF Kept
<1>3. CASE Idle(Consumers)
  <2>1. t \notin Consumers  BY <1>3 DEF Idle
  <2>2. Idle(Consumers)'  BY <1>3, <2>1, Roles DEF Idle
  <2> QED  BY <1>1, <2>2 DEF Kept
<1> QED  BY <1>2, <1>3 DEF RunInv, Kept

(* Steps that leave the ring and moved alone                                 *)
LEMMA SameRingKept ==
    ASSUME RunInv, NEW t \in Threads, pc[t] # "idle",
           \A u \in Threads \ {t} : pc'[u] = pc[u],
           pc'[t] = "store" => ring.producer < ring.size,
           pc[t] \in {"drain", "swap"} => pc'[t] \in {"drain", "swap"},
           ring' = ring, moved' = moved, IInv'
    PROVE  RunInv' /\ (moved \o Stored)' = moved \o Stored
<1>1. Kept'  BY StepKept
<1>2. Run' /\ (moved \o Stored)' = moved \o Stored  BY SameRing
<1>3. Inside'
  <2> SUFFICES ASSUME NEW u \in Threads, pc'[u] = "store" PROVE ring.producer < ring.size
    BY DEF Inside
  <2>1. CASE u = t  BY <2>1
  <2>2. CASE u # t
    <3>1. pc[u] = "store"  BY <2>2
    <3> QED  BY <3>1 DEF RunInv, Inside
  <2> QED  BY <2>1, <2>2
<1>4. Moving'
  <2> SUFFICES ASSUME moved # << >>
               PROVE  \E r \in Resizers : pc'[r] \in {"drain", "swap"}
    BY DEF Moving
  <2>1. PICK r \in Resizers : pc[r] \in {"drain", "swap"}  BY DEF RunInv, Moving
  <2>2. r \in Threads  BY Roles
  <2> QED  BY <2>1, <2>2
<1> QED  BY <1>1, <1>2, <1>3, <1>4 DEF RunInv

LEMMA OldestIs ==
    ASSUME RunInv, ring.size # 0, moved = << >>
    PROVE  F!Oldest = ConsumerCell
<1>1. moved \o Stored = Stored  BY QueueIs
<1>2. TypeOK /\ Run  BY DEF RunInv, IInv
<1>3. CASE ConsumerCell = Null
  <2>1. Held = 0  BY <1>2, <1>3, CellSays
  <2>2. Stored \in Seq(Item) /\ Len(Stored) = Held  BY <1>2, StoredIs
  <2>3. Stored = << >>  BY <2>1, <2>2, EmptySeq
  <2> QED  BY <1>1, <1>3, <2>3 DEF F!Oldest
<1>4. CASE ConsumerCell # Null
  <2>1. Stored # << >> /\ Head(Stored) = ConsumerCell  BY <1>2, <1>4, CellSays
  <2> QED  BY <1>1, <2>1 DEF F!Oldest
<1> QED  BY <1>3, <1>4

LEMMA FullIs ==
    ASSUME RunInv, ring.size # 0, moved = << >>, ring.producer < ring.size
    PROVE  ProducerCell # Null <=> Len(moved \o Stored) = ring.size
<1>1. TypeOK /\ Run  BY DEF RunInv, IInv
<1>2. ProducerCell # Null <=> Held = ring.size  BY <1>1, CellSays
<1>3. Len(Stored) = Held  BY <1>1, StoredIs
<1> QED  BY <1>2, <1>3, QueueIs

-----------------------------------------------------------------------------
(* Every step of the ring is a step of the FIFO.                             *)

LEMMA InvokeStep ==
    ASSUME RunInv, NEW t \in Threads, Invoke(t)
    PROVE  RunInv' /\ F!FifoNext
<1>1. PICK c \in Calls(t) : call' = [call EXCEPT ![t] = c]  BY DEF Invoke
<1>2. c \in F!Calls(t)  BY CallsOfFifo DEF RunInv, IInv, TypeOK
<1>3. /\ ring' = ring /\ moved' = moved /\ ring.size # 0 /\ pc[t] = "idle"
      /\ pc' = [pc EXCEPT ![t] = "call"] /\ ans' = NoAns
      /\ Exclusive => /\ t \in Consumers => Idle(Resizers)
                      /\ t \in Resizers => Idle(Consumers)
  BY DEF Invoke
<1>4. IInv'  BY InvInvoke DEF RunInv
<1>5. Run' /\ (moved \o Stored)' = moved \o Stored  BY <1>3, SameRing
<1>6. pc'[t] = "call" /\ \A u \in Threads \ {t} : pc'[u] = pc[u]
  BY <1>3 DEF RunInv, IInv, TypeOK
<1>7. Kept'
  <2>1. Exclusive /\ ~ PastEnd /\ (Idle(Resizers) \/ Idle(Consumers))  BY DEF RunInv, Kept
  <2>2. CASE t \in Consumers
    <3>1. Idle(Resizers)'  BY <1>3, <1>6, <2>1, <2>2, Roles DEF Idle
    <3> QED  BY <2>1, <3>1 DEF Kept
  <2>3. CASE t \in Resizers
    <3>1. Idle(Consumers)'  BY <1>3, <1>6, <2>1, <2>3, Roles DEF Idle
    <3> QED  BY <2>1, <3>1 DEF Kept
  <2>4. CASE t \notin Consumers /\ t \notin Resizers
    <3>1. Idle(Resizers)' \/ Idle(Consumers)'  BY <1>6, <2>1, <2>4, Roles DEF Idle
    <3> QED  BY <2>1, <3>1 DEF Kept
  <2> QED  BY <2>2, <2>3, <2>4
<1>8. Inside'
  <2> SUFFICES ASSUME NEW u \in Threads, pc'[u] = "store" PROVE ring.producer < ring.size
    BY <1>3 DEF Inside
  <2>1. pc[u] = "store"  BY <1>6
  <2> QED  BY <2>1 DEF RunInv, Inside
<1>9. Moving'
  <2> SUFFICES ASSUME moved # << >>
               PROVE  \E r \in Resizers : pc'[r] \in {"drain", "swap"}
    BY <1>3 DEF Moving
  <2>1. PICK r \in Resizers : pc[r] \in {"drain", "swap"}  BY DEF RunInv, Moving
  <2> QED  BY <1>3, <1>6, <2>1, Roles
<1>10. call[t] = F!NoCall
  BY <1>3 DEF RunInv, IInv, TypeOK, NoCall, F!NoCall
<1>11. F!Invoke(t)
  BY <1>1, <1>2, <1>3, <1>5, <1>10 DEF F!Invoke, F!NoAns, NoAns
<1>12. t \in F!Threads  BY DEF F!Threads, Threads
<1> QED  BY <1>4, <1>5, <1>7, <1>8, <1>9, <1>11, <1>12 DEF RunInv, F!FifoNext

LEMMA AnswerIs == ASSUME NEW t, NEW a, Answer(t, a) PROVE F!Answer(t, a)
BY DEF Answer, F!Answer, NoCall, F!NoCall

LEMMA OneAnswer ==
    ASSUME RunInv, NEW t \in Threads, NEW a, Answer(t, a)
    PROVE  pc'[t] = "idle" /\ \A u \in Threads \ {t} : pc'[u] = pc[u]
BY DEF Answer, RunInv, IInv, TypeOK

LEMMA OneGoes ==
    ASSUME RunInv, NEW t \in Threads, NEW l, Goes(t, l)
    PROVE  pc'[t] = l /\ \A u \in Threads \ {t} : pc'[u] = pc[u]
BY DEF Goes, RunInv, IInv, TypeOK

LEMMA PTestStep ==
    ASSUME RunInv, IInv', NEW p \in Producers, PTest(p)
    PROVE  RunInv' /\ F!FifoNext
<1>1. /\ p \in Threads /\ pc[p] = "call" /\ call[p].op = "produce" /\ lock["producer"] = Free
      /\ InArray /\ ring' = ring /\ moved' = moved
  BY Roles DEF PTest, Starts
<1>2. ring.producer < ring.size  BY <1>1 DEF InArray, RunInv, Kept
<1>3. moved = << >>  BY <1>1, NothingMoved
<1>4. ring.size # 0  BY <1>1 DEF RunInv, IInv, Knows, InCall
<1>5. CASE ProducerCell # Null /\ Answer(p, "ENOSPC")
  <2>1. pc'[p] = "idle" /\ \A u \in Threads \ {p} : pc'[u] = pc[u]
    BY <1>1, <1>5, OneAnswer
  <2>2. RunInv' /\ (moved \o Stored)' = moved \o Stored
    BY <1>1, <2>1, SameRingKept
  <2>3. Len(moved \o Stored) = ring.size  BY <1>2, <1>3, <1>4, <1>5, FullIs
  <2>4. F!Answer(p, "ENOSPC")  BY <1>5, AnswerIs
  <2>5. F!Produce(p)  BY <1>1, <2>2, <2>3, <2>4 DEF F!Produce
  <2> QED  BY <2>2, <2>5 DEF F!FifoNext
<1>6. CASE Take(p, "producer", "store") /\ UNCHANGED call
  <2>1. pc'[p] = "store" /\ \A u \in Threads \ {p} : pc'[u] = pc[u]
    BY <1>1, <1>6, OneGoes DEF Take
  <2>2. RunInv' /\ (moved \o Stored)' = moved \o Stored
    BY <1>1, <1>2, <2>1, SameRingKept
  <2>3. F!Work  BY <1>1, <1>6, <2>2 DEF F!Work, Take, Goes, F!NoAns, NoAns
  <2> QED  BY <2>2, <2>3 DEF F!FifoNext
<1> QED  BY <1>5, <1>6 DEF PTest

LEMMA FullStep ==
    ASSUME RunInv, IInv', NEW p \in Producers, Full(p)
    PROVE  RunInv' /\ F!FifoNext
<1> DEFINE a == IF ProducerCell # Null THEN "yes" ELSE "no"
<1>1. /\ p \in Threads /\ pc[p] = "call" /\ call[p].op = "full" /\ lock["producer"] = Free
      /\ InArray /\ ring' = ring /\ moved' = moved /\ Answer(p, a)
  BY Roles DEF Full, Starts
<1>2. ring.producer < ring.size  BY <1>1 DEF InArray, RunInv, Kept
<1>3. moved = << >>  BY <1>1, NothingMoved
<1>4. ring.size # 0  BY <1>1 DEF RunInv, IInv, Knows, InCall
<1>5. pc'[p] = "idle" /\ \A u \in Threads \ {p} : pc'[u] = pc[u]
  BY <1>1, OneAnswer
<1>6. RunInv' /\ (moved \o Stored)' = moved \o Stored
  BY <1>1, <1>5, SameRingKept
<1>7. ProducerCell # Null <=> Len(moved \o Stored) = ring.size
  BY <1>2, <1>3, <1>4, FullIs
<1>8. a = IF Len(moved \o Stored) = ring.size THEN "yes" ELSE "no"  BY <1>7
<1>9. F!Answer(p, a)  BY <1>1, AnswerIs
<1>10. F!Full(p)  BY <1>1, <1>6, <1>8, <1>9 DEF F!Full
<1> QED  BY <1>6, <1>10 DEF F!FifoNext

LEMMA CPeekStep ==
    ASSUME RunInv, IInv', NEW c \in Consumers, CPeek(c)
    PROVE  RunInv' /\ F!FifoNext
<1>1. /\ c \in Threads /\ pc[c] = "call" /\ call[c].op = "consume"
      /\ ring' = ring /\ moved' = moved
  BY Roles DEF CPeek, Starts
<1>2. moved = << >>  BY <1>1, NothingMoved
<1>3. ring.size # 0  BY <1>1 DEF RunInv, IInv, Knows, InCall
<1>4. CASE ConsumerCell = Null /\ Answer(c, Null)
  <2>1. pc'[c] = "idle" /\ \A u \in Threads \ {c} : pc'[u] = pc[u]
    BY <1>1, <1>4, OneAnswer
  <2>2. RunInv' /\ (moved \o Stored)' = moved \o Stored
    BY <1>1, <2>1, SameRingKept
  <2>3. F!Oldest = Null  BY <1>2, <1>3, <1>4, OldestIs
  <2>4. moved \o Stored = << >>
    <3>1. Held = 0 /\ Len(Stored) = Held /\ Stored \in Seq(Item)
      BY <1>3, <1>4, CellSays, StoredIs DEF RunInv, IInv
    <3> QED  BY <1>2, <3>1, QueueIs, EmptySeq
  <2>5. F!Answer(c, F!Oldest)  BY <1>4, <2>3, AnswerIs
  <2>6. F!Consume(c)  BY <1>1, <2>2, <2>4, <2>5 DEF F!Consume
  <2> QED  BY <2>2, <2>6 DEF F!FifoNext
<1>5. CASE Take(c, "consumer", "discard") /\ UNCHANGED call
  <2>1. pc'[c] = "discard" /\ \A u \in Threads \ {c} : pc'[u] = pc[u]
    BY <1>1, <1>5, OneGoes DEF Take
  <2>2. RunInv' /\ (moved \o Stored)' = moved \o Stored
    BY <1>1, <2>1, SameRingKept
  <2>3. F!Work  BY <1>1, <1>5, <2>2 DEF F!Work, Take, Goes, F!NoAns, NoAns
  <2> QED  BY <2>2, <2>3 DEF F!FifoNext
<1> QED  BY <1>4, <1>5 DEF CPeek

LEMMA PeekStep ==
    ASSUME RunInv, IInv', NEW c \in Consumers, Peek(c)
    PROVE  RunInv' /\ F!FifoNext
<1>1. /\ c \in Threads /\ pc[c] = "call" /\ call[c].op = "peek"
      /\ ring' = ring /\ moved' = moved /\ Answer(c, ConsumerCell)
  BY Roles DEF Peek, Starts
<1>2. moved = << >>  BY <1>1, NothingMoved
<1>3. ring.size # 0  BY <1>1 DEF RunInv, IInv, Knows, InCall
<1>4. pc'[c] = "idle" /\ \A u \in Threads \ {c} : pc'[u] = pc[u]
  BY <1>1, OneAnswer
<1>5. RunInv' /\ (moved \o Stored)' = moved \o Stored
  BY <1>1, <1>4, SameRingKept
<1>6. F!Answer(c, F!Oldest)  BY <1>1, <1>2, <1>3, OldestIs, AnswerIs
<1>7. F!Peek(c)  BY <1>1, <1>5, <1>6 DEF F!Peek
<1> QED  BY <1>5, <1>7 DEF F!FifoNext

LEMMA ResizerStep ==
    ASSUME RunInv, IInv', NEW r \in Resizers, RNoMemory(r) \/ RLock(r) \/ RDrained(r)
    PROVE  RunInv' /\ F!FifoNext
<1>0. r \in Threads /\ ring' = ring /\ moved' = moved
  BY Roles DEF RNoMemory, RLock, RDrained
<1>1. CASE RNoMemory(r)
  <2>1. pc[r] = "call" /\ Answer(r, "ENOMEM")  BY <1>1 DEF RNoMemory
  <2>2. pc'[r] = "idle" /\ \A u \in Threads \ {r} : pc'[u] = pc[u]
    BY <1>0, <2>1, OneAnswer
  <2>3. RunInv' /\ (moved \o Stored)' = moved \o Stored
    BY <1>0, <2>1, <2>2, SameRingKept
  <2>4. call[r] \in F!Calls(r)  BY <1>0, <2>1 DEF RunInv, IInv, Knows, InCall
  <2>5. call[r].op = "resize"  BY <1>0, <2>4, CallsOf
  <2>6. F!Answer(r, "ENOMEM")  BY <2>1, AnswerIs
  <2>7. F!Resize(r)  BY <1>0, <2>3, <2>5, <2>6 DEF F!Resize
  <2> QED  BY <2>3, <2>7 DEF F!FifoNext
<1>2. ASSUME NEW l \in {"drain", "swap"}, Goes(r, l), pc[r] # "idle", UNCHANGED call
      PROVE  RunInv' /\ F!FifoNext
  <2>1. pc'[r] = l /\ \A u \in Threads \ {r} : pc'[u] = pc[u]
    BY <1>0, <1>2, OneGoes
  <2>2. RunInv' /\ (moved \o Stored)' = moved \o Stored
    BY <1>0, <1>2, <2>1, SameRingKept
  <2>3. F!Work  BY <1>0, <1>2, <2>2 DEF F!Work, Goes, F!NoAns, NoAns
  <2> QED  BY <2>2, <2>3 DEF F!FifoNext
<1>3. CASE RLock(r)  BY <1>2, <1>3 DEF RLock, Starts, Take
<1>4. CASE RDrained(r)  BY <1>2, <1>4 DEF RDrained
<1> QED  BY <1>1, <1>3, <1>4

LEMMA PStoreStep ==
    ASSUME RunInv, IInv', NEW p \in Producers, PStore(p)
    PROVE  RunInv' /\ F!FifoNext
<1>1. /\ p \in Threads /\ pc[p] = "store" /\ lock["producer"] = p
      /\ moved' = moved /\ Answer(p, "ok") /\ ring'.size = ring.size
  <2>1. p \in Threads /\ pc[p] = "store" /\ Knows(p)  BY Roles DEF PStore, RunInv, IInv
  <2>2. ring.size # 0  BY <2>1 DEF Knows, InCall
  <2>3. ring'.size = ring.size  BY <2>2, AfterStore DEF RunInv
  <2> QED  BY <2>1, <2>3 DEF Knows, Storing, PStore
<1>2. /\ Run' /\ Stored' = Append(Stored, call[p].item)
      /\ call[p].op = "produce" /\ moved = << >>
      /\ Len(Stored) < ring.size
  BY StoreRun DEF IInv
<1>3. pc'[p] = "idle" /\ \A u \in Threads \ {p} : pc'[u] = pc[u]
  BY <1>1, OneAnswer
<1>4. Kept'  BY <1>1, <1>3, StepKept
<1>5. Inside'
  <2>1. \A u \in Threads : pc'[u] # "store"
    <3> SUFFICES ASSUME NEW u \in Threads, u # p, pc[u] = "store" PROVE FALSE
      BY <1>3
    <3> QED  BY <1>1 DEF RunInv, IInv, Knows, Storing
  <2> QED  BY <2>1 DEF Inside
<1>6. Moving'  BY <1>1, <1>2 DEF Moving
<1>7. RunInv'  BY <1>2, <1>4, <1>5, <1>6 DEF RunInv
<1>8. moved \o Stored = Stored  BY <1>2, QueueIs
<1>9. (moved \o Stored)' = Stored'
  <2>1. Stored' \in Seq(Item)  BY <1>2, StoredThen DEF IInv, StoredFacts
  <2>2. << >> \o Stored' = Stored'  BY <2>1, ConcatEmptySeq
  <2> QED  BY <1>1, <1>2, <2>2
<1>10. F!Answer(p, "ok")  BY <1>1, AnswerIs
<1>11. F!Produce(p)  BY <1>1, <1>2, <1>8, <1>9, <1>10 DEF F!Produce
<1> QED  BY <1>7, <1>11 DEF F!FifoNext

LEMMA CDiscardStep ==
    ASSUME RunInv, IInv', NEW c \in Consumers, CDiscard(c)
    PROVE  RunInv' /\ F!FifoNext
<1>1. /\ c \in Threads /\ pc[c] = "discard" /\ call[c].op = "consume" /\ ring.size # 0
      /\ ptr[c] = ConsumerCell /\ ConsumerCell # Null
      /\ moved' = moved /\ Answer(c, ptr[c]) /\ ring' = Discarded
  <2>1. c \in Threads /\ pc[c] = "discard" /\ Knows(c)  BY Roles DEF CDiscard, RunInv, IInv
  <2> QED  BY <2>1 DEF Knows, Discarding, InCall, CDiscard
<1>2. /\ Run' /\ Stored # << >> /\ Head(Stored) = ConsumerCell /\ Stored' = Tail(Stored)
      /\ ring'.size = ring.size
  BY <1>1, DiscardRun DEF IInv
<1>3. moved = << >>  BY <1>1, NothingMoved
<1>4. pc'[c] = "idle" /\ \A u \in Threads \ {c} : pc'[u] = pc[u]
  BY <1>1, OneAnswer
<1>5. Kept'  BY <1>1, <1>4, StepKept
<1>6. Inside'
  <2>1. ring'.producer = ring.producer
    BY <1>1, AfterDiscard DEF RunInv
  <2>2. \A u \in Threads : pc'[u] = "store" => pc[u] = "store"  BY <1>4
  <2> QED  BY <1>2, <2>1, <2>2 DEF Inside, RunInv
<1>7. Moving'  BY <1>1, <1>3 DEF Moving
<1>8. RunInv'  BY <1>2, <1>5, <1>6, <1>7 DEF RunInv
<1>9. moved \o Stored = Stored  BY <1>3, QueueIs
<1>10. (moved \o Stored)' = Stored'
  <2>1. Stored' \in Seq(Item)  BY <1>2, StoredThen DEF IInv, StoredFacts
  <2>2. << >> \o Stored' = Stored'  BY <2>1, ConcatEmptySeq
  <2> QED  BY <1>1, <1>3, <2>2
<1>11. F!Oldest = ptr[c]  BY <1>1, <1>3, OldestIs
<1>12. F!Answer(c, F!Oldest)  BY <1>1, <1>11, AnswerIs
<1>13. F!Consume(c)  BY <1>1, <1>2, <1>9, <1>10, <1>12 DEF F!Consume
<1> QED  BY <1>8, <1>13 DEF F!FifoNext

(* Taking the head of a sequence to the end of the one before it             *)
LEMMA HeadMoves ==
    ASSUME NEW S, NEW s \in Seq(S), NEW t \in Seq(S), t # << >>
    PROVE  Append(s, Head(t)) \o Tail(t) = s \o t
<1>1. /\ Head(t) \in S /\ Tail(t) \in Seq(S) /\ Len(Tail(t)) = Len(t) - 1
      /\ \A i \in 1 .. Len(Tail(t)) : Tail(t)[i] = t[i + 1]
      /\ Head(t) = t[1]
  BY HeadTailProperties
<1>2. Append(s, Head(t)) = s \o <<Head(t)>>  BY <1>1, AppendIsConcat
<1>3. <<Head(t)>> \in Seq(S)  BY <1>1
<1>4. (s \o <<Head(t)>>) \o Tail(t) = s \o (<<Head(t)>> \o Tail(t))
  BY <1>1, <1>3, ConcatAssociative
<1>5. <<Head(t)>> \o Tail(t) = t
  <2> DEFINE h == <<Head(t)>>
  <2>1. Len(h) = 1 /\ h[1] = t[1]  BY <1>1
  <2>2. Len(t) \in Nat \ {0}  BY EmptySeq
  <2> HIDE DEF h
  <2>3. /\ h \o Tail(t) \in Seq(S)
        /\ Len(h \o Tail(t)) = Len(h) + Len(Tail(t))
        /\ \A i \in 1 .. Len(h) + Len(Tail(t)) :
              (h \o Tail(t))[i] = IF i <= Len(h) THEN h[i] ELSE Tail(t)[i - Len(h)]
    <3>1. h \in Seq(S)  BY <1>3 DEF h
    <3> QED  BY <1>1, <3>1, ConcatProperties
  <2>4. Len(h \o Tail(t)) = Len(t)  BY <1>1, <2>1, <2>2, <2>3
  <2>5. ASSUME NEW i \in 1 .. Len(t) PROVE (h \o Tail(t))[i] = t[i]
    <3>1. CASE i = 1
      <4>1. (h \o Tail(t))[i] = h[i]  BY <1>1, <2>1, <2>2, <2>3, <3>1
      <4> QED  BY <2>1, <3>1, <4>1
    <3>2. CASE i # 1
      <4>1. i - 1 \in 1 .. Len(Tail(t)) /\ (i - 1) + 1 = i /\ ~ (i <= 1)
        BY <1>1, <2>2, <3>2
      <4>2. (h \o Tail(t))[i] = Tail(t)[i - 1]
        BY <1>1, <2>1, <2>2, <2>3, <4>1
      <4> QED  BY <1>1, <4>1, <4>2
    <3> QED  BY <3>1, <3>2
  <2>6. h \o Tail(t) = t  BY <2>3, <2>4, <2>5, SeqEqual
  <2> QED  BY <2>6 DEF h
<1> QED  BY <1>2, <1>4, <1>5

LEMMA RMoveStep ==
    ASSUME RunInv, IInv', NEW r \in Resizers, RMove(r)
    PROVE  RunInv' /\ F!FifoNext
<1>1. /\ r \in Threads /\ pc[r] = "drain" /\ ring.size # 0
      /\ ConsumerCell # Null /\ ring' = Discarded
      /\ moved' = Append(moved, ConsumerCell) /\ Goes(r, "drain") /\ call' = call
  <2>1. r \in Threads /\ pc[r] = "drain" /\ Knows(r)  BY Roles DEF RMove, RunInv, IInv
  <2> QED  BY <2>1 DEF Knows, InCall, RMove
<1>2. /\ Run' /\ Stored # << >> /\ Head(Stored) = ConsumerCell /\ Stored' = Tail(Stored)
      /\ ring'.size = ring.size
  BY <1>1, DiscardRun DEF IInv
<1>3. pc'[r] = "drain" /\ \A u \in Threads \ {r} : pc'[u] = pc[u]
  BY <1>1, OneGoes
<1>4. Kept'  BY <1>1, <1>3, StepKept
<1>5. Inside'
  <2>1. ring'.producer = ring.producer
    BY <1>1, AfterDiscard DEF RunInv
  <2>2. \A u \in Threads : pc'[u] = "store" => pc[u] = "store"  BY <1>3
  <2> QED  BY <1>2, <2>1, <2>2 DEF Inside, RunInv
<1>6. Moving'  BY <1>3 DEF Moving
<1>7. RunInv'  BY <1>2, <1>4, <1>5, <1>6 DEF RunInv
<1>8. (moved \o Stored)' = moved \o Stored
  <2>1. moved \in Seq(Item) /\ Stored \in Seq(Item)
    BY StoredIs DEF RunInv, IInv, TypeOK
  <2> QED  BY <1>1, <1>2, <2>1, HeadMoves
<1>9. F!Work  BY <1>1, <1>2, <1>8 DEF F!Work, Goes, F!NoAns, NoAns
<1> QED  BY <1>7, <1>9 DEF F!FifoNext

LEMMA RSwapStep ==
    ASSUME RunInv, IInv', NEW r \in Resizers, RSwap(r)
    PROVE  RunInv' /\ F!FifoNext
<1>1. /\ r \in Threads /\ pc[r] = "swap" /\ Knows(r) /\ call[r] \in F!Calls(r)
      /\ call[r].op = "resize" /\ lock["producer"] = r /\ ConsumerCell = Null
      /\ ring.size # 0
  <2>1. r \in Threads /\ pc[r] = "swap" /\ Knows(r)  BY Roles DEF RSwap, RunInv, IInv
  <2> QED  BY <2>1 DEF Knows, InCall, Resizing
<1> DEFINE n == call[r].size
           k == Len(InNewArray(n))
<1>2. n \in Sizes /\ n \in Nat \ {0}
  <2>1. n \in Sizes  BY <1>1, CallsOf
  <2> QED  BY <2>1, PtrAssumption
<1>3. /\ ring' = Resized(n) /\ moved' = << >> /\ Answer(r, "ok")  BY DEF RSwap
<1>4. moved \in Seq(Item) /\ TypeOK /\ Run /\ TypeOK'  BY DEF RunInv, IInv, TypeOK
<1>5. /\ ring'.producer = k /\ ring'.consumer = 0 /\ ring'.size = n
      /\ ring'.queue = [i \in 0 .. n |-> IF i < k THEN moved[i + 1] ELSE Null]
  BY <1>2, <1>3, <1>4, AfterSwap
<1>6. /\ InNewArray(n) \in Seq(Item) /\ k \in 0 .. n /\ k \in Nat
      /\ \A i \in 1 .. k : InNewArray(n)[i] = moved[i] /\ moved[i] \in Item
  BY <1>2, <1>4, NewArray
<1>7. Packed'
  <2>1. ASSUME NEW i \in 0 .. (n - 1) PROVE ring'.queue[i] # Null <=> i < k
    <3>1. i \in 0 .. n  BY <1>2
    <3>2. ring'.queue[i] = IF i < k THEN moved[i + 1] ELSE Null  BY <1>5, <3>1
    <3>3. i < k => i + 1 \in 1 .. k
      <4> HIDE DEF n, k
      <4> QED  BY <1>2, <1>6
    <3> QED  BY <1>6, <3>2, <3>3, NullIsNone
  <2> QED  BY <1>2, <1>5, <2>1 DEF Packed
<1>8. Run' /\ Held' = k
  <2>1. Run' /\ (Held = ring.producer)'  BY <1>4, <1>7, PackedThen
  <2> QED  BY <1>5, <2>1
<1>9. Stored' = InNewArray(n)
  <2>1. /\ Stored' \in Seq(Item) /\ Len(Stored') = k
        /\ \A j \in 1 .. k : Stored'[j] = ring'.queue[At(n, 0, j - 1)]
    <3>1. StoredFacts' /\ ring'.size # 0  BY <1>2, <1>4, <1>5, <1>8, StoredThen
    <3> QED  BY <1>5, <1>8, <3>1 DEF StoredFacts
  <2>2. ASSUME NEW j \in 1 .. k PROVE Stored'[j] = InNewArray(n)[j]
    <3>1. j - 1 \in 0 .. (n - 1) /\ j - 1 \in 0 .. n /\ j - 1 < k /\ (j - 1) + 1 = j
      <4> HIDE DEF n, k
      <4> QED  BY <1>2, <1>6
    <3>2. At(n, 0, j - 1) = j - 1
      <4> HIDE DEF n
      <4> QED  BY <1>2, <3>1 DEF At
    <3>3. ring'.queue[j - 1] = moved[(j - 1) + 1]  BY <1>5, <3>1
    <3>4. ring'.queue[j - 1] = moved[j]  BY <3>1, <3>3
    <3> QED  BY <1>6, <2>1, <3>2, <3>4
  <2> QED  BY <1>6, <2>1, <2>2, SeqEqual
<1>10. (moved \o Stored)' = InNewArray(n)
  <2>1. << >> \o Stored' = Stored'  BY <1>6, <1>9, ConcatEmptySeq
  <2> QED  BY <1>3, <1>9, <2>1
<1>11. moved \o Stored = moved
  <2>1. Held = 0 /\ Stored \in Seq(Item) /\ Len(Stored) = Held
    BY <1>1, <1>4, CellSays, StoredIs
  <2>2. Stored = << >>  BY <2>1, EmptySeq
  <2> QED  BY <1>4, <2>2, ConcatEmptySeq
<1>12. pc'[r] = "idle" /\ \A u \in Threads \ {r} : pc'[u] = pc[u]
  BY <1>1, <1>3, OneAnswer
<1>13. Kept'  BY <1>1, <1>12, StepKept
<1>14. Inside'
  <2>1. \A u \in Threads : pc'[u] # "store"
    <3> SUFFICES ASSUME NEW u \in Threads, u # r, pc[u] = "store" PROVE FALSE
      BY <1>12
    <3> QED  BY <1>1 DEF RunInv, IInv, Knows, Storing
  <2> QED  BY <2>1 DEF Inside
<1>15. Moving'  BY <1>3 DEF Moving
<1>16. RunInv'  BY <1>8, <1>13, <1>14, <1>15 DEF RunInv
<1>17. F!Prefix(moved, n) = InNewArray(n)  BY DEF F!Prefix, InNewArray
<1>18. F!Answer(r, "ok")  BY <1>3, AnswerIs
<1>19. F!Resize(r)  BY <1>1, <1>5, <1>10, <1>11, <1>17, <1>18 DEF F!Resize
<1> QED  BY <1>16, <1>19 DEF F!FifoNext

LEMMA SetupStep ==
    ASSUME RunInv, IInv', Cleanup \/ Setup
    PROVE  RunInv' /\ F!FifoNext
<1>1. /\ UNCHANGED <<lock, call, pc, ptr, moved, serial>> /\ ans' = NoAns
  BY DEF Cleanup, Setup
<1>2. \A t \in Threads : pc[t] = "idle"
  BY DEF Cleanup, Idle, Setup, RunInv, IInv, Knows, InCall
<1>3. moved = << >>  BY <1>2, Roles DEF RunInv, Moving
<1>4. Inside' /\ Moving' /\ Kept'
  BY <1>1, <1>2, <1>3, Roles DEF Inside, Moving, Kept, Idle, RunInv
<1>5. TypeOK' /\ TypeOK /\ Run  BY DEF RunInv, IInv
<1>6. CASE Cleanup
  <2>1. ring'.size = 0 /\ ring.size # 0  BY <1>6 DEF Cleanup, NoRing
  <2>2. Run'  BY <2>1 DEF Run
  <2>3. Stored' = << >>  BY <1>5, <2>1, <2>2, StoredThen DEF StoredFacts
  <2>4. (moved \o Stored)' = << >>
    BY <1>1, <1>3, <2>3
  <2>5. \A t \in F!Threads : call[t] = F!NoCall
    BY <1>2, <1>5 DEF TypeOK, NoCall, F!NoCall, F!Threads, Threads
  <2>6. F!Cleanup  BY <1>1, <2>1, <2>4, <2>5 DEF F!Cleanup, F!NoAns, NoAns
  <2> QED  BY <1>4, <2>2, <2>6 DEF F!FifoNext, RunInv
<1>7. CASE Setup
  <2>1. PICK n \in Sizes : ring' = NewRing(n)  BY <1>7 DEF Setup
  <2>2. n \in Nat \ {0}  BY PtrAssumption
  <2>3. /\ ring'.producer = 0 /\ ring'.consumer = 0 /\ ring'.size = n
        /\ ring'.queue = [i \in 0 .. n |-> Null]
    BY <2>1, AfterSetup
  <2>4. Packed'
    <3>1. ASSUME NEW i \in 0 .. (n - 1) PROVE ring'.queue[i] = Null /\ ~ (i < 0)
      <4>1. i \in 0 .. n  BY <2>2
      <4> QED  BY <2>3, <4>1
    <3> QED  BY <2>2, <2>3, <3>1 DEF Packed
  <2>5. Run' /\ Held' = 0
    <3>1. Run' /\ (Held = ring.producer)'  BY <1>5, <2>4, PackedThen
    <3> QED  BY <2>3, <3>1
  <2>6. Stored' = << >>
    <3>1. Stored' \in Seq(Item) /\ Len(Stored') = 0
      BY <1>5, <2>2, <2>3, <2>5, StoredThen DEF StoredFacts
    <3> QED  BY <3>1, EmptySeq
  <2>7. (moved \o Stored)' = << >>  BY <1>1, <1>3, <2>6
  <2>8. moved \o Stored = << >>
    <3>1. Stored = << >>  BY <1>5, <1>7, StoredIs DEF Setup
    <3> QED  BY <1>3, <3>1
  <2>9. F!Setup  BY <1>1, <1>7, <2>3, <2>7, <2>8 DEF F!Setup, Setup, F!NoAns, NoAns
  <2> QED  BY <1>4, <2>5, <2>9 DEF F!FifoNext, RunInv
<1> QED  BY <1>6, <1>7

LEMMA RunInit == Exclusive /\ ~ PastEnd /\ Init => RunInv /\ F!FifoInit
<1> SUFFICES ASSUME Exclusive, ~ PastEnd, Init PROVE RunInv /\ F!FifoInit  OBVIOUS
<1>1. IInv  BY InvInit
<1>2. PICK n \in Sizes : ring = NewRing(n)  BY DEF Init
<1>3. n \in Nat \ {0}  BY PtrAssumption
<1>4. /\ ring.producer = 0 /\ ring.consumer = 0 /\ ring.size = n
      /\ ring.queue = [i \in 0 .. n |-> Null]
  BY <1>2, AfterSetup
<1>5. Packed
  <2>1. ASSUME NEW i \in 0 .. (n - 1) PROVE ring.queue[i] = Null /\ ~ (i < 0)
    <3>1. i \in 0 .. n  BY <1>3
    <3> QED  BY <1>4, <3>1
  <2> QED  BY <1>3, <1>4, <2>1 DEF Packed
<1>6. Run /\ Held = 0  BY <1>1, <1>4, <1>5, PackedRun DEF IInv
<1>7. Inside /\ Moving /\ Kept
  BY Roles DEF Init, Inside, Moving, Kept, Idle
<1>8. moved \o Stored = << >>
  <2>1. Stored \in Seq(Item) /\ Len(Stored) = 0
    BY <1>1, <1>3, <1>4, <1>6, StoredIs DEF IInv
  <2>2. Stored = << >>  BY <2>1, EmptySeq
  <2> QED  BY <2>2 DEF Init
<1>9. F!FifoInit
  BY <1>4, <1>8 DEF F!FifoInit, Init, F!NoCall, NoCall, F!NoAns, NoAns, F!Threads, Threads
<1> QED  BY <1>1, <1>6, <1>7, <1>9 DEF RunInv

LEMMA RunNext == RunInv /\ [Next]_vars => RunInv' /\ [F!FifoNext]_(F!fifoVars)
<1> SUFFICES ASSUME RunInv, [Next]_vars PROVE RunInv' /\ [F!FifoNext]_(F!fifoVars)
  OBVIOUS
<1>0. IInv'  BY InvNext DEF RunInv
<1>1. CASE UNCHANGED vars
  <2>1. Run' /\ (moved \o Stored)' = moved \o Stored  BY <1>1, SameRing DEF vars
  <2>2. Inside' /\ Moving' /\ Kept'
    BY <1>1 DEF vars, RunInv, Inside, Moving, Kept, Idle
  <2> QED  BY <1>0, <1>1, <2>1, <2>2 DEF vars, RunInv, F!fifoVars
<1>2. ASSUME NEW t \in Threads, Invoke(t) PROVE RunInv' /\ F!FifoNext
  BY <1>2, InvokeStep
<1>3. ASSUME NEW p \in Producers, PTest(p) \/ PStore(p) \/ Full(p)
      PROVE  RunInv' /\ F!FifoNext
  BY <1>0, <1>3, PTestStep, PStoreStep, FullStep
<1>4. ASSUME NEW c \in Consumers, CPeek(c) \/ CDiscard(c) \/ Peek(c)
      PROVE  RunInv' /\ F!FifoNext
  BY <1>0, <1>4, CPeekStep, CDiscardStep, PeekStep
<1>5. ASSUME NEW r \in Resizers,
             RNoMemory(r) \/ RLock(r) \/ RMove(r) \/ RDrained(r) \/ RSwap(r)
      PROVE  RunInv' /\ F!FifoNext
  BY <1>0, <1>5, ResizerStep, RMoveStep, RSwapStep
<1>6. CASE Cleanup \/ Setup  BY <1>0, <1>6, SetupStep
<1> QED  BY <1>1, <1>2, <1>3, <1>4, <1>5, <1>6 DEF Next, Step

(* The ring is the limited-size FIFO of ptr_ring.h:13, whatever producers,   *)
(* consumers and resizes do, if consumers stay away from a resize and no     *)
(* producer finds its index one behind the array.                            *)
THEOREM ImplementsFifo == Exclusive /\ ~ PastEnd => (Spec => ImplementsPtrFifo)
<1>1. Exclusive /\ ~ PastEnd /\ Init => RunInv /\ F!FifoInit  BY RunInit
<1>2. RunInv /\ [Next]_vars => RunInv' /\ [F!FifoNext]_(F!fifoVars)  BY RunNext
<1> QED  BY <1>1, <1>2, PTL DEF Spec, ImplementsPtrFifo, F!FifoSpec
=============================================================================
