--------------------------- MODULE AlfQueueProofs ---------------------------
(* Proofs about AlfQueue for every size, number of CPUs and bulk length.     *)
(*                                                                           *)
(* The counters are u32 and wrap, so the invariant speaks of distances: the  *)
(* first lemmas say how a distance changes when one end moves, and that      *)
(* positions less than Size apart have slots of their own.  IInv then holds  *)
(* initially (InitIInv) and every action keeps it (the lemmas named after    *)
(* the actions); the theorems at the end follow from it.                     *)
EXTENDS AlfQueue, SequenceTheorems, TLAPS

-----------------------------------------------------------------------------
(* u32 arithmetic *)

LEMMA WrapLow == \A x \in 0 .. (W - 1) : Wrap(x) = x
  BY SizeAssumption, SMT DEF Wrap

LEMMA WrapHigh == \A x \in W .. (2 * W - 1) : Wrap(x) = x - W
  BY SizeAssumption, SMT DEF Wrap

LEMMA WrapNeg == \A x \in (-W) .. (-1) : Wrap(x) = x + W
  BY SizeAssumption, SMT DEF Wrap

LEMMA WrapU32 == \A x \in Int : Wrap(x) \in U32
  BY SizeAssumption, SMT DEF Wrap, U32

(* A difference of two counters, without the modulus.                        *)
LEMMA DistIs ==
  ASSUME NEW a \in U32, NEW b \in U32
  PROVE  Dist(a, b) = IF b <= a THEN a - b ELSE a - b + W
  BY WrapLow, WrapNeg, SizeAssumption, SMT DEF Dist, U32

LEMMA DistType ==
  ASSUME NEW a \in U32, NEW b \in U32
  PROVE  Dist(a, b) \in 0 .. (W - 1)
  BY DistIs, SizeAssumption, SMT DEF U32

LEMMA DistSelf == ASSUME NEW a \in U32 PROVE Dist(a, a) = 0
  BY DistIs, SMT DEF U32

LEMMA DistZero ==
  ASSUME NEW a \in U32, NEW b \in U32, Dist(a, b) = 0
  PROVE  a = b
  BY DistIs, SizeAssumption, SMT DEF U32

(* A counter moved by k, without the modulus.                                *)
LEMMA MovedIs ==
  ASSUME NEW a \in U32, NEW k \in 0 .. (W - 1)
  PROVE  /\ Wrap(a + k) = IF a + k < W THEN a + k ELSE a + k - W
         /\ Wrap(a + k) \in U32
  BY WrapLow, WrapHigh, SizeAssumption, SMT DEF U32

(* The leading counter moves.                                                *)
LEMMA LeadMoves ==
  ASSUME NEW a \in U32, NEW b \in U32, NEW k \in Nat, Dist(a, b) + k < W
  PROVE  Wrap(a + k) \in U32 /\ Dist(Wrap(a + k), b) = Dist(a, b) + k
<1>1. Dist(a, b) \in 0 .. (W - 1)
  BY DistType
<1>2. k \in 0 .. (W - 1)
  BY <1>1, SizeAssumption, SMT
<1>3. Wrap(a + k) = (IF a + k < W THEN a + k ELSE a + k - W) /\ Wrap(a + k) \in U32
  BY <1>2, MovedIs
<1>4. Dist(a, b) = IF b <= a THEN a - b ELSE a - b + W
  BY DistIs
<1>5. Dist(Wrap(a + k), b) = IF b <= Wrap(a + k) THEN Wrap(a + k) - b ELSE Wrap(a + k) - b + W
  BY <1>3, DistIs
<1> QED
  BY <1>2, <1>3, <1>4, <1>5, SizeAssumption, SMT DEF U32

(* The trailing counter moves.                                               *)
LEMMA TrailMoves ==
  ASSUME NEW a \in U32, NEW b \in U32, NEW k \in Nat, k <= Dist(a, b)
  PROVE  Wrap(b + k) \in U32 /\ Dist(a, Wrap(b + k)) = Dist(a, b) - k
<1>1. Dist(a, b) \in 0 .. (W - 1)
  BY DistType
<1>2. k \in 0 .. (W - 1)
  BY <1>1, SizeAssumption, SMT
<1>3. Wrap(b + k) = (IF b + k < W THEN b + k ELSE b + k - W) /\ Wrap(b + k) \in U32
  BY <1>2, MovedIs
<1>4. Dist(a, b) = IF b <= a THEN a - b ELSE a - b + W
  BY DistIs
<1>5. Dist(a, Wrap(b + k)) = IF Wrap(b + k) <= a THEN a - Wrap(b + k) ELSE a - Wrap(b + k) + W
  BY <1>3, DistIs
<1> QED
  BY <1>2, <1>3, <1>4, <1>5, SizeAssumption, SMT DEF U32

(* The space computed by a producer: exact for a head that is not stale, and *)
(* too large by what passed since for one that is.                           *)
LEMMA SpaceIs ==
  ASSUME NEW h \in U32, NEW ph \in U32, NEW ct \in U32,
         Dist(ph, ct) <= Size, Dist(ph, h) + Size < W
  PROVE  Wrap(Size + ct - h) = Size - Dist(ph, ct) + Dist(ph, h)
<1>1. Dist(ph, ct) \in 0 .. (W - 1) /\ Dist(ph, h) \in 0 .. (W - 1)
  BY DistType
<1>2. Size + ct - h \in Int /\ Size - Dist(ph, ct) + Dist(ph, h) \in 0 .. (W - 1)
  BY <1>1, SizeAssumption, SMT DEF U32
<1>3. \/ Size + ct - h = Size - Dist(ph, ct) + Dist(ph, h)
      \/ Size + ct - h = Size - Dist(ph, ct) + Dist(ph, h) + W
      \/ Size + ct - h = Size - Dist(ph, ct) + Dist(ph, h) - W
  <2>1. Dist(ph, ct) = IF ct <= ph THEN ph - ct ELSE ph - ct + W
    BY DistIs
  <2>2. Dist(ph, h) = IF h <= ph THEN ph - h ELSE ph - h + W
    BY DistIs
  <2> QED
    BY <2>1, <2>2, SizeAssumption, SMT DEF U32
<1>4. CASE Size + ct - h = Size - Dist(ph, ct) + Dist(ph, h)
  BY <1>2, <1>4, WrapLow
<1>5. CASE Size + ct - h = Size - Dist(ph, ct) + Dist(ph, h) + W
  <2>1. Size + ct - h \in W .. (2 * W - 1)
    BY <1>2, <1>5, SizeAssumption, SMT
  <2> QED
    BY <1>1, <1>2, <1>5, <2>1, WrapHigh, SizeAssumption, SMT
<1>6. CASE Size + ct - h = Size - Dist(ph, ct) + Dist(ph, h) - W
  <2>1. -W <= Size + ct - h /\ Size + ct - h <= -1
    BY <1>1, <1>2, <1>6, SizeAssumption, SMT DEF U32
  <2> QED
    BY <1>1, <1>2, <1>6, <2>1, WrapNeg, SizeAssumption, SMT
<1> QED
  BY <1>3, <1>4, <1>5, <1>6

-----------------------------------------------------------------------------
(* Slots *)

LEMMA SlotRange == \A x \in Int : Slot(x) \in 0 .. (Size - 1)
  BY SizeAssumption, SMT DEF Slot

LEMMA Division ==
  ASSUME NEW x \in Int
  PROVE  x \div Size \in Int /\ x = Size * (x \div Size) + (x % Size)
  BY SizeAssumption, SMT

LEMMA SmallMultiple ==
  ASSUME NEW q \in Int, Size * q < Size, -Size < Size * q
  PROVE  q = 0
<1>1. CASE q >= 1
  BY <1>1, SizeAssumption, SMT
<1>2. CASE q <= -1
  BY <1>2, SizeAssumption, SMT
<1> QED
  BY <1>1, <1>2

(* Positions less than Size apart have different slots.                      *)
LEMMA SlotInjective ==
  ASSUME NEW x \in Int, NEW y \in Int, Slot(x) = Slot(y), x - y < Size, y - x < Size
  PROVE  x = y
<1> DEFINE q == x \div Size - y \div Size
<1>1. q \in Int /\ x - y = Size * q
  BY Division, SizeAssumption, SMT DEF Slot
<1>2. q = 0
  BY <1>1, SmallMultiple, SizeAssumption, SMT
<1> QED
  BY <1>1, <1>2, SizeAssumption, SMT

LEMMA SlotOf ==
  ASSUME NEW q \in Int, NEW r \in 0 .. (Size - 1)
  PROVE  Slot(Size * q + r) = r
  BY SizeAssumption, SMT DEF Slot

(* A full turn of the u32 counter ends on the slot it started from.          *)
LEMMA SlotTurn == ASSUME NEW x \in Int PROVE Slot(x + W) = Slot(x)
<1>1. W = Size * (W \div Size) /\ W \div Size \in Int
  BY Division, SizeAssumption
<1>2. x = Size * (x \div Size) + Slot(x) /\ x \div Size \in Int /\ Slot(x) \in 0 .. (Size - 1)
  BY Division, SlotRange DEF Slot
<1>3. x + W = Size * (x \div Size + W \div Size) + Slot(x)
  BY <1>1, <1>2, SizeAssumption, SMT
<1> QED
  BY <1>1, <1>2, <1>3, SlotOf

(* The slot of position a + k, counted from an older counter b.              *)
LEMMA SlotFrom ==
  ASSUME NEW a \in U32, NEW b \in U32, NEW k \in Int
  PROVE  Slot(a + k) = Slot(b + (Dist(a, b) + k))
<1>1. CASE b <= a
  BY <1>1, DistIs, SMT DEF U32
<1>2. CASE ~(b <= a)
  <2>1. Dist(a, b) = a - b + W
    BY <1>2, DistIs
  <2>2. b + (Dist(a, b) + k) = (a + k) + W
    BY <2>1, SizeAssumption, SMT DEF U32
  <2>3. a + k \in Int
    BY SMT DEF U32
  <2> QED
    BY <2>2, <2>3, SlotTurn
<1> QED
  BY <1>1, <1>2

-----------------------------------------------------------------------------
(* Types *)

Labels == {"idle", "ldhead", "ldtail", "cas", "store", "load",
           "wait", "publish", "empty", "count", "space"}

LEMMA Zeros == 0 \in U32 /\ 0 \in 0 .. MaxBulk /\ << >> \in Seq(Item \cup {NoItem})
  BY SizeAssumption, SMT DEF U32

LEMMA Roles == /\ \A p \in Producers : p \in Threads /\ p \notin Consumers /\ p \notin Observers
               /\ \A c \in Consumers : c \in Threads /\ c \notin Producers /\ c \notin Observers
               /\ \A o \in Observers : o \in Threads /\ o \notin Producers /\ o \notin Consumers
  BY ThreadAssumption DEF Threads

(* The locals of a thread are numbers.                                       *)
LEMMA Numbers ==
  ASSUME TypeOK, NEW t \in Threads
  PROVE  /\ head[t] \in U32 /\ head[t] \in Int
         /\ n[t] \in Nat /\ elems[t] \in Nat /\ idx[t] \in Nat
         /\ n[t] <= MaxBulk /\ elems[t] <= MaxBulk /\ idx[t] <= MaxBulk
         /\ Wrap(head[t] + elems[t]) \in U32
         /\ Slot(head[t] + idx[t]) \in 0 .. (Size - 1)
<1>1. /\ head[t] \in U32 /\ head[t] \in Int
      /\ n[t] \in Nat /\ elems[t] \in Nat /\ idx[t] \in Nat
      /\ n[t] <= MaxBulk /\ elems[t] <= MaxBulk /\ idx[t] <= MaxBulk
  BY SizeAssumption DEF TypeOK, U32
<1>2. head[t] + elems[t] \in Int /\ head[t] + idx[t] \in Int
  BY <1>1
<1> QED
  BY <1>1, <1>2, WrapU32, SlotRange

LEMMA ReturnType ==
  ASSUME TypeOK, NEW t \in Threads, Return(t)
  PROVE  /\ pc'    \in [Threads -> Labels]
         /\ n'     \in [Threads -> 0 .. MaxBulk]
         /\ head'  \in [Threads -> U32]
         /\ elems' \in [Threads -> 0 .. MaxBulk]
         /\ idx'   \in [Threads -> 0 .. MaxBulk]
         /\ ptr'   \in [Threads -> Seq(Item \cup {NoItem})]
  BY Zeros DEF TypeOK, Return, Labels

LEMMA InitType == ASSUME Init PROVE TypeOK
  BY Zeros, SizeAssumption DEF Init, InitAt, TypeOK, NothingSeen

LEMMA TypeStep == ASSUME TypeOK, Locals, [Next]_vars PROVE TypeOK'
<1>1. ASSUME NEW p \in Producers, EnqCall(p) PROVE TypeOK'
  <2>0. p \in Threads BY Roles
  <2>1. PICK k \in 1 .. MaxBulk :
          /\ n'   = [n EXCEPT ![p] = k]
          /\ ptr' = [ptr EXCEPT ![p] =
                      [j \in 1 .. k |-> <<p, (serial[p] + j - 1) % Serials>>]]
    BY <1>1 DEF EnqCall
  <2>2. \A j \in 1 .. k : <<p, (serial[p] + j - 1) % Serials>> \in Item
    <3> SUFFICES ASSUME NEW j \in 1 .. k
                 PROVE  (serial[p] + j - 1) % Serials \in 0 .. (Serials - 1)
      BY DEF Item
    <3>1. serial[p] \in Nat
      BY SizeAssumption DEF TypeOK
    <3> QED
      BY <3>1, SizeAssumption, SMT
  <2>3. [j \in 1 .. k |-> <<p, (serial[p] + j - 1) % Serials>>] \in Seq(Item \cup {NoItem})
    BY <2>2, SMT
  <2>4. ptr' \in [Threads -> Seq(Item \cup {NoItem})]
    BY <2>0, <2>1, <2>3 DEF TypeOK
  <2>5. n' \in [Threads -> 0 .. MaxBulk]
    BY <2>0, <2>1, SMT DEF TypeOK
  <2> QED
    BY <1>1, <2>0, <2>4, <2>5 DEF TypeOK, EnqCall, Goto, shared
<1>2. ASSUME NEW p \in Producers, EnqLoadHead(p) PROVE TypeOK'
  BY <1>2, Roles DEF TypeOK, EnqLoadHead, Goto, shared
<1>3. ASSUME NEW p \in Producers, EnqLoadTail(p) PROVE TypeOK'
  <2>0. p \in Threads BY Roles
  <2>1. CASE Return(p)
    BY <1>3, <2>0, <2>1, ReturnType DEF TypeOK, EnqLoadTail, shared, Labels
  <2>2. CASE ~Return(p)
    BY <1>3, <2>0, <2>2 DEF TypeOK, EnqLoadTail, shared, Goto
  <2> QED
    BY <2>1, <2>2
<1>4. ASSUME NEW p \in Producers, EnqReserve(p) PROVE TypeOK'
  <2>0. p \in Threads BY Roles
  <2>1. Wrap(head[p] + elems[p]) \in U32
    BY <2>0, Numbers
  <2> QED
    BY <1>4, <2>0, <2>1 DEF TypeOK, EnqReserve, Goto
<1>5. ASSUME NEW p \in Producers, EnqRetry(p) PROVE TypeOK'
  BY <1>5, Roles DEF TypeOK, EnqRetry, Goto, shared
<1>6. ASSUME NEW p \in Producers, EnqStore(p) PROVE TypeOK'
  <2>0. p \in Threads BY Roles
  <2>1. Slot(head[p] + idx[p]) \in 0 .. (Size - 1)
    BY <2>0, Numbers
  <2>2. ptr[p][idx[p] + 1] \in Item \cup {NoItem} /\ idx[p] + 1 \in 0 .. MaxBulk
    <3>1. ptr[p] \in Seq(Item) /\ Len(ptr[p]) = n[p] /\ idx[p] < n[p]
      BY <1>6, <2>0 DEF Locals, LocalsOK, ProducerOK, Reserving, EnqStore
    <3> QED
      BY <3>1, <2>0, SizeAssumption DEF TypeOK
  <2>3. ring' \in [0 .. (Size - 1) -> Item \cup {NoItem}]
    BY <1>6, <2>1, <2>2 DEF TypeOK, EnqStore
  <2>4. idx' \in [Threads -> 0 .. MaxBulk]
    BY <1>6, <2>0, <2>2 DEF TypeOK, EnqStore
  <2> QED
    BY <1>6, <2>0, <2>3, <2>4 DEF TypeOK, EnqStore, Goto
<1>7. ASSUME NEW p \in Producers, EnqWait(p) PROVE TypeOK'
  BY <1>7, Roles DEF TypeOK, EnqWait, Goto, shared
<1>8. ASSUME NEW p \in Producers, EnqPublish(p) PROVE TypeOK'
  <2>0. p \in Threads BY Roles
  <2>1. Wrap(head[p] + elems[p]) \in U32
    BY <2>0, Numbers
  <2>2. serial' \in [Producers -> 0 .. (Serials - 1)]
    <3>1. serial[p] + elems[p] \in Nat
      BY <2>0, SizeAssumption DEF TypeOK
    <3>2. (serial[p] + elems[p]) % Serials \in 0 .. (Serials - 1)
      BY <3>1, SizeAssumption, SMT
    <3> QED
      BY <1>8, <3>2 DEF EnqPublish, TypeOK
  <2> QED
    BY <1>8, <2>0, <2>1, <2>2, ReturnType DEF TypeOK, EnqPublish, Labels
<1>9. ASSUME NEW c \in Consumers, DeqCall(c) PROVE TypeOK'
  <2>0. c \in Threads BY Roles
  <2>1. n' \in [Threads -> 0 .. MaxBulk]
    <3>1. PICK k \in 1 .. MaxBulk : n' = [n EXCEPT ![c] = k]
      BY <1>9 DEF DeqCall
    <3> QED
      BY <2>0, <3>1, SMT DEF TypeOK
  <2> QED
    BY <1>9, <2>0, <2>1 DEF TypeOK, DeqCall, Goto, shared
<1>10. ASSUME NEW c \in Consumers, DeqLoadHead(c) PROVE TypeOK'
  BY <1>10, Roles DEF TypeOK, DeqLoadHead, Goto, shared
<1>11. ASSUME NEW c \in Consumers, DeqLoadTail(c) PROVE TypeOK'
  <2>0. c \in Threads BY Roles
  <2>1. CASE Return(c)
    BY <1>11, <2>0, <2>1, ReturnType DEF TypeOK, DeqLoadTail, shared, Labels
  <2>2. CASE ~Return(c)
    <3>1. Avail(c) \in Nat
      BY <2>0, Numbers, DistType, SizeAssumption DEF TypeOK, Avail
    <3>2. (IF Avail(c) < n[c] THEN Avail(c) ELSE n[c]) \in 0 .. MaxBulk
      BY <2>0, <3>1, Numbers, SizeAssumption, SMT
    <3>3. UNCHANGED <<shared, n, head, idx, ptr, serial, seen>>
      BY <1>11, <2>2 DEF DeqLoadTail
    <3>4. elems' \in [Threads -> 0 .. MaxBulk] /\ pc' \in [Threads -> Labels]
      BY <1>11, <2>2, <3>2 DEF DeqLoadTail, Goto, TypeOK, Labels
    <3> QED
      BY <3>3, <3>4 DEF TypeOK, shared, Labels
  <2> QED
    BY <2>1, <2>2
<1>12. ASSUME NEW c \in Consumers, DeqReserve(c) PROVE TypeOK'
  <2>0. c \in Threads BY Roles
  <2>1. Wrap(head[c] + elems[c]) \in U32
    BY <2>0, Numbers
  <2> QED
    BY <1>12, <2>0, <2>1 DEF TypeOK, DeqReserve, Goto
<1>13. ASSUME NEW c \in Consumers, DeqRetry(c) PROVE TypeOK'
  BY <1>13, Roles DEF TypeOK, DeqRetry, Goto, shared
<1>14. ASSUME NEW c \in Consumers, DeqLoad(c) PROVE TypeOK'
  <2>0. c \in Threads BY Roles
  <2>1. ring[Slot(head[c] + idx[c])] \in Item \cup {NoItem}
    <3>1. Slot(head[c] + idx[c]) \in 0 .. (Size - 1)
      BY <2>0, Numbers
    <3> QED
      BY <3>1 DEF TypeOK
  <2>2. Append(ptr[c], ring[Slot(head[c] + idx[c])]) \in Seq(Item \cup {NoItem})
    BY <2>0, <2>1 DEF TypeOK
  <2>3. ptr' \in [Threads -> Seq(Item \cup {NoItem})]
    BY <1>14, <2>0, <2>2 DEF TypeOK, DeqLoad
  <2>4. idx[c] + 1 \in 0 .. MaxBulk
    <3>1. idx[c] < elems[c]
      BY <1>14, <2>0 DEF Locals, LocalsOK, DeqLoad
    <3> QED
      BY <2>0, <3>1, Numbers, SizeAssumption, SMT
  <2>5. idx' \in [Threads -> 0 .. MaxBulk]
    BY <1>14, <2>0, <2>4 DEF TypeOK, DeqLoad
  <2> QED
    BY <1>14, <2>0, <2>3, <2>5 DEF TypeOK, DeqLoad, Goto, shared
<1>15. ASSUME NEW c \in Consumers, DeqWait(c) PROVE TypeOK'
  BY <1>15, Roles DEF TypeOK, DeqWait, Goto, shared
<1>16. ASSUME NEW c \in Consumers, DeqPublish(c) PROVE TypeOK'
  <2>0. c \in Threads BY Roles
  <2>1. Wrap(head[c] + elems[c]) \in U32
    BY <2>0, Numbers
  <2> QED
    BY <1>16, <2>0, <2>1, ReturnType DEF TypeOK, DeqPublish, Labels
<1>17. ASSUME NEW o \in Observers, ObsCall(o) PROVE TypeOK'
  <2>0. o \in Threads BY Roles
  <2>1. PICK op \in {"empty", "count", "space"} :
          Goto(o, op) /\ head' = [head EXCEPT ![o] = FirstLoad(op)]
    BY <1>17 DEF ObsCall
  <2>2. FirstLoad(op) \in U32
    BY DEF FirstLoad, TypeOK
  <2>3. NothingSeen \in [op : {"none", "empty", "count", "space"}, val : U32]
    BY Zeros DEF NothingSeen
  <2> QED
    BY <1>17, <2>0, <2>1, <2>2, <2>3 DEF TypeOK, ObsCall, Goto, shared
<1>18. ASSUME NEW o \in Observers, Observe(o) PROVE TypeOK'
  <2>0. o \in Threads BY Roles
  <2>1. PICK val \in U32 : ObsReturn(o, val) /\ pc[o] \in {"empty", "count", "space"}
    <3>1. Space(o) \in U32
      <4>1. Size + consTail - head[o] \in Int
        BY <2>0, SizeAssumption DEF TypeOK, U32
      <4> QED
        BY <4>1, WrapU32 DEF Space
    <3>2. Avail(o) \in U32
      BY <2>0, DistType DEF TypeOK, Avail, U32
    <3>3. (IF prodTail = head[o] THEN 1 ELSE 0) \in U32
      BY SizeAssumption, SMT DEF U32
    <3> QED
      BY <1>18, <3>1, <3>2, <3>3 DEF Observe, ObsEmpty, ObsCount, ObsSpace
  <2>2. seen' \in [Observers -> [op : {"none", "empty", "count", "space"}, val : U32]]
    <3>1. [op |-> pc[o], val |-> val] \in [op : {"none", "empty", "count", "space"}, val : U32]
      BY <2>1
    <3> QED
      BY <2>1, <3>1 DEF ObsReturn, TypeOK
  <2> QED
    BY <2>0, <2>1, <2>2, ReturnType DEF TypeOK, ObsReturn, shared, Labels
<1>19. CASE UNCHANGED vars
  BY <1>19 DEF TypeOK, vars
<1> QED
  BY <1>1, <1>2, <1>3, <1>4, <1>5, <1>6, <1>7, <1>8, <1>9, <1>10, <1>11, <1>12, <1>13,
     <1>14, <1>15, <1>16, <1>17, <1>18, <1>19 DEF Next, Enqueue, Dequeue

-----------------------------------------------------------------------------
(* A step of one thread leaves the locals of the others alone. *)

OnlyMoves(t) ==
    \A u \in Threads \ {t} :
        /\ pc'[u] = pc[u] /\ n'[u] = n[u] /\ head'[u] = head[u]
        /\ elems'[u] = elems[u] /\ idx'[u] = idx[u] /\ ptr'[u] = ptr[u]

LEMMA ProducerFrame ==
  ASSUME TypeOK, NEW p \in Producers, EnqCall(p) \/ Enqueue(p)
  PROVE  OnlyMoves(p)
<1>1. CASE EnqCall(p)
  BY <1>1 DEF TypeOK, OnlyMoves, EnqCall, Goto
<1>2. CASE EnqLoadHead(p)
  BY <1>2 DEF TypeOK, OnlyMoves, EnqLoadHead, Goto
<1>3. CASE EnqLoadTail(p)
  BY <1>3 DEF TypeOK, OnlyMoves, EnqLoadTail, Return, Goto
<1>4. CASE EnqReserve(p)
  BY <1>4 DEF TypeOK, OnlyMoves, EnqReserve, Goto
<1>5. CASE EnqRetry(p)
  BY <1>5 DEF TypeOK, OnlyMoves, EnqRetry, Goto
<1>6. CASE EnqStore(p)
  BY <1>6 DEF TypeOK, OnlyMoves, EnqStore, Goto
<1>7. CASE EnqWait(p)
  BY <1>7 DEF TypeOK, OnlyMoves, EnqWait, Goto
<1>8. CASE EnqPublish(p)
  BY <1>8 DEF TypeOK, OnlyMoves, EnqPublish, Return
<1> QED
  BY <1>1, <1>2, <1>3, <1>4, <1>5, <1>6, <1>7, <1>8 DEF Enqueue

LEMMA ConsumerFrame ==
  ASSUME TypeOK, NEW c \in Consumers, DeqCall(c) \/ Dequeue(c)
  PROVE  OnlyMoves(c)
<1>1. CASE DeqCall(c)
  BY <1>1 DEF TypeOK, OnlyMoves, DeqCall, Goto
<1>2. CASE DeqLoadHead(c)
  BY <1>2 DEF TypeOK, OnlyMoves, DeqLoadHead, Goto
<1>3. CASE DeqLoadTail(c)
  BY <1>3 DEF TypeOK, OnlyMoves, DeqLoadTail, Return, Goto
<1>4. CASE DeqReserve(c)
  BY <1>4 DEF TypeOK, OnlyMoves, DeqReserve, Goto
<1>5. CASE DeqRetry(c)
  BY <1>5 DEF TypeOK, OnlyMoves, DeqRetry, Goto
<1>6. CASE DeqLoad(c)
  BY <1>6 DEF TypeOK, OnlyMoves, DeqLoad, Goto
<1>7. CASE DeqWait(c)
  BY <1>7 DEF TypeOK, OnlyMoves, DeqWait, Goto
<1>8. CASE DeqPublish(c)
  BY <1>8 DEF TypeOK, OnlyMoves, DeqPublish, Return
<1> QED
  BY <1>1, <1>2, <1>3, <1>4, <1>5, <1>6, <1>7, <1>8 DEF Dequeue

LEMMA ObserverFrame ==
  ASSUME TypeOK, NEW o \in Observers, ObsCall(o) \/ Observe(o)
  PROVE  OnlyMoves(o) /\ UNCHANGED shared
<1>1. CASE ObsCall(o)
  BY <1>1 DEF TypeOK, OnlyMoves, ObsCall, Goto
<1>2. CASE Observe(o)
  BY <1>2 DEF TypeOK, OnlyMoves, Observe, ObsEmpty, ObsCount, ObsSpace, ObsReturn, Return
<1> QED
  BY <1>1, <1>2

LEMMA Returned ==
  ASSUME TypeOK, NEW t \in Threads, Return(t)
  PROVE  /\ pc'[t] = "idle" /\ n'[t] = 0 /\ head'[t] = 0
         /\ elems'[t] = 0 /\ idx'[t] = 0 /\ ptr'[t] = << >>
  BY DEF TypeOK, Return

-----------------------------------------------------------------------------
(* Locals *)

LEMMA ReturnLocals ==
  ASSUME TypeOK, NEW t \in Threads, Return(t)
  PROVE  /\ LocalsOK(t)'
         /\ t \in Producers => ProducerOK(t)'
         /\ t \in Consumers => ConsumerOK(t)'
         /\ t \in Observers => ObserverOK(t)'
BY Returned DEF LocalsOK, ProducerOK, ConsumerOK, ObserverOK, Reserving, Holding

LEMMA LocalsOthers ==
  ASSUME Locals, NEW t \in Threads, OnlyMoves(t),
         LocalsOK(t)',
         t \in Producers => ProducerOK(t)',
         t \in Consumers => ConsumerOK(t)',
         t \in Observers => ObserverOK(t)'
  PROVE  Locals'
<1>1. ASSUME NEW u \in Threads PROVE LocalsOK(u)'
  BY <1>1 DEF Locals, OnlyMoves, LocalsOK, Reserving, Holding
<1>2. ASSUME NEW p \in Producers PROVE ProducerOK(p)'
  BY <1>2, Roles DEF Locals, OnlyMoves, ProducerOK, Reserving
<1>3. ASSUME NEW c \in Consumers PROVE ConsumerOK(c)'
  BY <1>3, Roles DEF Locals, OnlyMoves, ConsumerOK
<1>4. ASSUME NEW o \in Observers PROVE ObserverOK(o)'
  BY <1>4, Roles DEF Locals, OnlyMoves, ObserverOK
<1> QED
  BY <1>1, <1>2, <1>3, <1>4 DEF Locals

LEMMA InitLocals == ASSUME Init PROVE Locals
<1>1. \A t \in Threads : pc[t] = "idle" /\ idx[t] = 0 /\ ptr[t] = << >>
  BY DEF Init, InitAt
<1> QED
  BY <1>1, Roles DEF Locals, LocalsOK, ProducerOK, ConsumerOK, ObserverOK, Reserving, Holding

LEMMA ProducerLocals ==
  ASSUME TypeOK, Locals, NEW p \in Producers, EnqCall(p) \/ Enqueue(p)
  PROVE  Locals'
<1>0. p \in Threads /\ p \notin Consumers /\ p \notin Observers
  BY Roles
<1> SUFFICES LocalsOK(p)' /\ ProducerOK(p)'
  BY <1>0, ProducerFrame, LocalsOthers
<1>n. LocalsOK(p) /\ ProducerOK(p)
  BY <1>0 DEF Locals
<1>m. n[p] \in Nat /\ elems[p] \in Nat /\ idx[p] \in Nat /\ n[p] <= MaxBulk
  BY <1>0, Numbers
<1>1. CASE EnqCall(p)
  <2>1. PICK k \in 1 .. MaxBulk :
          /\ n'   = [n EXCEPT ![p] = k]
          /\ ptr' = [ptr EXCEPT ![p] =
                      [j \in 1 .. k |-> <<p, (serial[p] + j - 1) % Serials>>]]
    BY <1>1 DEF EnqCall
  <2>2. \A j \in 1 .. k : <<p, (serial[p] + j - 1) % Serials>> \in Item
    <3> SUFFICES ASSUME NEW j \in 1 .. k
                 PROVE  (serial[p] + j - 1) % Serials \in 0 .. (Serials - 1)
      BY DEF Item
    <3>1. serial[p] \in Nat
      BY SizeAssumption DEF TypeOK
    <3> QED
      BY <3>1, SizeAssumption, SMT
  <2>3. /\ [j \in 1 .. k |-> <<p, (serial[p] + j - 1) % Serials>>] \in Seq(Item)
        /\ Len([j \in 1 .. k |-> <<p, (serial[p] + j - 1) % Serials>>]) = k
    BY <2>2, SMT
  <2>4. ptr'[p] \in Seq(Item) /\ Len(ptr'[p]) = k /\ n'[p] = k /\ pc'[p] = "ldhead"
        /\ idx'[p] = idx[p]
    BY <1>0, <1>1, <2>1, <2>3 DEF TypeOK, EnqCall, Goto
  <2>5. pc[p] = "idle"
    BY <1>1 DEF EnqCall
  <2> QED
    BY <1>n, <2>4, <2>5 DEF LocalsOK, ProducerOK, Reserving, Holding
<1>2. CASE EnqLoadHead(p)
  BY <1>0, <1>n, <1>2 DEF TypeOK, EnqLoadHead, Goto, LocalsOK, ProducerOK, Reserving, Holding
<1>3. CASE EnqLoadTail(p)
  <2>1. CASE Return(p)
    BY <1>0, <2>1, ReturnLocals
  <2>2. CASE ~Return(p)
    <3>1. /\ pc[p] = "ldtail" /\ pc'[p] = "cas" /\ n'[p] = n[p] /\ elems'[p] = n[p]
          /\ idx'[p] = idx[p] /\ ptr'[p] = ptr[p]
      BY <1>0, <1>3, <2>2 DEF TypeOK, EnqLoadTail, Goto
    <3> QED
      BY <1>n, <1>m, <3>1 DEF LocalsOK, ProducerOK, Reserving, Holding
  <2> QED
    BY <2>1, <2>2
<1>4. CASE EnqReserve(p)
  BY <1>0, <1>n, <1>m, <1>4 DEF TypeOK, EnqReserve, Goto, LocalsOK, ProducerOK, Reserving, Holding
<1>5. CASE EnqRetry(p)
  BY <1>0, <1>n, <1>5 DEF TypeOK, EnqRetry, Goto, LocalsOK, ProducerOK, Reserving, Holding
<1>6. CASE EnqStore(p)
  <2>1. /\ pc[p] = "store" /\ n'[p] = n[p] /\ elems'[p] = elems[p]
        /\ idx'[p] = idx[p] + 1 /\ ptr'[p] = ptr[p]
        /\ \/ idx[p] + 1 < elems[p] /\ pc'[p] = "store"
           \/ idx[p] + 1 = elems[p] /\ pc'[p] \in {"wait", "publish"}
    BY <1>0, <1>6 DEF TypeOK, EnqStore, Goto
  <2> QED
    BY <1>n, <1>m, <2>1 DEF LocalsOK, ProducerOK, Reserving, Holding
<1>7. CASE EnqWait(p)
  BY <1>0, <1>n, <1>7 DEF TypeOK, EnqWait, Goto, LocalsOK, ProducerOK, Reserving, Holding
<1>8. CASE EnqPublish(p)
  BY <1>0, <1>8, ReturnLocals DEF EnqPublish
<1> QED
  BY <1>1, <1>2, <1>3, <1>4, <1>5, <1>6, <1>7, <1>8 DEF Enqueue

LEMMA ConsumerLocals ==
  ASSUME TypeOK, Locals, NEW c \in Consumers, DeqCall(c) \/ Dequeue(c)
  PROVE  Locals'
<1>0. c \in Threads /\ c \notin Producers /\ c \notin Observers
  BY Roles
<1> SUFFICES LocalsOK(c)' /\ ConsumerOK(c)'
  BY <1>0, ConsumerFrame, LocalsOthers
<1>n. LocalsOK(c) /\ ConsumerOK(c)
  BY <1>0 DEF Locals
<1>m. n[c] \in Nat /\ elems[c] \in Nat /\ idx[c] \in Nat /\ n[c] <= MaxBulk
  BY <1>0, Numbers
<1>1. CASE DeqCall(c)
  <2>1. PICK k \in 1 .. MaxBulk : n' = [n EXCEPT ![c] = k]
    BY <1>1 DEF DeqCall
  <2>2. /\ n'[c] = k /\ pc[c] = "idle" /\ pc'[c] = "ldhead"
        /\ idx'[c] = idx[c] /\ ptr'[c] = ptr[c]
    BY <1>0, <1>1, <2>1 DEF TypeOK, DeqCall, Goto
  <2> QED
    BY <1>n, <2>2 DEF LocalsOK, ConsumerOK, Reserving, Holding
<1>2. CASE DeqLoadHead(c)
  BY <1>0, <1>n, <1>2 DEF TypeOK, DeqLoadHead, Goto, LocalsOK, ConsumerOK, Reserving, Holding
<1>3. CASE DeqLoadTail(c)
  <2>1. CASE Return(c)
    BY <1>0, <2>1, ReturnLocals
  <2>2. CASE ~Return(c)
    <3>1. /\ pc[c] = "ldtail" /\ pc'[c] = "cas" /\ n'[c] = n[c]
          /\ Avail(c) # 0 /\ elems'[c] = IF Avail(c) < n[c] THEN Avail(c) ELSE n[c]
          /\ idx'[c] = idx[c] /\ ptr'[c] = ptr[c]
      BY <1>0, <1>3, <2>2 DEF TypeOK, DeqLoadTail, Goto
    <3>2. Avail(c) \in Nat
      BY <1>0, Numbers, DistType, SizeAssumption DEF TypeOK, Avail
    <3>3. elems'[c] \in 1 .. n'[c]
      BY <1>n, <1>m, <3>1, <3>2 DEF LocalsOK
    <3> QED
      BY <1>n, <3>1, <3>3 DEF LocalsOK, ConsumerOK, Reserving, Holding
  <2> QED
    BY <2>1, <2>2
<1>4. CASE DeqReserve(c)
  BY <1>0, <1>n, <1>m, <1>4 DEF TypeOK, DeqReserve, Goto, LocalsOK, ConsumerOK, Reserving, Holding
<1>5. CASE DeqRetry(c)
  BY <1>0, <1>n, <1>5 DEF TypeOK, DeqRetry, Goto, LocalsOK, ConsumerOK, Reserving, Holding
<1>6. CASE DeqLoad(c)
  <2>1. /\ pc[c] = "load" /\ n'[c] = n[c] /\ elems'[c] = elems[c]
        /\ idx'[c] = idx[c] + 1
        /\ \/ idx[c] + 1 < elems[c] /\ pc'[c] = "load"
           \/ idx[c] + 1 = elems[c] /\ pc'[c] \in {"wait", "publish"}
    BY <1>0, <1>6 DEF TypeOK, DeqLoad, Goto
  <2>2. Len(ptr'[c]) = idx[c] + 1
    <3>1. ptr[c] \in Seq(Item \cup {NoItem})
      BY <1>0 DEF TypeOK
    <3>2. ptr'[c] = Append(ptr[c], ring[Slot(head[c] + idx[c])])
      BY <1>0, <1>6 DEF TypeOK, DeqLoad
    <3> QED
      BY <1>n, <3>1, <3>2 DEF ConsumerOK
  <2> QED
    BY <1>n, <1>m, <2>1, <2>2 DEF LocalsOK, ConsumerOK, Reserving, Holding
<1>7. CASE DeqWait(c)
  BY <1>0, <1>n, <1>7 DEF TypeOK, DeqWait, Goto, LocalsOK, ConsumerOK, Reserving, Holding
<1>8. CASE DeqPublish(c)
  BY <1>0, <1>8, ReturnLocals DEF DeqPublish
<1> QED
  BY <1>1, <1>2, <1>3, <1>4, <1>5, <1>6, <1>7, <1>8 DEF Dequeue

LEMMA ObserverLocals ==
  ASSUME TypeOK, Locals, NEW o \in Observers, ObsCall(o) \/ Observe(o)
  PROVE  Locals'
<1>0. o \in Threads /\ o \notin Producers /\ o \notin Consumers
  BY Roles
<1> SUFFICES LocalsOK(o)' /\ ObserverOK(o)'
  BY <1>0, ObserverFrame, LocalsOthers
<1>n. LocalsOK(o) /\ ObserverOK(o)
  BY <1>0 DEF Locals
<1>1. CASE ObsCall(o)
  BY <1>0, <1>n, <1>1 DEF TypeOK, ObsCall, Goto, LocalsOK, ObserverOK, Reserving, Holding
<1>2. CASE Observe(o)
  BY <1>0, <1>2, ReturnLocals DEF Observe, ObsEmpty, ObsCount, ObsSpace, ObsReturn
<1> QED
  BY <1>1, <1>2

LEMMA LocalsStep == ASSUME TypeOK, Locals, [Next]_vars PROVE Locals'
<1>1. CASE UNCHANGED vars
  BY <1>1 DEF vars, Locals, LocalsOK, ProducerOK, ConsumerOK, ObserverOK, Reserving, Holding
<1> QED
  BY <1>1, ProducerLocals, ConsumerLocals, ObserverLocals DEF Next

(* Types and locals need no more than each other.                            *)
LEMMA TypeAlways == Spec => [](TypeOK /\ Locals)
<1>1. Init => TypeOK /\ Locals
  BY InitType, InitLocals
<1>2. TypeOK /\ Locals /\ [Next]_vars => (TypeOK /\ Locals)'
  BY TypeStep, LocalsStep
<1> QED
  BY <1>1, <1>2, PTL DEF Spec

(* Every counter stays a u32, every slot an item: the type invariant.        *)
THEOREM TypeCorrect == Spec => []TypeOK
BY TypeAlways, PTL

-----------------------------------------------------------------------------
(* How the counters move *)

LEMMA DistAdd ==
  ASSUME NEW a \in U32, NEW b \in U32, NEW c \in U32, Dist(a, b) + Dist(b, c) < W
  PROVE  Dist(a, c) = Dist(a, b) + Dist(b, c)
<1>1. Dist(a, b) = IF b <= a THEN a - b ELSE a - b + W
  BY DistIs
<1>2. Dist(b, c) = IF c <= b THEN b - c ELSE b - c + W
  BY DistIs
<1>3. Dist(a, c) = IF c <= a THEN a - c ELSE a - c + W
  BY DistIs
<1> QED
  BY <1>1, <1>2, <1>3, SizeAssumption, SMT DEF U32

(* The gaps between the four counters.                                       *)
LEMMA Gaps ==
  ASSUME TypeOK, CountersOrdered
  PROVE  /\ prodHead \in U32 /\ prodTail \in U32 /\ consHead \in U32 /\ consTail \in U32
         /\ Dist(prodHead, prodTail) \in Nat /\ Dist(prodTail, consHead) \in Nat
         /\ Dist(consHead, consTail) \in Nat
         /\ Dist(prodHead, consTail) \in 0 .. Size
         /\ Dist(prodHead, consTail)
              = Dist(prodHead, prodTail) + Dist(prodTail, consHead) + Dist(consHead, consTail)
         /\ Dist(prodTail, consTail) = Dist(prodTail, consHead) + Dist(consHead, consTail)
         /\ Dist(prodHead, consHead) = Dist(prodHead, prodTail) + Dist(prodTail, consHead)
<1>1. prodHead \in U32 /\ prodTail \in U32 /\ consHead \in U32 /\ consTail \in U32
  BY DEF TypeOK
<1>2. /\ Dist(prodHead, prodTail) \in Nat /\ Dist(prodTail, consHead) \in Nat
      /\ Dist(consHead, consTail) \in Nat /\ Dist(prodHead, consTail) \in Nat
  BY <1>1, DistType, SizeAssumption, SMT
<1>3. /\ Dist(prodHead, consTail) <= Size
      /\ Dist(prodHead, consTail)
           = Dist(prodHead, prodTail) + Dist(prodTail, consHead) + Dist(consHead, consTail)
  BY DEF CountersOrdered
<1>4. /\ Dist(prodTail, consHead) + Dist(consHead, consTail) < W
      /\ Dist(prodHead, prodTail) + Dist(prodTail, consHead) < W
  BY <1>2, <1>3, SizeAssumption
<1>5. Dist(prodTail, consTail) = Dist(prodTail, consHead) + Dist(consHead, consTail)
  BY <1>1, <1>4, DistAdd
<1>6. Dist(prodHead, consHead) = Dist(prodHead, prodTail) + Dist(prodTail, consHead)
  BY <1>1, <1>4, DistAdd
<1> QED
  BY <1>1, <1>2, <1>3, <1>5, <1>6, SizeAssumption

(* A successful reservation starts at producer.head and fits.                *)
LEMMA EnqReserveMoves ==
  ASSUME IInv, NEW p \in Producers, EnqReserve(p)
  PROVE  /\ head[p] = prodHead /\ elems[p] \in Nat /\ elems[p] >= 1
         /\ Dist(prodHead, consTail) + elems[p] <= Size
         /\ prodHead' \in U32
         /\ \A x \in U32 : Dist(prodHead, x) + elems[p] < W
                             => Dist(prodHead', x) = Dist(prodHead, x) + elems[p]
         /\ UNCHANGED <<prodTail, consHead, consTail, ring>>
         /\ pc[p] = "cas" /\ pc'[p] = "store" /\ idx[p] = 0
         /\ UNCHANGED <<head, elems, idx, ptr, n>>
<1>0. p \in Threads /\ prodHead \in U32 /\ consTail \in U32
  BY Roles DEF IInv, TypeOK
<1>1. head[p] = prodHead
  BY <1>0 DEF IInv, SinglesAlone, EnqReserve
<1>2. elems[p] \in Nat /\ elems[p] >= 1
  BY <1>0, Numbers, SizeAssumption DEF IInv, Locals, LocalsOK, Reserving, EnqReserve
<1>3. Dist(prodHead, consTail) + elems[p] <= Size
  BY <1>1 DEF IInv, ReservationsFit, EnqReserve
<1>4. Dist(prodHead, consTail) \in Nat
  BY <1>0, DistType, SizeAssumption
<1>5. prodHead' = Wrap(prodHead + elems[p])
  BY <1>1 DEF EnqReserve
<1>6. prodHead' \in U32
  <2>1. Dist(prodHead, consTail) + elems[p] < W
    BY <1>2, <1>3, <1>4, SizeAssumption
  <2> QED
    BY <1>0, <1>2, <1>5, <2>1, LeadMoves
<1>7. \A x \in U32 : Dist(prodHead, x) + elems[p] < W
                       => Dist(prodHead', x) = Dist(prodHead, x) + elems[p]
  BY <1>0, <1>2, <1>5, LeadMoves
<1>8. pc[p] = "cas" /\ pc'[p] = "store" /\ idx[p] = 0
  BY <1>0 DEF IInv, TypeOK, Locals, LocalsOK, Holding, EnqReserve, Goto
<1> QED
  BY <1>1, <1>2, <1>3, <1>6, <1>7, <1>8 DEF EnqReserve

LEMMA EnqPublishMoves ==
  ASSUME IInv, NEW p \in Producers, EnqPublish(p)
  PROVE  /\ head[p] = prodTail /\ elems[p] \in Nat /\ elems[p] >= 1
         /\ elems[p] <= Dist(prodHead, prodTail)
         /\ prodTail' \in U32
         /\ \A x \in U32 : Dist(prodTail, x) + elems[p] < W
                             => Dist(prodTail', x) = Dist(prodTail, x) + elems[p]
         /\ \A x \in U32 : elems[p] <= Dist(x, prodTail)
                             => Dist(x, prodTail') = Dist(x, prodTail) - elems[p]
         /\ UNCHANGED <<prodHead, consHead, consTail, ring>>
         /\ Holding(p) /\ pc'[p] = "idle"
<1>0. p \in Threads /\ prodHead \in U32 /\ prodTail \in U32 /\ Holding(p) /\ pc[p] = "publish"
  BY Roles DEF IInv, TypeOK, EnqPublish, Holding
<1>1. head[p] = prodTail
  BY <1>0 DEF IInv, ProducersApart
<1>2. elems[p] \in Nat /\ elems[p] >= 1
  BY <1>0, Numbers, SizeAssumption DEF IInv, Locals, LocalsOK, Reserving
<1>3. elems[p] <= Dist(prodHead, prodTail)
  <2>1. Dist(head[p], prodTail) + elems[p] <= Dist(prodHead, prodTail)
    BY <1>0 DEF IInv, ProducersApart
  <2> QED
    BY <1>0, <1>1, <1>2, <2>1, DistSelf
<1>4. prodTail' = Wrap(prodTail + elems[p])
  BY <1>1 DEF EnqPublish
<1>5. prodTail' \in U32
  BY <1>0, <1>2, <1>3, <1>4, TrailMoves
<1>6. \A x \in U32 : Dist(prodTail, x) + elems[p] < W
                       => Dist(prodTail', x) = Dist(prodTail, x) + elems[p]
  BY <1>0, <1>2, <1>4, LeadMoves
<1>7. \A x \in U32 : elems[p] <= Dist(x, prodTail)
                       => Dist(x, prodTail') = Dist(x, prodTail) - elems[p]
  BY <1>0, <1>2, <1>4, TrailMoves
<1>8. pc'[p] = "idle"
  BY <1>0, Returned DEF EnqPublish, IInv
<1> QED
  BY <1>0, <1>1, <1>2, <1>3, <1>5, <1>6, <1>7, <1>8 DEF EnqPublish

LEMMA DeqReserveMoves ==
  ASSUME IInv, NEW c \in Consumers, DeqReserve(c)
  PROVE  /\ head[c] = consHead /\ elems[c] \in Nat /\ elems[c] >= 1
         /\ elems[c] <= Dist(prodTail, consHead)
         /\ consHead' \in U32
         /\ \A x \in U32 : Dist(consHead, x) + elems[c] < W
                             => Dist(consHead', x) = Dist(consHead, x) + elems[c]
         /\ \A x \in U32 : elems[c] <= Dist(x, consHead)
                             => Dist(x, consHead') = Dist(x, consHead) - elems[c]
         /\ UNCHANGED <<prodHead, prodTail, consTail, ring>>
         /\ pc[c] = "cas" /\ pc'[c] = "load" /\ idx[c] = 0
         /\ UNCHANGED <<head, elems, idx, ptr, n>>
<1>0. c \in Threads /\ consHead \in U32 /\ prodTail \in U32
  BY Roles DEF IInv, TypeOK
<1>1. head[c] = consHead
  BY <1>0 DEF IInv, SinglesAlone, DeqReserve
<1>2. elems[c] \in Nat /\ elems[c] >= 1
  BY <1>0, Numbers, SizeAssumption DEF IInv, Locals, LocalsOK, Reserving, DeqReserve
<1>3. elems[c] <= Dist(prodTail, consHead)
  BY <1>1 DEF IInv, ReservationsFit, DeqReserve
<1>4. consHead' = Wrap(consHead + elems[c])
  BY <1>1 DEF DeqReserve
<1>5. consHead' \in U32
  BY <1>0, <1>2, <1>3, <1>4, TrailMoves
<1>6. \A x \in U32 : Dist(consHead, x) + elems[c] < W
                       => Dist(consHead', x) = Dist(consHead, x) + elems[c]
  BY <1>0, <1>2, <1>4, LeadMoves
<1>7. \A x \in U32 : elems[c] <= Dist(x, consHead)
                       => Dist(x, consHead') = Dist(x, consHead) - elems[c]
  BY <1>0, <1>2, <1>4, TrailMoves
<1>8. pc[c] = "cas" /\ pc'[c] = "load" /\ idx[c] = 0
  BY <1>0 DEF IInv, TypeOK, Locals, LocalsOK, Holding, DeqReserve, Goto
<1> QED
  BY <1>1, <1>2, <1>3, <1>5, <1>6, <1>7, <1>8 DEF DeqReserve

LEMMA DeqPublishMoves ==
  ASSUME IInv, NEW c \in Consumers, DeqPublish(c)
  PROVE  /\ head[c] = consTail /\ elems[c] \in Nat /\ elems[c] >= 1
         /\ elems[c] <= Dist(consHead, consTail)
         /\ consTail' \in U32
         /\ \A x \in U32 : Dist(consTail, x) + elems[c] < W
                             => Dist(consTail', x) = Dist(consTail, x) + elems[c]
         /\ \A x \in U32 : elems[c] <= Dist(x, consTail)
                             => Dist(x, consTail') = Dist(x, consTail) - elems[c]
         /\ UNCHANGED <<prodHead, prodTail, consHead, ring>>
         /\ Holding(c) /\ pc'[c] = "idle"
<1>0. c \in Threads /\ consHead \in U32 /\ consTail \in U32 /\ Holding(c) /\ pc[c] = "publish"
  BY Roles DEF IInv, TypeOK, DeqPublish, Holding
<1>1. head[c] = consTail
  BY <1>0 DEF IInv, ConsumersApart
<1>2. elems[c] \in Nat /\ elems[c] >= 1
  BY <1>0, Numbers, SizeAssumption DEF IInv, Locals, LocalsOK, Reserving
<1>3. elems[c] <= Dist(consHead, consTail)
  <2>1. Dist(head[c], consTail) + elems[c] <= Dist(consHead, consTail)
    BY <1>0 DEF IInv, ConsumersApart
  <2> QED
    BY <1>0, <1>1, <1>2, <2>1, DistSelf
<1>4. consTail' = Wrap(consTail + elems[c])
  BY <1>1 DEF DeqPublish
<1>5. consTail' \in U32
  BY <1>0, <1>2, <1>3, <1>4, TrailMoves
<1>6. \A x \in U32 : Dist(consTail, x) + elems[c] < W
                       => Dist(consTail', x) = Dist(consTail, x) + elems[c]
  BY <1>0, <1>2, <1>4, LeadMoves
<1>7. \A x \in U32 : elems[c] <= Dist(x, consTail)
                       => Dist(x, consTail') = Dist(x, consTail) - elems[c]
  BY <1>0, <1>2, <1>4, TrailMoves
<1>8. pc'[c] = "idle"
  BY <1>0, Returned DEF DeqPublish, IInv
<1> QED
  BY <1>0, <1>1, <1>2, <1>3, <1>5, <1>6, <1>7, <1>8 DEF DeqPublish

(* No other step moves a counter.                                            *)
Counters == <<prodHead, prodTail, consHead, consTail>>

LEMMA QuietSteps ==
  ASSUME [Next]_vars,
         ~ \E p \in Producers : EnqReserve(p) \/ EnqPublish(p),
         ~ \E c \in Consumers : DeqReserve(c) \/ DeqPublish(c)
  PROVE  UNCHANGED Counters
BY DEF Next, Enqueue, Dequeue, Observe, EnqCall, EnqLoadHead, EnqLoadTail, EnqRetry, EnqStore,
       EnqWait, DeqCall, DeqLoadHead, DeqLoadTail, DeqRetry, DeqLoad, DeqWait, ObsCall,
       ObsEmpty, ObsCount, ObsSpace, ObsReturn, shared, Counters, vars

-----------------------------------------------------------------------------
(* The order of the counters *)

LEMMA CountersStep == ASSUME IInv, [Next]_vars PROVE CountersOrdered'
<1>0. TypeOK /\ CountersOrdered
  BY DEF IInv
<1>1. ASSUME NEW p \in Producers, EnqReserve(p) PROVE CountersOrdered'
  BY <1>0, <1>1, EnqReserveMoves, Gaps, SizeAssumption, SMT DEF CountersOrdered
<1>2. ASSUME NEW p \in Producers, EnqPublish(p) PROVE CountersOrdered'
  BY <1>0, <1>2, EnqPublishMoves, Gaps, SizeAssumption, SMT DEF CountersOrdered
<1>3. ASSUME NEW c \in Consumers, DeqReserve(c) PROVE CountersOrdered'
  BY <1>0, <1>3, DeqReserveMoves, Gaps, SizeAssumption, SMT DEF CountersOrdered
<1>4. ASSUME NEW c \in Consumers, DeqPublish(c) PROVE CountersOrdered'
  BY <1>0, <1>4, DeqPublishMoves, Gaps, SizeAssumption, SMT DEF CountersOrdered
<1>5. CASE UNCHANGED Counters
  BY <1>0, <1>5 DEF CountersOrdered, Counters
<1> QED
  BY <1>1, <1>2, <1>3, <1>4, <1>5, QuietSteps

-----------------------------------------------------------------------------
(* First loads that are still to be used *)

(* A reservation makes every other first load older: NotStale bounds that.   *)
LEMMA SnapshotsProducer ==
  ASSUME IInv, TypeOK', NEW p \in Producers, EnqCall(p) \/ Enqueue(p)
  PROVE  SnapshotsFresh'
<1>0. TypeOK /\ CountersOrdered /\ SnapshotsFresh /\ p \in Threads
  BY Roles DEF IInv
<1>1. OnlyMoves(p)
  BY <1>0, ProducerFrame
<1>2. CASE EnqReserve(p)
  <2> DEFINE k == elems[p]
  <2>1. /\ k \in Nat /\ prodHead' \in U32 /\ pc'[p] = "store"
        /\ \A x \in U32 : Dist(prodHead, x) + k < W => Dist(prodHead', x) = Dist(prodHead, x) + k
        /\ Dist(prodHead, consTail) + k <= Size
        /\ UNCHANGED <<consHead, consTail, head>>
    BY <1>2, EnqReserveMoves
  <2>2. Dist(prodHead', consHead) = Dist(prodHead, consHead) + k
        /\ Dist(prodHead', consTail) = Dist(prodHead, consTail) + k
    BY <1>0, <2>1, Gaps, SizeAssumption
  <2>3. ASSUME NEW t \in Threads, (pc[t] \in InFlight)'
        PROVE  /\ pc[t] \in InFlight /\ pc'[t] = pc[t] /\ head'[t] = head[t]
               /\ Dist(prodHead', head'[t]) = Dist(prodHead, head[t]) + k
               /\ Dist(prodHead, head[t]) + k + Size < W
               /\ Dist(prodHead, head[t]) \in Nat
    <3>1. t # p /\ pc'[t] = pc[t] /\ head'[t] = head[t]
      BY <1>1, <2>1, <2>3 DEF OnlyMoves, InFlight
    <3>2. Dist(prodHead, head[t]) + k + Size < W
      BY <1>2, <2>3, <3>1 DEF EnqReserve, NotStale
    <3>3. head[t] \in U32 /\ Dist(prodHead, head[t]) \in Nat
      BY <1>0, DistType, SizeAssumption DEF TypeOK
    <3>4. Dist(prodHead, head[t]) + k < W
      BY <2>1, <3>2, <3>3, SizeAssumption
    <3> QED
      BY <2>1, <2>3, <3>1, <3>2, <3>3, <3>4 DEF InFlight
  <2>4. ASSUME NEW t \in Threads, (pc[t] \in InFlight)' PROVE (Dist(prodHead, head[t]) + Size < W)'
    BY <2>1, <2>3, <2>4, SizeAssumption
  <2>5. ASSUME NEW c \in Consumers, (pc[c] \in InFlight)'
        PROVE  (Dist(prodHead, head[c]) = Dist(prodHead, consHead) + Dist(consHead, head[c]))'
    <3>1. c \in Threads
      BY Roles
    <3>2. Dist(prodHead, head[c]) = Dist(prodHead, consHead) + Dist(consHead, head[c])
      BY <1>0, <2>3, <2>5, <3>1 DEF SnapshotsFresh
    <3>3. Dist(consHead, head[c]) \in Nat /\ Dist(prodHead, consHead) \in Nat
      BY <1>0, <3>1, DistType, SizeAssumption DEF TypeOK
    <3>4. Dist(prodHead', head'[c]) = Dist(prodHead, head[c]) + k
      BY <2>3, <2>5, <3>1
    <3> QED
      BY <2>1, <2>2, <3>2, <3>3, <3>4
  <2>6. ASSUME NEW o \in Observers, pc'[o] = "count"
        PROVE  (Dist(prodHead, head[o]) = Dist(prodHead, consHead) + Dist(consHead, head[o]))'
    <3>1. o \in Threads /\ (pc[o] \in InFlight)'
      BY <2>6, Roles DEF InFlight
    <3>2. Dist(prodHead, head[o]) = Dist(prodHead, consHead) + Dist(consHead, head[o])
      BY <1>0, <2>3, <2>6, <3>1 DEF SnapshotsFresh
    <3>3. Dist(consHead, head[o]) \in Nat /\ Dist(prodHead, consHead) \in Nat
      BY <1>0, <3>1, DistType, SizeAssumption DEF TypeOK
    <3>4. Dist(prodHead', head'[o]) = Dist(prodHead, head[o]) + k
      BY <2>3, <3>1
    <3> QED
      BY <2>1, <2>2, <3>2, <3>3, <3>4
  <2>7. ASSUME NEW o \in Observers, pc'[o] = "empty"
        PROVE  (Dist(prodHead, head[o]) = Dist(prodHead, consTail) + Dist(consTail, head[o]))'
    <3>1. o \in Threads /\ (pc[o] \in InFlight)'
      BY <2>7, Roles DEF InFlight
    <3>2. Dist(prodHead, head[o]) = Dist(prodHead, consTail) + Dist(consTail, head[o])
      BY <1>0, <2>3, <2>7, <3>1 DEF SnapshotsFresh
    <3>3. Dist(consTail, head[o]) \in Nat /\ Dist(prodHead, consTail) \in Nat
      BY <1>0, <3>1, DistType, SizeAssumption DEF TypeOK
    <3>4. Dist(prodHead', head'[o]) = Dist(prodHead, head[o]) + k
      BY <2>3, <3>1
    <3> QED
      BY <2>1, <2>2, <3>2, <3>3, <3>4
  <2> QED
    BY <2>4, <2>5, <2>6, <2>7 DEF SnapshotsFresh
<1>3. CASE ~EnqReserve(p)
  <2>1. UNCHANGED <<prodHead, consHead, consTail>>
    BY <1>3 DEF Enqueue, EnqCall, EnqLoadHead, EnqLoadTail, EnqRetry, EnqStore, EnqWait,
                EnqPublish, shared
  <2>2. pc'[p] \in InFlight => (pc[p] \in InFlight /\ head'[p] = head[p]) \/ head'[p] = prodHead
    BY <1>0, <1>3, Returned DEF Enqueue, EnqCall, EnqLoadHead, EnqLoadTail, EnqRetry, EnqStore,
       EnqWait, EnqPublish, Goto, InFlight, TypeOK
  <2>3. Dist(prodHead, prodHead) = 0
    BY <1>0, DistSelf DEF TypeOK
  <2>4. ASSUME NEW t \in Threads, (pc[t] \in InFlight)' PROVE (Dist(prodHead, head[t]) + Size < W)'
    BY <1>0, <1>1, <2>1, <2>2, <2>3, <2>4, SizeAssumption DEF OnlyMoves, SnapshotsFresh, InFlight
  <2>5. \A c \in Consumers : pc'[c] = pc[c] /\ head'[c] = head[c]
    BY <1>1, Roles DEF OnlyMoves
  <2>6. \A o \in Observers : pc'[o] = pc[o] /\ head'[o] = head[o]
    BY <1>1, Roles DEF OnlyMoves
  <2> QED
    BY <1>0, <2>1, <2>4, <2>5, <2>6 DEF SnapshotsFresh, InFlight
<1> QED
  BY <1>2, <1>3

LEMMA SnapshotsConsumer ==
  ASSUME IInv, TypeOK', NEW c \in Consumers, DeqCall(c) \/ Dequeue(c)
  PROVE  SnapshotsFresh'
<1>0. TypeOK /\ CountersOrdered /\ SnapshotsFresh /\ c \in Threads
  BY Roles DEF IInv
<1>1. OnlyMoves(c)
  BY <1>0, ConsumerFrame
<1>a. /\ prodHead \in U32 /\ consHead \in U32 /\ consTail \in U32
      /\ Dist(prodHead, consHead) \in Nat /\ Dist(prodHead, consTail) \in Nat
      /\ Dist(prodHead, consHead) <= Size /\ Dist(prodHead, consTail) <= Size
      /\ Dist(consHead, consHead) = 0
  BY <1>0, Gaps, DistSelf, SizeAssumption
<1>b. UNCHANGED prodHead
  BY DEF Dequeue, DeqCall, DeqLoadHead, DeqLoadTail, DeqReserve, DeqRetry, DeqLoad, DeqWait,
         DeqPublish, shared
<1>c. pc'[c] \in InFlight =>
         \/ pc[c] \in InFlight /\ head'[c] = head[c] /\ UNCHANGED <<consHead, consTail>>
         \/ head'[c] = consHead /\ UNCHANGED <<consHead, consTail>>
  BY <1>0, Returned DEF Dequeue, DeqCall, DeqLoadHead, DeqLoadTail, DeqReserve, DeqRetry,
     DeqLoad, DeqWait, DeqPublish, Goto, InFlight, TypeOK, shared
<1>d. ASSUME NEW t \in Threads, (pc[t] \in InFlight)'
      PROVE  (Dist(prodHead, head[t]) + Size < W)'
  BY <1>0, <1>1, <1>a, <1>b, <1>c, <1>d, SizeAssumption DEF OnlyMoves, SnapshotsFresh, InFlight
<1>2. CASE DeqReserve(c)
  <2> DEFINE k == elems[c]
  <2>1. /\ k \in Nat /\ consHead' \in U32 /\ pc'[c] = "load" /\ k <= Dist(prodTail, consHead)
        /\ \A x \in U32 : Dist(consHead, x) + k < W => Dist(consHead', x) = Dist(consHead, x) + k
        /\ \A x \in U32 : k <= Dist(x, consHead) => Dist(x, consHead') = Dist(x, consHead) - k
        /\ UNCHANGED <<consTail, head>>
    BY <1>2, DeqReserveMoves
  <2>2. Dist(prodHead, consHead') = Dist(prodHead, consHead) - k /\ k <= Size
    BY <1>0, <1>a, <2>1, Gaps, SizeAssumption
  <2>3. ASSUME NEW t \in Threads, t # c, pc[t] \in InFlight,
               Dist(prodHead, head[t]) = Dist(prodHead, consHead) + Dist(consHead, head[t])
        PROVE  Dist(prodHead, head[t]) = Dist(prodHead, consHead') + Dist(consHead', head[t])
    <3>1. head[t] \in U32 /\ Dist(prodHead, head[t]) \in Nat /\ Dist(consHead, head[t]) \in Nat
      BY <1>0, <1>a, DistType, SizeAssumption DEF TypeOK
    <3>2. Dist(prodHead, head[t]) + Size < W
      BY <1>0, <2>3 DEF SnapshotsFresh
    <3>3. Dist(consHead, head[t]) + k < W
      BY <1>a, <2>1, <2>2, <2>3, <3>1, <3>2, SizeAssumption
    <3> QED
      BY <1>a, <2>1, <2>2, <2>3, <3>1, <3>3
  <2>4. \A t \in Threads \ {c} : pc'[t] = pc[t] /\ head'[t] = head[t]
    BY <1>1 DEF OnlyMoves
  <2>5. ASSUME NEW d \in Consumers, (pc[d] \in InFlight)'
        PROVE  (Dist(prodHead, head[d]) = Dist(prodHead, consHead) + Dist(consHead, head[d]))'
    <3>1. d \in Threads /\ d # c /\ pc[d] \in InFlight /\ head'[d] = head[d]
      BY <2>1, <2>4, <2>5, Roles DEF InFlight
    <3> QED
      BY <1>0, <1>b, <2>3, <3>1 DEF SnapshotsFresh
  <2>6. ASSUME NEW o \in Observers, pc'[o] = "count"
        PROVE  (Dist(prodHead, head[o]) = Dist(prodHead, consHead) + Dist(consHead, head[o]))'
    <3>1. o \in Threads /\ o # c /\ pc[o] = "count" /\ head'[o] = head[o]
      BY <2>4, <2>6, Roles
    <3> QED
      BY <1>0, <1>b, <2>3, <3>1 DEF SnapshotsFresh, InFlight
  <2>7. ASSUME NEW o \in Observers, pc'[o] = "empty"
        PROVE  (Dist(prodHead, head[o]) = Dist(prodHead, consTail) + Dist(consTail, head[o]))'
    <3>1. o \in Threads /\ o # c /\ pc[o] = "empty" /\ head'[o] = head[o]
      BY <2>4, <2>7, Roles
    <3> QED
      BY <1>0, <1>b, <2>1, <3>1 DEF SnapshotsFresh
  <2> QED
    BY <1>d, <2>5, <2>6, <2>7 DEF SnapshotsFresh
<1>3. CASE DeqPublish(c)
  <2> DEFINE k == elems[c]
  <2>1. /\ k \in Nat /\ consTail' \in U32 /\ pc'[c] = "idle" /\ k <= Dist(consHead, consTail)
        /\ \A x \in U32 : Dist(consTail, x) + k < W => Dist(consTail', x) = Dist(consTail, x) + k
        /\ \A x \in U32 : k <= Dist(x, consTail) => Dist(x, consTail') = Dist(x, consTail) - k
        /\ UNCHANGED consHead
    BY <1>3, DeqPublishMoves
  <2>2. Dist(prodHead, consTail') = Dist(prodHead, consTail) - k /\ k <= Size
    BY <1>0, <1>a, <2>1, Gaps, SizeAssumption
  <2>4. \A t \in Threads \ {c} : pc'[t] = pc[t] /\ head'[t] = head[t]
    BY <1>1 DEF OnlyMoves
  <2>5. ASSUME NEW d \in Consumers, (pc[d] \in InFlight)'
        PROVE  (Dist(prodHead, head[d]) = Dist(prodHead, consHead) + Dist(consHead, head[d]))'
    <3>1. d \in Threads /\ d # c /\ pc[d] \in InFlight /\ head'[d] = head[d]
      BY <2>1, <2>4, <2>5, Roles DEF InFlight
    <3> QED
      BY <1>0, <1>b, <2>1, <3>1 DEF SnapshotsFresh
  <2>6. ASSUME NEW o \in Observers, pc'[o] = "count"
        PROVE  (Dist(prodHead, head[o]) = Dist(prodHead, consHead) + Dist(consHead, head[o]))'
    <3>1. o \in Threads /\ o # c /\ pc[o] = "count" /\ head'[o] = head[o]
      BY <2>4, <2>6, Roles
    <3> QED
      BY <1>0, <1>b, <2>1, <3>1 DEF SnapshotsFresh
  <2>7. ASSUME NEW o \in Observers, pc'[o] = "empty"
        PROVE  (Dist(prodHead, head[o]) = Dist(prodHead, consTail) + Dist(consTail, head[o]))'
    <3>1. o \in Threads /\ o # c /\ pc[o] = "empty" /\ head'[o] = head[o]
      BY <2>4, <2>7, Roles
    <3>2. Dist(prodHead, head[o]) = Dist(prodHead, consTail) + Dist(consTail, head[o])
      BY <1>0, <3>1 DEF SnapshotsFresh
    <3>3. head[o] \in U32 /\ Dist(prodHead, head[o]) \in Nat /\ Dist(consTail, head[o]) \in Nat
      BY <1>0, <1>a, <3>1, DistType, SizeAssumption DEF TypeOK
    <3>4. Dist(prodHead, head[o]) + Size < W
      BY <1>0, <3>1 DEF SnapshotsFresh, InFlight
    <3>5. Dist(consTail, head[o]) + k < W
      BY <1>a, <2>1, <2>2, <3>2, <3>3, <3>4, SizeAssumption
    <3> QED
      BY <1>a, <1>b, <2>1, <2>2, <3>1, <3>2, <3>3, <3>5
  <2> QED
    BY <1>d, <2>5, <2>6, <2>7 DEF SnapshotsFresh
<1>4. CASE ~DeqReserve(c) /\ ~DeqPublish(c)
  <2>1. UNCHANGED <<consHead, consTail>>
    BY <1>4 DEF Dequeue, DeqCall, DeqLoadHead, DeqLoadTail, DeqRetry, DeqLoad, DeqWait, shared
  <2>2. \A t \in Threads \ {c} : pc'[t] = pc[t] /\ head'[t] = head[t]
    BY <1>1 DEF OnlyMoves
  <2>3. ASSUME NEW d \in Consumers, (pc[d] \in InFlight)'
        PROVE  (Dist(prodHead, head[d]) = Dist(prodHead, consHead) + Dist(consHead, head[d]))'
    <3>1. CASE d = c
      BY <1>0, <1>a, <1>b, <1>c, <2>1, <2>3, <3>1 DEF SnapshotsFresh, InFlight
    <3>2. CASE d # c
      BY <1>0, <1>b, <2>1, <2>2, <2>3, <3>2, Roles DEF SnapshotsFresh, InFlight
    <3> QED
      BY <3>1, <3>2
  <2>4. \A o \in Observers : pc'[o] = pc[o] /\ head'[o] = head[o]
    BY <2>2, Roles
  <2> QED
    BY <1>0, <1>b, <1>d, <2>1, <2>3, <2>4 DEF SnapshotsFresh
<1> QED
  BY <1>2, <1>3, <1>4

LEMMA SnapshotsObserver ==
  ASSUME IInv, NEW o \in Observers, ObsCall(o) \/ Observe(o)
  PROVE  SnapshotsFresh'
<1>0. TypeOK /\ CountersOrdered /\ SnapshotsFresh /\ o \in Threads
  BY Roles DEF IInv
<1>1. OnlyMoves(o) /\ UNCHANGED <<prodHead, prodTail, consHead, consTail>>
  BY <1>0, ObserverFrame DEF shared
<1>a. /\ Dist(prodHead, consHead) \in Nat /\ Dist(prodHead, consTail) \in Nat
      /\ Dist(prodHead, consHead) <= Size /\ Dist(prodHead, consTail) <= Size
      /\ Dist(consHead, consHead) = 0 /\ Dist(consTail, consTail) = 0
      /\ Dist(prodHead, prodHead) = 0
  BY <1>0, Gaps, DistSelf, SizeAssumption
<1>2. \/ pc'[o] = "idle"
      \/ pc'[o] = "empty" /\ head'[o] = consTail
      \/ pc'[o] = "count" /\ head'[o] = consHead
      \/ pc'[o] = "space" /\ head'[o] = prodHead
  BY <1>0, Returned DEF ObsCall, Observe, ObsEmpty, ObsCount, ObsSpace, ObsReturn, FirstLoad,
     Goto, TypeOK
<1>3. ASSUME NEW t \in Threads, (pc[t] \in InFlight)'
      PROVE  (Dist(prodHead, head[t]) + Size < W)'
  BY <1>0, <1>1, <1>2, <1>3, <1>a, SizeAssumption DEF OnlyMoves, SnapshotsFresh, InFlight
<1>4. ASSUME NEW c \in Consumers, (pc[c] \in InFlight)'
      PROVE  (Dist(prodHead, head[c]) = Dist(prodHead, consHead) + Dist(consHead, head[c]))'
  BY <1>0, <1>1, <1>4, Roles DEF OnlyMoves, SnapshotsFresh, InFlight
<1>5. ASSUME NEW u \in Observers, pc'[u] = "count"
      PROVE  (Dist(prodHead, head[u]) = Dist(prodHead, consHead) + Dist(consHead, head[u]))'
  BY <1>0, <1>1, <1>2, <1>5, <1>a, Roles DEF OnlyMoves, SnapshotsFresh
<1>6. ASSUME NEW u \in Observers, pc'[u] = "empty"
      PROVE  (Dist(prodHead, head[u]) = Dist(prodHead, consTail) + Dist(consTail, head[u]))'
  BY <1>0, <1>1, <1>2, <1>6, <1>a, Roles DEF OnlyMoves, SnapshotsFresh
<1> QED
  BY <1>3, <1>4, <1>5, <1>6 DEF SnapshotsFresh

LEMMA SnapshotsStep == ASSUME IInv, [Next]_vars PROVE SnapshotsFresh'
<1>1. TypeOK'
  BY TypeStep DEF IInv
<1>2. CASE UNCHANGED vars
  BY <1>2 DEF vars, IInv, SnapshotsFresh, InFlight
<1> QED
  BY <1>1, <1>2, SnapshotsProducer, SnapshotsConsumer, SnapshotsObserver DEF Next

-----------------------------------------------------------------------------
(* Reservations about to be made *)

(* A head that the reservation leaves behind never equals the new one.       *)
LEMMA FitProducer ==
  ASSUME IInv, TypeOK', NEW p \in Producers, EnqCall(p) \/ Enqueue(p)
  PROVE  ReservationsFit'
<1>0. TypeOK /\ CountersOrdered /\ ReservationsFit /\ SnapshotsFresh /\ p \in Threads
  BY Roles DEF IInv
<1>1. OnlyMoves(p)
  BY <1>0, ProducerFrame
<1>a. UNCHANGED <<consHead, consTail>>
  BY DEF Enqueue, EnqCall, EnqLoadHead, EnqLoadTail, EnqReserve, EnqRetry, EnqStore, EnqWait,
         EnqPublish, shared
<1>2. ASSUME NEW c \in Consumers, pc'[c] = "cas", head'[c] = consHead'
      PROVE  (elems[c] <= Dist(prodTail, consHead))'
  <2>1. c \in Threads /\ pc[c] = "cas" /\ head[c] = consHead /\ elems'[c] = elems[c]
    BY <1>1, <1>2, <1>a, Roles DEF OnlyMoves
  <2>2. elems[c] <= Dist(prodTail, consHead)
    BY <1>0, <2>1 DEF ReservationsFit
  <2>3. CASE EnqPublish(p)
    <3>1. Dist(prodTail', consHead) = Dist(prodTail, consHead) + elems[p] /\ elems[p] \in Nat
      BY <1>0, <2>3, EnqPublishMoves, Gaps, SizeAssumption
    <3>2. elems[c] \in Nat /\ Dist(prodTail, consHead) \in Nat
      BY <1>0, <2>1, Numbers, Gaps
    <3> QED
      BY <1>a, <2>1, <2>2, <3>1, <3>2
  <2>4. CASE ~EnqPublish(p)
    <3>1. UNCHANGED prodTail
      BY <2>4 DEF Enqueue, EnqCall, EnqLoadHead, EnqLoadTail, EnqReserve, EnqRetry, EnqStore,
                  EnqWait, shared
    <3> QED
      BY <1>a, <2>1, <2>2, <3>1
  <2> QED
    BY <2>3, <2>4
<1>3. ASSUME NEW q \in Producers, pc'[q] = "cas", head'[q] = prodHead'
      PROVE  (Dist(prodHead, consTail) + elems[q] <= Size)'
  <2>0. q \in Threads
    BY Roles
  <2>1. CASE EnqReserve(p)
    <3>1. q # p /\ pc[q] = "cas" /\ head'[q] = head[q]
      BY <1>1, <1>3, <2>0, <2>1, EnqReserveMoves DEF OnlyMoves
    <3>2. Dist(prodHead, head[q]) + elems[p] + Size < W
      BY <2>0, <2>1, <3>1 DEF EnqReserve, NotStale, InFlight
    <3>3. head[q] \in U32 /\ Dist(prodHead, head[q]) \in Nat /\ elems[p] \in Nat /\ elems[p] >= 1
      BY <1>0, <2>0, <2>1, EnqReserveMoves, DistType, SizeAssumption DEF TypeOK
    <3>4. Dist(prodHead', head[q]) = Dist(prodHead, head[q]) + elems[p]
      BY <2>1, <3>2, <3>3, EnqReserveMoves, SizeAssumption
    <3>5. Dist(head[q], head[q]) = 0
      BY <3>3, DistSelf
    <3> QED
      BY <1>3, <3>1, <3>3, <3>4, <3>5
  <2>2. CASE EnqLoadTail(p)
    <3>1. UNCHANGED <<prodHead, prodTail>>
      BY <2>2 DEF EnqLoadTail, shared
    <3>2. CASE q = p
      <4>1. n[p] <= Space(p) /\ elems'[p] = n[p] /\ head'[p] = head[p] /\ pc[p] = "ldtail"
        BY <1>0, <1>3, <2>2, <3>2, Returned DEF EnqLoadTail, TypeOK, Goto
      <4>2. head[p] = prodHead
        BY <1>3, <3>1, <3>2, <4>1
      <4>3. Space(p) = Size - Dist(prodHead, consTail) + Dist(prodHead, head[p])
        <5>1. head[p] \in U32 /\ prodHead \in U32 /\ consTail \in U32
          BY <1>0 DEF TypeOK
        <5>2. Dist(prodHead, consTail) <= Size
          BY <1>0 DEF CountersOrdered
        <5>3. Dist(prodHead, head[p]) + Size < W
          BY <1>0, <4>1 DEF SnapshotsFresh, InFlight
        <5> QED
          BY <5>1, <5>2, <5>3, SpaceIs DEF Space
      <4>4. Dist(prodHead, head[p]) = 0
        BY <1>0, <4>2, DistSelf DEF TypeOK
      <4> QED
        BY <1>0, <1>a, <3>1, <3>2, <4>1, <4>3, <4>4, Gaps, Numbers, SizeAssumption
    <3>3. CASE q # p
      BY <1>0, <1>1, <1>3, <1>a, <2>0, <3>1, <3>3 DEF OnlyMoves, ReservationsFit
    <3> QED
      BY <3>2, <3>3
  <2>3. CASE ~EnqReserve(p) /\ ~EnqLoadTail(p)
    <3>1. UNCHANGED prodHead
      BY <2>3 DEF Enqueue, EnqCall, EnqLoadHead, EnqRetry, EnqStore, EnqWait, EnqPublish, shared
    <3>2. pc'[p] # "cas"
      BY <1>0, <2>3, Returned DEF Enqueue, EnqCall, EnqLoadHead, EnqRetry, EnqStore, EnqWait,
         EnqPublish, Goto, TypeOK
    <3> QED
      BY <1>0, <1>1, <1>3, <1>a, <2>0, <3>1, <3>2 DEF OnlyMoves, ReservationsFit
  <2> QED
    BY <2>1, <2>2, <2>3
<1> QED
  BY <1>2, <1>3 DEF ReservationsFit

LEMMA FitConsumer ==
  ASSUME IInv, TypeOK', NEW c \in Consumers, DeqCall(c) \/ Dequeue(c)
  PROVE  ReservationsFit'
<1>0. TypeOK /\ CountersOrdered /\ ReservationsFit /\ SnapshotsFresh /\ c \in Threads
  BY Roles DEF IInv
<1>1. OnlyMoves(c)
  BY <1>0, ConsumerFrame
<1>a. UNCHANGED <<prodHead, prodTail>>
  BY DEF Dequeue, DeqCall, DeqLoadHead, DeqLoadTail, DeqReserve, DeqRetry, DeqLoad, DeqWait,
         DeqPublish, shared
<1>2. ASSUME NEW p \in Producers, pc'[p] = "cas", head'[p] = prodHead'
      PROVE  (Dist(prodHead, consTail) + elems[p] <= Size)'
  <2>1. p \in Threads /\ pc[p] = "cas" /\ head[p] = prodHead /\ elems'[p] = elems[p]
    BY <1>1, <1>2, <1>a, Roles DEF OnlyMoves
  <2>2. Dist(prodHead, consTail) + elems[p] <= Size
    BY <1>0, <2>1 DEF ReservationsFit
  <2>3. CASE DeqPublish(c)
    <3>1. Dist(prodHead, consTail') = Dist(prodHead, consTail) - elems[c] /\ elems[c] \in Nat
      BY <1>0, <2>3, DeqPublishMoves, Gaps, SizeAssumption
    <3>2. elems[p] \in Nat /\ Dist(prodHead, consTail) \in Nat
      BY <1>0, <2>1, Numbers, Gaps
    <3> QED
      BY <1>a, <2>1, <2>2, <3>1, <3>2, SizeAssumption
  <2>4. CASE ~DeqPublish(c)
    <3>1. UNCHANGED consTail
      BY <2>4 DEF Dequeue, DeqCall, DeqLoadHead, DeqLoadTail, DeqReserve, DeqRetry, DeqLoad,
                  DeqWait, shared
    <3> QED
      BY <1>a, <2>1, <2>2, <3>1
  <2> QED
    BY <2>3, <2>4
<1>3. ASSUME NEW d \in Consumers, pc'[d] = "cas", head'[d] = consHead'
      PROVE  (elems[d] <= Dist(prodTail, consHead))'
  <2>0. d \in Threads
    BY Roles
  <2>1. CASE DeqReserve(c)
    <3>1. d # c /\ pc[d] = "cas" /\ head'[d] = head[d]
      BY <1>1, <1>3, <2>0, <2>1, DeqReserveMoves DEF OnlyMoves
    <3>2. /\ Dist(prodHead, head[d]) + Size < W
          /\ Dist(prodHead, head[d]) = Dist(prodHead, consHead) + Dist(consHead, head[d])
      BY <1>0, <2>0, <3>1 DEF SnapshotsFresh, InFlight
    <3>3. /\ head[d] \in U32 /\ Dist(consHead, head[d]) \in Nat /\ Dist(prodHead, consHead) \in Nat
          /\ elems[c] \in Nat /\ elems[c] >= 1 /\ elems[c] <= Size
      <4>1. elems[c] \in Nat /\ elems[c] >= 1 /\ elems[c] <= Dist(prodTail, consHead)
        BY <2>1, DeqReserveMoves
      <4>2. elems[c] <= Size
        BY <1>0, <4>1, Gaps, SizeAssumption
      <4>3. head[d] \in U32 /\ Dist(consHead, head[d]) \in Nat /\ Dist(prodHead, consHead) \in Nat
        BY <1>0, <2>0, DistType, SizeAssumption DEF TypeOK
      <4> QED
        BY <4>1, <4>2, <4>3
    <3>4. Dist(consHead', head[d]) = Dist(consHead, head[d]) + elems[c]
      BY <2>1, <3>2, <3>3, DeqReserveMoves, SizeAssumption
    <3>5. Dist(head[d], head[d]) = 0
      BY <3>3, DistSelf
    <3> QED
      BY <1>3, <3>1, <3>3, <3>4, <3>5
  <2>2. CASE DeqLoadTail(c)
    <3>1. UNCHANGED <<consHead, consTail>>
      BY <2>2 DEF DeqLoadTail, shared
    <3>2. CASE d = c
      <4>1. /\ elems'[c] = IF Avail(c) < n[c] THEN Avail(c) ELSE n[c]
            /\ head'[c] = head[c]
        BY <1>0, <1>3, <2>2, <3>2, Returned DEF DeqLoadTail, TypeOK, Goto
      <4>2. Avail(c) = Dist(prodTail, consHead)
        BY <1>3, <3>1, <3>2, <4>1 DEF Avail
      <4> QED
        BY <1>0, <1>a, <3>1, <3>2, <4>1, <4>2, Gaps, Numbers, SizeAssumption
    <3>3. CASE d # c
      BY <1>0, <1>1, <1>3, <1>a, <2>0, <3>1, <3>3 DEF OnlyMoves, ReservationsFit
    <3> QED
      BY <3>2, <3>3
  <2>3. CASE ~DeqReserve(c) /\ ~DeqLoadTail(c)
    <3>1. UNCHANGED consHead
      BY <2>3 DEF Dequeue, DeqCall, DeqLoadHead, DeqRetry, DeqLoad, DeqWait, DeqPublish, shared
    <3>2. pc'[c] # "cas"
      BY <1>0, <2>3, Returned DEF Dequeue, DeqCall, DeqLoadHead, DeqRetry, DeqLoad, DeqWait,
         DeqPublish, Goto, TypeOK
    <3> QED
      BY <1>0, <1>1, <1>3, <1>a, <2>0, <3>1, <3>2 DEF OnlyMoves, ReservationsFit
  <2> QED
    BY <2>1, <2>2, <2>3
<1> QED
  BY <1>2, <1>3 DEF ReservationsFit

LEMMA FitStep == ASSUME IInv, [Next]_vars PROVE ReservationsFit'
<1>1. TypeOK'
  BY TypeStep DEF IInv
<1>2. ASSUME NEW o \in Observers, ObsCall(o) \/ Observe(o) PROVE ReservationsFit'
  BY <1>2, ObserverFrame, Roles DEF IInv, ReservationsFit, OnlyMoves, shared
<1>3. CASE UNCHANGED vars
  BY <1>3 DEF vars, IInv, ReservationsFit
<1> QED
  BY <1>1, <1>2, <1>3, FitProducer, FitConsumer DEF Next

-----------------------------------------------------------------------------
(* Reservations lie apart *)

LEMMA ApartProducer ==
  ASSUME IInv, TypeOK', NEW p \in Producers, EnqCall(p) \/ Enqueue(p)
  PROVE  ProducersApart'
<1>0. TypeOK /\ CountersOrdered /\ ProducersApart /\ SinglesAlone /\ p \in Threads
  BY Roles DEF IInv
<1>1. \A q \in Producers : q # p =>
        pc'[q] = pc[q] /\ head'[q] = head[q] /\ elems'[q] = elems[q]
  BY <1>0, ProducerFrame, Roles DEF OnlyMoves
<1>2. \A q \in Producers :
        /\ head[q] \in U32 /\ elems[q] \in Nat /\ Dist(head[q], prodTail) \in Nat
        /\ Holding(q) => elems[q] >= 1
  <2> TAKE q \in Producers
  <2>1. q \in Threads
    BY Roles
  <2>2. head[q] \in U32 /\ elems[q] \in Nat
    BY <1>0, <2>1, Numbers
  <2>3. Dist(head[q], prodTail) \in Nat
    <3>1. prodTail \in U32
      BY <1>0 DEF TypeOK
    <3>2. Dist(head[q], prodTail) \in 0 .. (W - 1)
      BY <2>2, <3>1, DistType
    <3> QED
      BY <3>2, SizeAssumption
  <2>4. Holding(q) => elems[q] >= 1
    BY <1>0, <2>1, <2>2, Numbers DEF IInv, Locals, LocalsOK, Reserving, Holding
  <2> QED
    BY <2>2, <2>3, <2>4
<1>3. CASE EnqReserve(p)
  <2> DEFINE k == elems[p]
  <2>1. /\ head[p] = prodHead /\ k \in Nat /\ k >= 1
        /\ Dist(prodHead', prodTail) = Dist(prodHead, prodTail) + k
        /\ UNCHANGED <<prodTail, head, elems>> /\ pc'[p] = "store"
    BY <1>0, <1>3, EnqReserveMoves, Gaps, SizeAssumption
  <2>2. Dist(prodHead, prodTail) \in Nat
    BY <1>0, Gaps
  <2>3. ASSUME NEW q \in Producers, Holding(q)'
        PROVE  (Dist(head[q], prodTail) + elems[q] <= Dist(prodHead, prodTail))'
    BY <1>0, <1>1, <1>2, <2>1, <2>2, <2>3 DEF ProducersApart, Holding
  <2>4. ASSUME NEW q \in Producers, NEW r \in Producers, q # r, Holding(q)', Holding(r)'
        PROVE  (Before(q, r, prodTail) \/ Before(r, q, prodTail))'
    BY <1>0, <1>1, <1>2, <2>1, <2>2, <2>4 DEF ProducersApart, Holding, Before
  <2>5. ASSUME NEW q \in Producers, pc'[q] = "publish" PROVE (head[q] = prodTail)'
    BY <1>0, <1>1, <2>1, <2>5 DEF ProducersApart
  <2> QED
    BY <2>3, <2>4, <2>5 DEF ProducersApart
<1>4. CASE EnqPublish(p)
  <2> DEFINE k == elems[p]
  <2>1. /\ head[p] = prodTail /\ k \in Nat /\ k >= 1 /\ Holding(p)
        /\ Dist(prodHead, prodTail') = Dist(prodHead, prodTail) - k
        /\ \A x \in U32 : k <= Dist(x, prodTail) => Dist(x, prodTail') = Dist(x, prodTail) - k
        /\ UNCHANGED prodHead /\ pc'[p] = "idle"
    BY <1>0, <1>4, EnqPublishMoves, Gaps
  <2>2. Dist(head[p], prodTail) = 0
    BY <1>0, <2>1, DistSelf DEF TypeOK
  <2>3. ASSUME NEW q \in Producers, Holding(q)'
        PROVE  /\ q # p /\ Holding(q)
               /\ Dist(head'[q], prodTail') = Dist(head[q], prodTail) - k
               /\ k <= Dist(head[q], prodTail)
               /\ elems'[q] = elems[q] /\ pc'[q] = pc[q] /\ head'[q] = head[q]
    <3>1. q # p /\ Holding(q)
      BY <1>1, <2>1, <2>3 DEF Holding
    <3>2. Before(p, q, prodTail) \/ Before(q, p, prodTail)
      BY <1>0, <2>1, <3>1 DEF ProducersApart
    <3>3. k <= Dist(head[q], prodTail)
      BY <1>2, <2>1, <2>2, <3>1, <3>2 DEF Before
    <3> QED
      BY <1>1, <1>2, <2>1, <3>1, <3>3
  <2>4. ASSUME NEW q \in Producers, Holding(q)'
        PROVE  (Dist(head[q], prodTail) + elems[q] <= Dist(prodHead, prodTail))'
    <3>1. Dist(head[q], prodTail) + elems[q] <= Dist(prodHead, prodTail)
      BY <1>0, <2>3, <2>4 DEF ProducersApart
    <3> QED
      BY <1>0, <1>2, <2>1, <2>3, <2>4, <3>1, Gaps
  <2>5. ASSUME NEW q \in Producers, NEW r \in Producers, q # r, Holding(q)', Holding(r)'
        PROVE  (Before(q, r, prodTail) \/ Before(r, q, prodTail))'
    <3>1. Before(q, r, prodTail) \/ Before(r, q, prodTail)
      BY <1>0, <2>3, <2>5 DEF ProducersApart
    <3> QED
      BY <1>2, <2>1, <2>3, <2>5, <3>1 DEF Before
  <2>6. ASSUME NEW q \in Producers, pc'[q] = "publish" PROVE (head[q] = prodTail)'
    <3>1. Holding(q)' /\ pc[q] = "publish"
      BY <1>1, <2>1, <2>6 DEF Holding
    <3>2. Dist(head[q], prodTail) = 0
      BY <1>0, <3>1, DistSelf DEF ProducersApart, TypeOK
    <3> QED
      BY <2>1, <2>3, <3>1, <3>2
  <2> QED
    BY <2>4, <2>5, <2>6 DEF ProducersApart
<1>5. CASE ~EnqReserve(p) /\ ~EnqPublish(p)
  <2>1. UNCHANGED <<prodHead, prodTail>>
    BY <1>5 DEF Enqueue, EnqCall, EnqLoadHead, EnqLoadTail, EnqRetry, EnqStore, EnqWait, shared
  <2>2. Holding(p)' => Holding(p) /\ head'[p] = head[p] /\ elems'[p] = elems[p]
    BY <1>0, <1>5, Returned DEF Enqueue, EnqCall, EnqLoadHead, EnqLoadTail, EnqRetry, EnqStore,
       EnqWait, Goto, Holding, TypeOK
  <2>3. pc'[p] = "publish" => head'[p] = prodTail
    <3>1. CASE EnqWait(p)
      BY <3>1 DEF EnqWait
    <3>2. CASE EnqStore(p) /\ MultiProducer
      BY <1>0, <3>2 DEF EnqStore, Goto, TypeOK
    <3>3. CASE EnqStore(p) /\ ~MultiProducer
      BY <1>0, <3>3 DEF EnqStore, SinglesAlone, Holding
    <3>4. CASE ~EnqWait(p) /\ ~EnqStore(p)
      BY <1>0, <1>5, <3>4, Returned DEF Enqueue, EnqCall, EnqLoadHead, EnqLoadTail, EnqRetry,
         Goto, TypeOK
    <3> QED
      BY <3>1, <3>2, <3>3, <3>4
  <2>4. ASSUME NEW q \in Producers, Holding(q)'
        PROVE  Holding(q) /\ head'[q] = head[q] /\ elems'[q] = elems[q]
    BY <1>1, <2>2, <2>4 DEF Holding
  <2>5. ASSUME NEW q \in Producers, Holding(q)'
        PROVE  (Dist(head[q], prodTail) + elems[q] <= Dist(prodHead, prodTail))'
    BY <1>0, <2>1, <2>4, <2>5 DEF ProducersApart
  <2>6. ASSUME NEW q \in Producers, NEW r \in Producers, q # r, Holding(q)', Holding(r)'
        PROVE  (Before(q, r, prodTail) \/ Before(r, q, prodTail))'
    BY <1>0, <2>1, <2>4, <2>6 DEF ProducersApart, Before
  <2>7. ASSUME NEW q \in Producers, pc'[q] = "publish" PROVE (head[q] = prodTail)'
    BY <1>0, <1>1, <2>1, <2>3, <2>7 DEF ProducersApart
  <2> QED
    BY <2>5, <2>6, <2>7 DEF ProducersApart
<1> QED
  BY <1>3, <1>4, <1>5

LEMMA ApartConsumer ==
  ASSUME IInv, TypeOK', NEW c \in Consumers, DeqCall(c) \/ Dequeue(c)
  PROVE  ConsumersApart'
<1>0. TypeOK /\ CountersOrdered /\ ConsumersApart /\ SinglesAlone /\ c \in Threads
  BY Roles DEF IInv
<1>1. \A d \in Consumers : d # c =>
        pc'[d] = pc[d] /\ head'[d] = head[d] /\ elems'[d] = elems[d]
  BY <1>0, ConsumerFrame, Roles DEF OnlyMoves
<1>2. \A d \in Consumers :
        /\ head[d] \in U32 /\ elems[d] \in Nat /\ Dist(head[d], consTail) \in Nat
        /\ Holding(d) => elems[d] >= 1
  <2> TAKE d \in Consumers
  <2>1. d \in Threads
    BY Roles
  <2>2. head[d] \in U32 /\ elems[d] \in Nat
    BY <1>0, <2>1, Numbers
  <2>3. Dist(head[d], consTail) \in Nat
    <3>1. consTail \in U32
      BY <1>0 DEF TypeOK
    <3>2. Dist(head[d], consTail) \in 0 .. (W - 1)
      BY <2>2, <3>1, DistType
    <3> QED
      BY <3>2, SizeAssumption
  <2>4. Holding(d) => elems[d] >= 1
    BY <1>0, <2>1, <2>2, Numbers DEF IInv, Locals, LocalsOK, Reserving, Holding
  <2> QED
    BY <2>2, <2>3, <2>4
<1>3. CASE DeqReserve(c)
  <2> DEFINE k == elems[c]
  <2>1. /\ head[c] = consHead /\ k \in Nat /\ k >= 1
        /\ Dist(consHead', consTail) = Dist(consHead, consTail) + k
        /\ UNCHANGED <<consTail, head, elems>> /\ pc'[c] = "load"
    BY <1>0, <1>3, DeqReserveMoves, Gaps, SizeAssumption
  <2>2. Dist(consHead, consTail) \in Nat
    BY <1>0, Gaps
  <2>3. ASSUME NEW d \in Consumers, Holding(d)'
        PROVE  (Dist(head[d], consTail) + elems[d] <= Dist(consHead, consTail))'
    BY <1>0, <1>1, <1>2, <2>1, <2>2, <2>3 DEF ConsumersApart, Holding
  <2>4. ASSUME NEW d \in Consumers, NEW e \in Consumers, d # e, Holding(d)', Holding(e)'
        PROVE  (Before(d, e, consTail) \/ Before(e, d, consTail))'
    BY <1>0, <1>1, <1>2, <2>1, <2>2, <2>4 DEF ConsumersApart, Holding, Before
  <2>5. ASSUME NEW d \in Consumers, pc'[d] = "publish" PROVE (head[d] = consTail)'
    BY <1>0, <1>1, <2>1, <2>5 DEF ConsumersApart
  <2> QED
    BY <2>3, <2>4, <2>5 DEF ConsumersApart
<1>4. CASE DeqPublish(c)
  <2> DEFINE k == elems[c]
  <2>1. /\ head[c] = consTail /\ k \in Nat /\ k >= 1 /\ Holding(c)
        /\ Dist(consHead, consTail') = Dist(consHead, consTail) - k
        /\ \A x \in U32 : k <= Dist(x, consTail) => Dist(x, consTail') = Dist(x, consTail) - k
        /\ UNCHANGED consHead /\ pc'[c] = "idle"
    BY <1>0, <1>4, DeqPublishMoves, Gaps
  <2>2. Dist(head[c], consTail) = 0
    BY <1>0, <2>1, DistSelf DEF TypeOK
  <2>3. ASSUME NEW d \in Consumers, Holding(d)'
        PROVE  /\ d # c /\ Holding(d)
               /\ Dist(head'[d], consTail') = Dist(head[d], consTail) - k
               /\ k <= Dist(head[d], consTail)
               /\ elems'[d] = elems[d] /\ pc'[d] = pc[d] /\ head'[d] = head[d]
    <3>1. d # c /\ Holding(d)
      BY <1>1, <2>1, <2>3 DEF Holding
    <3>2. Before(c, d, consTail) \/ Before(d, c, consTail)
      BY <1>0, <2>1, <3>1 DEF ConsumersApart
    <3>3. k <= Dist(head[d], consTail)
      BY <1>2, <2>1, <2>2, <3>1, <3>2 DEF Before
    <3> QED
      BY <1>1, <1>2, <2>1, <3>1, <3>3
  <2>4. ASSUME NEW d \in Consumers, Holding(d)'
        PROVE  (Dist(head[d], consTail) + elems[d] <= Dist(consHead, consTail))'
    <3>1. Dist(head[d], consTail) + elems[d] <= Dist(consHead, consTail)
      BY <1>0, <2>3, <2>4 DEF ConsumersApart
    <3> QED
      BY <1>0, <1>2, <2>1, <2>3, <2>4, <3>1, Gaps
  <2>5. ASSUME NEW d \in Consumers, NEW e \in Consumers, d # e, Holding(d)', Holding(e)'
        PROVE  (Before(d, e, consTail) \/ Before(e, d, consTail))'
    <3>1. Before(d, e, consTail) \/ Before(e, d, consTail)
      BY <1>0, <2>3, <2>5 DEF ConsumersApart
    <3> QED
      BY <1>2, <2>1, <2>3, <2>5, <3>1 DEF Before
  <2>6. ASSUME NEW d \in Consumers, pc'[d] = "publish" PROVE (head[d] = consTail)'
    <3>1. Holding(d)' /\ pc[d] = "publish"
      BY <1>1, <2>1, <2>6 DEF Holding
    <3>2. Dist(head[d], consTail) = 0
      BY <1>0, <3>1, DistSelf DEF ConsumersApart, TypeOK
    <3> QED
      BY <2>1, <2>3, <3>1, <3>2
  <2> QED
    BY <2>4, <2>5, <2>6 DEF ConsumersApart
<1>5. CASE ~DeqReserve(c) /\ ~DeqPublish(c)
  <2>1. UNCHANGED <<consHead, consTail>>
    BY <1>5 DEF Dequeue, DeqCall, DeqLoadHead, DeqLoadTail, DeqRetry, DeqLoad, DeqWait, shared
  <2>2. Holding(c)' => Holding(c) /\ head'[c] = head[c] /\ elems'[c] = elems[c]
    BY <1>0, <1>5, Returned DEF Dequeue, DeqCall, DeqLoadHead, DeqLoadTail, DeqRetry, DeqLoad,
       DeqWait, Goto, Holding, TypeOK
  <2>3. pc'[c] = "publish" => head'[c] = consTail
    <3>1. CASE DeqWait(c)
      BY <3>1 DEF DeqWait
    <3>2. CASE DeqLoad(c) /\ MultiConsumer
      BY <1>0, <3>2 DEF DeqLoad, Goto, TypeOK
    <3>3. CASE DeqLoad(c) /\ ~MultiConsumer
      BY <1>0, <3>3 DEF DeqLoad, SinglesAlone, Holding
    <3>4. CASE ~DeqWait(c) /\ ~DeqLoad(c)
      BY <1>0, <1>5, <3>4, Returned DEF Dequeue, DeqCall, DeqLoadHead, DeqLoadTail, DeqRetry,
         Goto, TypeOK
    <3> QED
      BY <3>1, <3>2, <3>3, <3>4
  <2>4. ASSUME NEW d \in Consumers, Holding(d)'
        PROVE  Holding(d) /\ head'[d] = head[d] /\ elems'[d] = elems[d]
    BY <1>1, <2>2, <2>4 DEF Holding
  <2>5. ASSUME NEW d \in Consumers, Holding(d)'
        PROVE  (Dist(head[d], consTail) + elems[d] <= Dist(consHead, consTail))'
    BY <1>0, <2>1, <2>4, <2>5 DEF ConsumersApart
  <2>6. ASSUME NEW d \in Consumers, NEW e \in Consumers, d # e, Holding(d)', Holding(e)'
        PROVE  (Before(d, e, consTail) \/ Before(e, d, consTail))'
    BY <1>0, <2>1, <2>4, <2>6 DEF ConsumersApart, Before
  <2>7. ASSUME NEW d \in Consumers, pc'[d] = "publish" PROVE (head[d] = consTail)'
    BY <1>0, <1>1, <2>1, <2>3, <2>7 DEF ConsumersApart
  <2> QED
    BY <2>5, <2>6, <2>7 DEF ConsumersApart
<1> QED
  BY <1>3, <1>4, <1>5

LEMMA ApartStep == ASSUME IInv, [Next]_vars PROVE ProducersApart' /\ ConsumersApart'
<1>1. TypeOK'
  BY TypeStep DEF IInv
<1>2. ASSUME NEW p \in Producers, EnqCall(p) \/ Enqueue(p)
      PROVE  ConsumersApart'
  <2>1. UNCHANGED <<consHead, consTail>>
    BY <1>2 DEF Enqueue, EnqCall, EnqLoadHead, EnqLoadTail, EnqReserve, EnqRetry, EnqStore, EnqWait,
           EnqPublish, shared
  <2>2. \A c \in Consumers : pc'[c] = pc[c] /\ head'[c] = head[c] /\ elems'[c] = elems[c]
    BY <1>2, ProducerFrame, Roles DEF OnlyMoves, IInv
  <2> QED
    BY <2>1, <2>2 DEF IInv, ConsumersApart, Holding, Before
<1>3. ASSUME NEW c \in Consumers, DeqCall(c) \/ Dequeue(c)
      PROVE  ProducersApart'
  <2>1. UNCHANGED <<prodHead, prodTail>>
    BY <1>3 DEF Dequeue, DeqCall, DeqLoadHead, DeqLoadTail, DeqReserve, DeqRetry, DeqLoad, DeqWait,
           DeqPublish, shared
  <2>2. \A p \in Producers : pc'[p] = pc[p] /\ head'[p] = head[p] /\ elems'[p] = elems[p]
    BY <1>3, ConsumerFrame, Roles DEF OnlyMoves, IInv
  <2> QED
    BY <2>1, <2>2 DEF IInv, ProducersApart, Holding, Before
<1>4. ASSUME NEW o \in Observers, ObsCall(o) \/ Observe(o)
      PROVE  ProducersApart' /\ ConsumersApart'
  <2>1. UNCHANGED <<prodHead, prodTail, consHead, consTail>>
    BY <1>4, ObserverFrame DEF IInv, shared
  <2>2. \A t \in Producers \cup Consumers :
          pc'[t] = pc[t] /\ head'[t] = head[t] /\ elems'[t] = elems[t]
    BY <1>4, ObserverFrame, Roles DEF OnlyMoves, IInv
  <2> QED
    BY <2>1, <2>2 DEF IInv, ProducersApart, ConsumersApart, Holding, Before
<1>5. CASE UNCHANGED vars
  BY <1>5 DEF vars, IInv, ProducersApart, ConsumersApart, Holding, Before
<1> QED
  BY <1>1, <1>2, <1>3, <1>4, <1>5, ApartProducer, ApartConsumer DEF Next

-----------------------------------------------------------------------------
(* The single-caller variants *)

LEMMA SinglesProducer ==
  ASSUME IInv, TypeOK', NEW p \in Producers, EnqCall(p) \/ Enqueue(p), ~MultiProducer
  PROVE  /\ pc'[p] \in {"ldtail", "cas"} => head'[p] = prodHead'
         /\ Holding(p)'  => head'[p] = prodTail' /\ Dist(prodHead', prodTail') = elems'[p]
         /\ ~Holding(p)' => prodTail' = prodHead'
<1>0. TypeOK /\ CountersOrdered /\ p \in Threads
  BY Roles DEF IInv
<1>1. /\ pc[p] \in {"ldtail", "cas"} => head[p] = prodHead
      /\ Holding(p)  => head[p] = prodTail /\ Dist(prodHead, prodTail) = elems[p]
      /\ ~Holding(p) => prodTail = prodHead
  BY DEF IInv, SinglesAlone
<1>2. CASE EnqReserve(p)
  <2>1. prodTail = prodHead /\ Dist(prodHead, prodTail) = 0
    BY <1>0, <1>1, <1>2, DistSelf DEF EnqReserve, Holding, TypeOK
  <2> QED
    BY <1>0, <1>2, <2>1, EnqReserveMoves, Gaps, SizeAssumption DEF Holding
<1>3. CASE EnqPublish(p)
  <2>1. Dist(prodHead, prodTail') = 0 /\ prodTail' \in U32 /\ UNCHANGED prodHead /\ pc'[p] = "idle"
    BY <1>0, <1>1, <1>3, EnqPublishMoves, Gaps, SizeAssumption
  <2>2. prodHead = prodTail'
    BY <1>0, <2>1, DistZero DEF TypeOK
  <2> QED
    BY <2>1, <2>2 DEF Holding
<1>4. CASE ~EnqReserve(p) /\ ~EnqPublish(p)
  <2>1. UNCHANGED <<prodHead, prodTail>>
    BY <1>4 DEF Enqueue, EnqCall, EnqLoadHead, EnqLoadTail, EnqRetry, EnqStore, EnqWait, shared
  <2>2. /\ Holding(p)' <=> Holding(p)
        /\ Holding(p)' => head'[p] = head[p] /\ elems'[p] = elems[p]
    BY <1>0, <1>4, Returned DEF Enqueue, EnqCall, EnqLoadHead, EnqLoadTail, EnqRetry, EnqStore,
       EnqWait, Goto, Holding, TypeOK
  <2>3. pc'[p] \in {"ldtail", "cas"} =>
          head'[p] = prodHead \/ (head'[p] = head[p] /\ pc[p] \in {"ldtail", "cas"})
    BY <1>0, <1>4, Returned DEF Enqueue, EnqCall, EnqLoadHead, EnqLoadTail, EnqRetry, EnqStore,
       EnqWait, Goto, TypeOK
  <2> QED
    BY <1>1, <2>1, <2>2, <2>3
<1> QED
  BY <1>2, <1>3, <1>4

LEMMA SinglesConsumer ==
  ASSUME IInv, TypeOK', NEW c \in Consumers, DeqCall(c) \/ Dequeue(c), ~MultiConsumer
  PROVE  /\ pc'[c] \in {"ldtail", "cas"} => head'[c] = consHead'
         /\ Holding(c)'  => head'[c] = consTail' /\ Dist(consHead', consTail') = elems'[c]
         /\ ~Holding(c)' => consTail' = consHead'
<1>0. TypeOK /\ CountersOrdered /\ c \in Threads
  BY Roles DEF IInv
<1>1. /\ pc[c] \in {"ldtail", "cas"} => head[c] = consHead
      /\ Holding(c)  => head[c] = consTail /\ Dist(consHead, consTail) = elems[c]
      /\ ~Holding(c) => consTail = consHead
  BY DEF IInv, SinglesAlone
<1>2. CASE DeqReserve(c)
  <2>1. consTail = consHead /\ Dist(consHead, consTail) = 0
    BY <1>0, <1>1, <1>2, DistSelf DEF DeqReserve, Holding, TypeOK
  <2>2. elems[c] \in Nat /\ elems[c] <= Size
    BY <1>0, <1>2, DeqReserveMoves, Gaps, SizeAssumption
  <2> QED
    BY <1>0, <1>2, <2>1, <2>2, DeqReserveMoves, Gaps, SizeAssumption DEF Holding
<1>3. CASE DeqPublish(c)
  <2>1. Dist(consHead, consTail') = 0 /\ consTail' \in U32 /\ UNCHANGED consHead /\ pc'[c] = "idle"
    BY <1>0, <1>1, <1>3, DeqPublishMoves, Gaps, SizeAssumption
  <2>2. consHead = consTail'
    BY <1>0, <2>1, DistZero DEF TypeOK
  <2> QED
    BY <2>1, <2>2 DEF Holding
<1>4. CASE ~DeqReserve(c) /\ ~DeqPublish(c)
  <2>1. UNCHANGED <<consHead, consTail>>
    BY <1>4 DEF Dequeue, DeqCall, DeqLoadHead, DeqLoadTail, DeqRetry, DeqLoad, DeqWait, shared
  <2>2. /\ Holding(c)' <=> Holding(c)
        /\ Holding(c)' => head'[c] = head[c] /\ elems'[c] = elems[c]
    BY <1>0, <1>4, Returned DEF Dequeue, DeqCall, DeqLoadHead, DeqLoadTail, DeqRetry, DeqLoad,
       DeqWait, Goto, Holding, TypeOK
  <2>3. pc'[c] \in {"ldtail", "cas"} =>
          head'[c] = consHead \/ (head'[c] = head[c] /\ pc[c] \in {"ldtail", "cas"})
    BY <1>0, <1>4, Returned DEF Dequeue, DeqCall, DeqLoadHead, DeqLoadTail, DeqRetry, DeqLoad,
       DeqWait, Goto, TypeOK
  <2> QED
    BY <1>1, <2>1, <2>2, <2>3
<1> QED
  BY <1>2, <1>3, <1>4

LEMMA SinglesStep == ASSUME IInv, [Next]_vars PROVE SinglesAlone'
<1>0. TypeOK'
  BY TypeStep DEF IInv
<1>1. ASSUME NEW p \in Producers, EnqCall(p) \/ Enqueue(p) PROVE SinglesAlone'
  <2>1. UNCHANGED <<consHead, consTail>>
    BY <1>1 DEF Enqueue, EnqCall, EnqLoadHead, EnqLoadTail, EnqReserve, EnqRetry, EnqStore,
                EnqWait, EnqPublish, shared
  <2>2. \A c \in Consumers : pc'[c] = pc[c] /\ head'[c] = head[c] /\ elems'[c] = elems[c]
    BY <1>1, ProducerFrame, Roles DEF OnlyMoves, IInv
  <2>3. ~MultiProducer => \A q \in Producers : q = p
    BY ThreadAssumption
  <2> QED
    BY <1>0, <1>1, <2>1, <2>2, <2>3, SinglesProducer DEF IInv, SinglesAlone, Holding
<1>2. ASSUME NEW c \in Consumers, DeqCall(c) \/ Dequeue(c) PROVE SinglesAlone'
  <2>1. UNCHANGED <<prodHead, prodTail>>
    BY <1>2 DEF Dequeue, DeqCall, DeqLoadHead, DeqLoadTail, DeqReserve, DeqRetry, DeqLoad,
                DeqWait, DeqPublish, shared
  <2>2. \A p \in Producers : pc'[p] = pc[p] /\ head'[p] = head[p] /\ elems'[p] = elems[p]
    BY <1>2, ConsumerFrame, Roles DEF OnlyMoves, IInv
  <2>3. ~MultiConsumer => \A d \in Consumers : d = c
    BY ThreadAssumption
  <2> QED
    BY <1>0, <1>2, <2>1, <2>2, <2>3, SinglesConsumer DEF IInv, SinglesAlone, Holding
<1>3. ASSUME NEW o \in Observers, ObsCall(o) \/ Observe(o) PROVE SinglesAlone'
  <2>1. UNCHANGED <<prodHead, prodTail, consHead, consTail>>
    BY <1>3, ObserverFrame DEF IInv, shared
  <2>2. \A t \in Producers \cup Consumers :
          pc'[t] = pc[t] /\ head'[t] = head[t] /\ elems'[t] = elems[t]
    BY <1>3, ObserverFrame, Roles DEF OnlyMoves, IInv
  <2> QED
    BY <2>1, <2>2 DEF IInv, SinglesAlone, Holding
<1>4. CASE UNCHANGED vars
  BY <1>4 DEF vars, IInv, SinglesAlone, Holding
<1> QED
  BY <1>1, <1>2, <1>3, <1>4 DEF Next

-----------------------------------------------------------------------------
(* Slots of different CPUs *)

(* Where the reservation of t lies, counted from consumer.tail.              *)
LEMMA Placed ==
  ASSUME IInv, NEW t \in Threads, Holding(t)
  PROVE  /\ head[t] \in U32 /\ elems[t] \in Nat
         /\ Dist(head[t], consTail) \in Nat
         /\ Dist(head[t], consTail) + elems[t] <= Size
         /\ t \in Producers =>
              /\ Dist(head[t], prodTail) \in Nat
              /\ Dist(head[t], consTail) = Dist(head[t], prodTail) + Dist(prodTail, consTail)
         /\ t \in Consumers => Dist(head[t], consTail) + elems[t] <= Dist(consHead, consTail)
<1>0. TypeOK /\ CountersOrdered /\ head[t] \in U32 /\ elems[t] \in Nat
      /\ prodTail \in U32 /\ consTail \in U32
  BY Numbers DEF IInv, TypeOK
<1>1. Dist(head[t], consTail) \in Nat /\ Dist(head[t], prodTail) \in Nat
  BY <1>0, DistType, SizeAssumption
<1>2. t \in Producers \/ t \in Consumers
  BY DEF IInv, Locals, ObserverOK, Holding, Threads
<1>3. ASSUME t \in Producers
      PROVE  /\ Dist(head[t], consTail) = Dist(head[t], prodTail) + Dist(prodTail, consTail)
             /\ Dist(head[t], consTail) + elems[t] <= Size
  <2>1. Dist(head[t], prodTail) + elems[t] <= Dist(prodHead, prodTail)
    BY <1>3 DEF IInv, ProducersApart
  <2>2. Dist(head[t], prodTail) + Dist(prodTail, consTail) < W
    BY <1>0, <1>1, <2>1, Gaps, SizeAssumption
  <2>3. Dist(head[t], consTail) = Dist(head[t], prodTail) + Dist(prodTail, consTail)
    BY <1>0, <2>2, DistAdd
  <2> QED
    BY <1>0, <1>1, <2>1, <2>3, Gaps, SizeAssumption
<1>4. ASSUME t \in Consumers
      PROVE  /\ Dist(head[t], consTail) + elems[t] <= Dist(consHead, consTail)
             /\ Dist(head[t], consTail) + elems[t] <= Size
  <2>1. Dist(head[t], consTail) + elems[t] <= Dist(consHead, consTail)
    BY <1>4 DEF IInv, ConsumersApart
  <2> QED
    BY <1>0, <1>1, <2>1, Gaps, SizeAssumption
<1> QED
  BY <1>0, <1>1, <1>2, <1>3, <1>4

(* Offsets from consumer.tail that differ name slots that differ.            *)
LEMMA SlotsDiffer ==
  ASSUME TypeOK, NEW a \in U32, NEW b \in U32, NEW j \in Nat, NEW k \in Nat,
         Dist(a, consTail) + j < Size, Dist(b, consTail) + k < Size,
         Slot(a + j) = Slot(b + k)
  PROVE  Dist(a, consTail) + j = Dist(b, consTail) + k
<1> DEFINE x == consTail + (Dist(a, consTail) + j)
           y == consTail + (Dist(b, consTail) + k)
<1>1. consTail \in U32 /\ consTail \in Int
  BY SizeAssumption DEF TypeOK, U32
<1>2. Dist(a, consTail) \in Nat /\ Dist(b, consTail) \in Nat
  BY <1>1, DistType, SizeAssumption
<1>3. Slot(x) = Slot(y)
  BY <1>1, SlotFrom
<1>4. x \in Int /\ y \in Int /\ x - y < Size /\ y - x < Size
  BY <1>1, <1>2, SizeAssumption
<1>5. x = y
  BY <1>3, <1>4, SlotInjective
<1> QED
  BY <1>1, <1>2, <1>5

(* Two reservations have no slot in common.                                  *)
LEMMA ReservedApart ==
  ASSUME IInv, NEW t \in Threads, NEW u \in Threads, t # u, Holding(t), Holding(u),
         NEW j \in 0 .. (elems[t] - 1), NEW k \in 0 .. (elems[u] - 1)
  PROVE  Slot(head[t] + j) # Slot(head[u] + k)
<1> SUFFICES ASSUME Slot(head[t] + j) = Slot(head[u] + k) PROVE FALSE
  OBVIOUS
<1>0. TypeOK /\ CountersOrdered
  BY DEF IInv
<1>1. /\ head[t] \in U32 /\ elems[t] \in Nat /\ Dist(head[t], consTail) \in Nat
      /\ Dist(head[t], consTail) + elems[t] <= Size
  BY Placed
<1>2. /\ head[u] \in U32 /\ elems[u] \in Nat /\ Dist(head[u], consTail) \in Nat
      /\ Dist(head[u], consTail) + elems[u] <= Size
  BY Placed
<1>3. j \in Nat /\ k \in Nat /\ j < elems[t] /\ k < elems[u]
  BY <1>1, <1>2
<1>4. Dist(head[t], consTail) + j < Size /\ Dist(head[u], consTail) + k < Size
  BY <1>1, <1>2, <1>3, SizeAssumption
<1>5. Dist(head[t], consTail) + j = Dist(head[u], consTail) + k
  BY <1>0, <1>1, <1>2, <1>3, <1>4, SlotsDiffer
<1>6. (t \in Producers \/ t \in Consumers) /\ (u \in Producers \/ u \in Consumers)
  BY DEF IInv, Locals, ObserverOK, Holding, Threads
<1>7. ASSUME NEW v \in Threads, Holding(v), v \in Producers
      PROVE  Dist(consHead, consTail) <= Dist(head[v], consTail)
  BY <1>0, <1>7, Placed, Gaps, SizeAssumption
<1>8. ASSUME t \in Producers, u \in Producers PROVE FALSE
  <2>1. Before(t, u, prodTail) \/ Before(u, t, prodTail)
    BY <1>8 DEF IInv, ProducersApart
  <2>2. /\ Dist(head[t], consTail) = Dist(head[t], prodTail) + Dist(prodTail, consTail)
        /\ Dist(head[u], consTail) = Dist(head[u], prodTail) + Dist(prodTail, consTail)
        /\ Dist(head[t], prodTail) \in Nat /\ Dist(head[u], prodTail) \in Nat
        /\ Dist(prodTail, consTail) \in Nat
    BY <1>0, <1>8, Placed, Gaps
  <2> QED
    BY <1>1, <1>2, <1>3, <1>5, <2>1, <2>2 DEF Before
<1>9. ASSUME t \in Consumers, u \in Consumers PROVE FALSE
  <2>1. Before(t, u, consTail) \/ Before(u, t, consTail)
    BY <1>9 DEF IInv, ConsumersApart
  <2> QED
    BY <1>1, <1>2, <1>3, <1>5, <2>1 DEF Before
<1>10. Dist(consHead, consTail) \in Nat
  BY <1>0, Gaps
<1>11. ASSUME t \in Producers, u \in Consumers PROVE FALSE
  BY <1>1, <1>2, <1>3, <1>5, <1>7, <1>10, <1>11, Placed
<1>12. ASSUME t \in Consumers, u \in Producers PROVE FALSE
  BY <1>1, <1>2, <1>3, <1>5, <1>7, <1>10, <1>12, Placed
<1> QED
  BY <1>6, <1>8, <1>9, <1>11, <1>12

-----------------------------------------------------------------------------
(* What has been stored stays *)

LEMMA StoredStep == ASSUME IInv, [Next]_vars PROVE StoredSoFar'
<1>0. TypeOK /\ StoredSoFar /\ TypeOK'
  BY TypeStep DEF IInv
<1>1. ASSUME NEW p \in Producers, EnqStore(p) PROVE StoredSoFar'
  <2>0. p \in Threads /\ Holding(p) /\ OnlyMoves(p)
    BY <1>0, <1>1, ProducerFrame, Roles DEF Enqueue, EnqStore, Holding
  <2>1. /\ idx[p] \in Nat /\ elems[p] \in Nat /\ idx[p] < elems[p]
        /\ Slot(head[p] + idx[p]) \in 0 .. (Size - 1)
    BY <1>0, <1>1, <2>0, Numbers DEF IInv, Locals, LocalsOK, EnqStore
  <2>2. /\ ring' = [ring EXCEPT ![Slot(head[p] + idx[p])] = ptr[p][idx[p] + 1]]
        /\ idx'[p] = idx[p] + 1 /\ head'[p] = head[p] /\ ptr'[p] = ptr[p]
    BY <1>0, <1>1, <2>0 DEF EnqStore, TypeOK
  <2>3. ring' [Slot(head[p] + idx[p])] = ptr[p][idx[p] + 1]
    BY <1>0, <2>1, <2>2 DEF TypeOK
  <2>4. \A s \in 0 .. (Size - 1) : s # Slot(head[p] + idx[p]) => ring'[s] = ring[s]
    BY <1>0, <2>2 DEF TypeOK
  <2>5. ASSUME NEW q \in Producers, Holding(q)', NEW k \in 0 .. (idx'[q] - 1)
        PROVE  ring'[Slot(head'[q] + k)] = ptr'[q][k + 1]
    <3>1. CASE q = p /\ k = idx[p]
      BY <2>2, <2>3, <3>1
    <3>2. CASE q = p /\ k # idx[p]
      <4>1. k \in 0 .. (idx[p] - 1)
        BY <2>1, <2>2, <2>5, <3>2
      <4>2. ring[Slot(head[p] + k)] = ptr[p][k + 1]
        BY <1>0, <2>0, <4>1 DEF StoredSoFar
      <4>3. Slot(head[p] + k) # Slot(head[p] + idx[p])
        <5>1. head[p] \in U32 /\ head[p] \in Int /\ elems[p] <= Size
          <6>1. Dist(head[p], consTail) \in Nat /\ Dist(head[p], consTail) + elems[p] <= Size
            BY <2>0, Placed
          <6> QED
            BY <1>0, <2>0, <2>1, <6>1, Numbers, SizeAssumption
        <5> QED
          BY <2>1, <4>1, <5>1, SlotInjective, SizeAssumption
      <4>4. Slot(head[p] + k) \in 0 .. (Size - 1)
        BY <1>0, <2>0, <4>1, Numbers, SlotRange
      <4> QED
        BY <2>2, <2>4, <3>2, <4>2, <4>3, <4>4
    <3>3. CASE q # p
      <4>1. /\ q \in Threads /\ Holding(q) /\ head'[q] = head[q] /\ idx'[q] = idx[q]
            /\ ptr'[q] = ptr[q]
        BY <2>0, <2>5, <3>3, Roles DEF OnlyMoves, Holding
      <4>2. ring[Slot(head[q] + k)] = ptr[q][k + 1]
        BY <1>0, <2>5, <4>1 DEF StoredSoFar
      <4>3. idx[q] <= elems[q] /\ idx[q] \in Nat /\ elems[q] \in Nat /\ head[q] \in Int
        BY <1>0, <4>1, Numbers DEF IInv, Locals, LocalsOK, Holding
      <4>4. k \in 0 .. (elems[q] - 1) /\ idx[p] \in 0 .. (elems[p] - 1)
        BY <2>1, <2>5, <4>1, <4>3
      <4>5. Slot(head[q] + k) # Slot(head[p] + idx[p])
        BY <2>0, <3>3, <4>1, <4>4, ReservedApart
      <4>6. Slot(head[q] + k) \in 0 .. (Size - 1)
        BY <4>3, <4>4, SlotRange
      <4> QED
        BY <2>4, <4>1, <4>2, <4>5, <4>6
    <3> QED
      BY <3>1, <3>2, <3>3
  <2> QED
    BY <2>5 DEF StoredSoFar
<1>2. ASSUME NEW p \in Producers, EnqCall(p) \/ Enqueue(p), ~EnqStore(p) PROVE StoredSoFar'
  <2>0. p \in Threads /\ OnlyMoves(p)
    BY <1>0, <1>2, ProducerFrame, Roles
  <2>1. UNCHANGED ring
    BY <1>2 DEF Enqueue, EnqCall, EnqLoadHead, EnqLoadTail, EnqReserve, EnqRetry, EnqWait,
                EnqPublish, shared
  <2>2. Holding(p)' => \/ Holding(p) /\ head'[p] = head[p] /\ idx'[p] = idx[p] /\ ptr'[p] = ptr[p]
                       \/ idx'[p] = 0
    <3>1. CASE EnqReserve(p)
      BY <3>1, EnqReserveMoves
    <3>2. CASE ~EnqReserve(p)
      BY <1>0, <1>2, <2>0, <3>2, Returned DEF Enqueue, EnqCall, EnqLoadHead, EnqLoadTail,
         EnqRetry, EnqWait, EnqPublish, Goto, Holding, TypeOK
    <3> QED
      BY <3>1, <3>2
  <2>3. \A q \in Producers : q # p =>
          pc'[q] = pc[q] /\ head'[q] = head[q] /\ idx'[q] = idx[q] /\ ptr'[q] = ptr[q]
    BY <2>0, Roles DEF OnlyMoves
  <2>4. ASSUME NEW q \in Producers, Holding(q)', NEW k \in 0 .. (idx'[q] - 1)
        PROVE  ring'[Slot(head'[q] + k)] = ptr'[q][k + 1]
    <3>1. Holding(q) /\ head'[q] = head[q] /\ idx'[q] = idx[q] /\ ptr'[q] = ptr[q]
      BY <2>2, <2>3, <2>4 DEF Holding
    <3> QED
      BY <1>0, <2>1, <2>4, <3>1 DEF StoredSoFar
  <2> QED
    BY <2>4 DEF StoredSoFar
<1>3. ASSUME NEW t \in Consumers \cup Observers, OnlyMoves(t), UNCHANGED ring PROVE StoredSoFar'
  <2>1. \A q \in Producers :
          pc'[q] = pc[q] /\ head'[q] = head[q] /\ idx'[q] = idx[q] /\ ptr'[q] = ptr[q]
    BY <1>3, Roles DEF OnlyMoves
  <2> QED
    BY <1>0, <1>3, <2>1 DEF StoredSoFar, Holding
<1>4. ASSUME NEW c \in Consumers, DeqCall(c) \/ Dequeue(c) PROVE StoredSoFar'
  <2>1. UNCHANGED ring
    BY <1>4 DEF Dequeue, DeqCall, DeqLoadHead, DeqLoadTail, DeqReserve, DeqRetry, DeqLoad,
                DeqWait, DeqPublish, shared
  <2> QED
    BY <1>0, <1>3, <1>4, <2>1, ConsumerFrame
<1>5. ASSUME NEW o \in Observers, ObsCall(o) \/ Observe(o) PROVE StoredSoFar'
  BY <1>0, <1>3, <1>5, ObserverFrame DEF shared
<1>6. CASE UNCHANGED vars
  BY <1>0, <1>6 DEF vars, StoredSoFar, Holding
<1> QED
  BY <1>1, <1>2, <1>4, <1>5, <1>6 DEF Next

-----------------------------------------------------------------------------
(* The invariant *)

LEMMA InitIInv == ASSUME Init PROVE IInv
<1>1. TypeOK /\ Locals
  BY InitType, InitLocals
<1>2. /\ prodHead = 0 /\ prodTail = 0 /\ consHead = 0 /\ consTail = 0 /\ 0 \in U32
      /\ \A t \in Threads : pc[t] = "idle"
  BY Zeros DEF Init, InitAt
<1>3. Dist(0, 0) = 0
  BY <1>2, DistSelf
<1>4. CountersOrdered
  BY <1>2, <1>3, SizeAssumption DEF CountersOrdered
<1> QED
  BY <1>1, <1>2, <1>4, Roles DEF IInv, SnapshotsFresh, InFlight, ReservationsFit,
     ProducersApart, ConsumersApart, SinglesAlone, StoredSoFar, Holding

LEMMA IInvStep == ASSUME IInv, [Next]_vars PROVE IInv'
BY TypeStep, LocalsStep, CountersStep, SnapshotsStep, FitStep, ApartStep, SinglesStep,
   StoredStep DEF IInv

LEMMA IInvAlways == Spec => []IInv
<1>1. Init => IInv
  BY InitIInv
<1>2. IInv /\ [Next]_vars => IInv'
  BY IInvStep
<1> QED
  BY <1>1, <1>2, PTL DEF Spec

-----------------------------------------------------------------------------
(* What follows *)

(* Through every wrap of the u32 counters, consumer.tail, consumer.head,     *)
(* producer.tail and producer.head stay in this order and within Size.       *)
THEOREM CountersStayOrdered == Spec => []CountersOrdered
<1>1. IInv => CountersOrdered
  BY DEF IInv
<1> QED
  BY <1>1, IInvAlways, PTL

(* No slot is ever stored or loaded by two CPUs at once.                     *)
THEOREM NoSlotShared == Spec => []SlotsExclusive
<1>1. IInv => SlotsExclusive
  <2> SUFFICES ASSUME IInv, NEW t \in Threads, NEW u \in Threads, t # u, Holding(t), Holding(u),
                      NEW s \in Slots(t), s \in Slots(u)
               PROVE  FALSE
    BY DEF SlotsExclusive
  <2>1. PICK j \in 0 .. (elems[t] - 1) : s = Slot(head[t] + j)
    BY DEF Slots
  <2>2. PICK k \in 0 .. (elems[u] - 1) : s = Slot(head[u] + k)
    BY DEF Slots
  <2> QED
    BY <2>1, <2>2, ReservedApart
<1> QED
  BY <1>1, IInvAlways, PTL

(* An enqueue that returns 0 was right: there was no room at its last load.  *)
THEOREM RefusalsHonest == Spec => RefusedOnlyIfFull
<1>1. IInv /\ [Next]_vars =>
        \A p \in Producers : pc[p] = "ldtail" /\ pc'[p] = "idle"
            => n[p] > Size - Dist(prodHead, consTail)
  <2> SUFFICES ASSUME IInv, [Next]_vars, NEW p \in Producers, pc[p] = "ldtail", pc'[p] = "idle"
               PROVE  n[p] > Size - Dist(prodHead, consTail)
    OBVIOUS
  <2>0. TypeOK /\ CountersOrdered /\ SnapshotsFresh /\ p \in Threads
    BY Roles DEF IInv
  <2>1. EnqLoadTail(p)
    <3>1. ASSUME NEW t \in Threads, OnlyMoves(t) PROVE t = p
      BY <2>0, <3>1 DEF OnlyMoves
    <3>2. ~UNCHANGED vars
      BY DEF vars
    <3>3. EnqCall(p) \/ Enqueue(p)
      BY <2>0, <3>1, <3>2, ProducerFrame, ConsumerFrame, ObserverFrame, Roles DEF Next
    <3> QED
      BY <3>3 DEF Enqueue, EnqCall, EnqLoadHead, EnqReserve, EnqRetry, EnqStore, EnqWait, EnqPublish
  <2>2. n[p] > Space(p)
    BY <2>0, <2>1 DEF EnqLoadTail, Goto, TypeOK
  <2>3. Space(p) = Size - Dist(prodHead, consTail) + Dist(prodHead, head[p])
    <3>1. head[p] \in U32 /\ prodHead \in U32 /\ consTail \in U32
      BY <2>0 DEF TypeOK
    <3>2. Dist(prodHead, consTail) <= Size /\ Dist(prodHead, head[p]) + Size < W
      BY <2>0 DEF CountersOrdered, SnapshotsFresh, InFlight
    <3> QED
      BY <3>1, <3>2, SpaceIs DEF Space
  <2>4. Dist(prodHead, head[p]) \in Nat /\ Dist(prodHead, consTail) \in Nat /\ n[p] \in Nat
    BY <2>0, DistType, Numbers, Gaps, SizeAssumption DEF TypeOK
  <2> QED
    BY <2>2, <2>3, <2>4, SizeAssumption
<1> QED
  BY <1>1, IInvAlways, PTL DEF Spec, RefusedOnlyIfFull

(* A dequeue that returns 0 was right: nothing was published and untaken at  *)
(* its last load.                                                            *)
THEOREM ZeroesHonest == Spec => ZeroOnlyIfEmpty
<1>1. IInv /\ [Next]_vars =>
        \A c \in Consumers : pc[c] = "ldtail" /\ pc'[c] = "idle" => prodTail = consHead
  <2> SUFFICES ASSUME IInv, [Next]_vars, NEW c \in Consumers, pc[c] = "ldtail", pc'[c] = "idle"
               PROVE  prodTail = consHead
    OBVIOUS
  <2>0. TypeOK /\ CountersOrdered /\ SnapshotsFresh /\ c \in Threads
    BY Roles DEF IInv
  <2>1. DeqLoadTail(c)
    <3>1. ASSUME NEW t \in Threads, OnlyMoves(t) PROVE t = c
      BY <2>0, <3>1 DEF OnlyMoves
    <3>2. ~UNCHANGED vars
      BY DEF vars
    <3>3. DeqCall(c) \/ Dequeue(c)
      BY <2>0, <3>1, <3>2, ProducerFrame, ConsumerFrame, ObserverFrame, Roles DEF Next
    <3> QED
      BY <3>3 DEF Dequeue, DeqCall, DeqLoadHead, DeqReserve, DeqRetry, DeqLoad, DeqWait, DeqPublish
  <2>2. Dist(prodTail, head[c]) = 0
    BY <2>0, <2>1 DEF DeqLoadTail, Goto, TypeOK, Avail
  <2>3. /\ head[c] \in U32 /\ prodTail \in U32 /\ consHead \in U32 /\ prodHead \in U32
        /\ head[c] = prodTail
    BY <2>0, <2>2, DistZero DEF TypeOK
  <2>4. /\ Dist(prodHead, head[c]) = Dist(prodHead, consHead) + Dist(consHead, head[c])
        /\ Dist(prodHead, consHead) = Dist(prodHead, prodTail) + Dist(prodTail, consHead)
        /\ Dist(prodTail, consHead) \in Nat /\ Dist(prodHead, prodTail) \in Nat
        /\ Dist(consHead, head[c]) \in Nat
    BY <2>0, <2>3, Gaps, DistType, SizeAssumption DEF SnapshotsFresh, InFlight
  <2>5. Dist(prodTail, consHead) = 0
    BY <2>3, <2>4
  <2> QED
    BY <2>3, <2>5, DistZero
<1> QED
  BY <1>1, IInvAlways, PTL DEF Spec, ZeroOnlyIfEmpty

(* A step in which an observer's call ends is that call's second load.       *)
LEMMA ObserverReturns ==
  ASSUME IInv, [Next]_vars, NEW o \in Observers, pc[o] # "idle", pc'[o] = "idle"
  PROVE  Observe(o)
<1>0. TypeOK /\ o \in Threads
  BY Roles DEF IInv
<1>1. ASSUME NEW t \in Threads, OnlyMoves(t) PROVE t = o
  BY <1>0, <1>1 DEF OnlyMoves
<1>2. ~UNCHANGED vars
  BY DEF vars
<1>3. ObsCall(o) \/ Observe(o)
  BY <1>0, <1>1, <1>2, ProducerFrame, ConsumerFrame, ObserverFrame, Roles DEF Next
<1> QED
  BY <1>3 DEF ObsCall

(* What that load finds, for the three questions an observer can ask.        *)
LEMMA ObserverSees ==
  ASSUME IInv, NEW o \in Observers, Observe(o)
  PROVE  /\ pc[o] = "empty" => seen'[o].val = IF prodTail = head[o] THEN 1 ELSE 0
         /\ pc[o] = "count" => seen'[o].val = Avail(o)
         /\ pc[o] = "space" => seen'[o].val = Space(o)
<1>1. seen \in [Observers -> [op : {"none", "empty", "count", "space"}, val : U32]]
  BY DEF IInv, TypeOK
<1>2. ASSUME NEW val, ObsReturn(o, val) PROVE seen'[o].val = val
  <2>1. seen'[o] = [op |-> pc[o], val |-> val]
    BY <1>1, <1>2 DEF ObsReturn
  <2> QED
    BY <2>1
<1>3. CASE ObsEmpty(o)
  BY <1>2, <1>3 DEF ObsEmpty
<1>4. CASE ObsCount(o)
  BY <1>2, <1>4 DEF ObsCount
<1>5. CASE ObsSpace(o)
  BY <1>2, <1>5 DEF ObsSpace
<1> QED
  BY <1>3, <1>4, <1>5 DEF Observe

(* TRUE from alf_queue_empty means that nothing is left, neither to take nor *)
(* in a consumer's hands, when it returns.                                   *)
THEOREM EmptyHonest == Spec => EmptyIsTrue
<1>1. IInv /\ [Next]_vars =>
        \A o \in Observers : pc[o] = "empty" /\ pc'[o] = "idle" /\ seen'[o].val = 1
            => prodTail = consHead /\ consHead = consTail
  <2> SUFFICES ASSUME IInv, [Next]_vars, NEW o \in Observers,
                      pc[o] = "empty", pc'[o] = "idle", seen'[o].val = 1
               PROVE  prodTail = consHead /\ consHead = consTail
    OBVIOUS
  <2>0. TypeOK /\ CountersOrdered /\ SnapshotsFresh /\ o \in Threads
    BY Roles DEF IInv
  <2>1. prodTail = head[o]
    BY ObserverReturns, ObserverSees
  <2>2. head[o] \in U32
    BY <2>0 DEF TypeOK
  <2>3. Dist(prodHead, prodTail) = Dist(prodHead, consTail) + Dist(consTail, prodTail)
    BY <2>0, <2>1 DEF SnapshotsFresh
  <2>4. Dist(consTail, prodTail) \in Nat
    BY <2>0, Gaps, DistType, SizeAssumption
  <2>5. Dist(prodTail, consHead) = 0 /\ Dist(consHead, consTail) = 0
    BY <2>0, <2>3, <2>4, Gaps
  <2> QED
    BY <2>0, <2>5, Gaps, DistZero
<1> QED
  BY <1>1, IInvAlways, PTL DEF Spec, EmptyIsTrue

(* alf_queue_count misses no item that can be taken when it returns, and     *)
(* alf_queue_avail_space no free slot, however old their first load is.      *)
THEOREM CountsHonest == Spec => CountsNeverLow
<1>1. IInv /\ [Next]_vars =>
        \A o \in Observers : pc'[o] = "idle" =>
            /\ pc[o] = "count" => seen'[o].val >= Dist(prodTail, consHead)
            /\ pc[o] = "space" => seen'[o].val >= Size - Dist(prodHead, consTail)
  <2> SUFFICES ASSUME IInv, [Next]_vars, NEW o \in Observers, pc'[o] = "idle"
               PROVE  /\ pc[o] = "count" => seen'[o].val >= Dist(prodTail, consHead)
                      /\ pc[o] = "space" => seen'[o].val >= Size - Dist(prodHead, consTail)
    OBVIOUS
  <2>0. TypeOK /\ CountersOrdered /\ SnapshotsFresh /\ o \in Threads
    BY Roles DEF IInv
  <2>1. /\ head[o] \in U32
        /\ prodHead \in U32 /\ prodTail \in U32 /\ consHead \in U32 /\ consTail \in U32
    BY <2>0 DEF TypeOK
  <2>2. ASSUME pc[o] = "count" PROVE seen'[o].val >= Dist(prodTail, consHead)
    <3>1. seen'[o].val = Dist(prodTail, head[o])
      BY <2>2, ObserverReturns, ObserverSees DEF Avail
    <3>2. Dist(prodHead, head[o]) = Dist(prodHead, consHead) + Dist(consHead, head[o])
      BY <2>0, <2>2 DEF SnapshotsFresh
    <3>3. /\ Dist(prodHead, head[o]) \in 0 .. (W - 1) /\ Dist(consHead, head[o]) \in 0 .. (W - 1)
          /\ Dist(prodHead, prodTail) \in Nat /\ Dist(prodTail, consHead) \in Nat
          /\ Dist(prodHead, consHead) = Dist(prodHead, prodTail) + Dist(prodTail, consHead)
      BY <2>0, <2>1, DistType, Gaps
    <3>4. Dist(prodTail, consHead) + Dist(consHead, head[o]) < W
      BY <3>2, <3>3, SizeAssumption
    <3>5. Dist(prodTail, head[o]) = Dist(prodTail, consHead) + Dist(consHead, head[o])
      BY <2>1, <3>4, DistAdd
    <3> QED
      BY <3>1, <3>3, <3>5, SizeAssumption
  <2>3. ASSUME pc[o] = "space" PROVE seen'[o].val >= Size - Dist(prodHead, consTail)
    <3>1. seen'[o].val = Wrap(Size + consTail - head[o])
      BY <2>3, ObserverReturns, ObserverSees DEF Space
    <3>2. Dist(prodHead, consTail) <= Size /\ Dist(prodHead, head[o]) + Size < W
      BY <2>0, <2>3 DEF CountersOrdered, SnapshotsFresh, InFlight
    <3>3. Wrap(Size + consTail - head[o]) = Size - Dist(prodHead, consTail) + Dist(prodHead, head[o])
      BY <2>1, <3>2, SpaceIs
    <3>4. Dist(prodHead, head[o]) \in 0 .. (W - 1) /\ Dist(prodHead, consTail) \in 0 .. (W - 1)
      BY <2>1, DistType
    <3> QED
      BY <3>1, <3>3, <3>4, SizeAssumption
  <2> QED
    BY <2>2, <2>3
<1> QED
  BY <1>1, IInvAlways, PTL DEF Spec, CountsNeverLow

-----------------------------------------------------------------------------
(* The queue of alf_queue.h implements the bounded FIFO: under the inductive *)
(* invariant every step of a CPU is one step of the FIFO as AlfQueue maps    *)
(* it, or none.                                                              *)

Cell == Item \cup {NoItem}

-----------------------------------------------------------------------------
(* Rows of the array *)

(* k slots of array r from position `from' on, as a sequence.                *)
Row(r, from, k) == [j \in 1 .. k |-> r[Slot(from + j - 1)]]

LEMMA RowIs ==
  ASSUME NEW r \in [0 .. (Size - 1) -> Cell], NEW from \in Int, NEW k \in Nat
  PROVE  /\ Row(r, from, k) \in Seq(Cell)
         /\ Len(Row(r, from, k)) = k
         /\ \A j \in 1 .. k : Row(r, from, k)[j] = r[Slot(from + j - 1)]
<1>1. ASSUME NEW j \in 1 .. k PROVE r[Slot(from + j - 1)] \in Cell
  <2>1. from + j - 1 \in Int
    OBVIOUS
  <2> QED
    BY <2>1, SlotRange
<1>2. Row(r, from, k) \in [1 .. k -> Cell]
  BY <1>1 DEF Row
<1>3. Row(r, from, k) \in Seq(Cell)
  BY <1>2, SeqDef
<1> QED
  BY <1>2, <1>3, LenProperties DEF Row

LEMMA RowSame ==
  ASSUME NEW r, NEW s, NEW from \in Int, NEW to \in Int, NEW k \in Nat,
         \A j \in 0 .. (k - 1) : r[Slot(from + j)] = s[Slot(to + j)]
  PROVE  Row(r, from, k) = Row(s, to, k)
<1>1. ASSUME NEW j \in 1 .. k PROVE r[Slot(from + j - 1)] = s[Slot(to + j - 1)]
  <2>1. j - 1 \in 0 .. (k - 1) /\ from + j - 1 = from + (j - 1) /\ to + j - 1 = to + (j - 1)
    OBVIOUS
  <2> QED
    BY <2>1
<1> QED
  BY <1>1 DEF Row

LEMMA RowConcat ==
  ASSUME NEW r \in [0 .. (Size - 1) -> Cell], NEW from \in Int, NEW k \in Nat, NEW l \in Nat
  PROVE  Row(r, from, k + l) = Row(r, from, k) \o Row(r, from + k, l)
<1> DEFINE a == Row(r, from, k)
           b == Row(r, from + k, l)
           all == Row(r, from, k + l)
<1>1. /\ a \in Seq(Cell) /\ Len(a) = k
      /\ \A j \in 1 .. k : a[j] = r[Slot(from + j - 1)]
  BY RowIs
<1>2. /\ b \in Seq(Cell) /\ Len(b) = l
      /\ \A j \in 1 .. l : b[j] = r[Slot(from + k + j - 1)]
  <2>1. from + k \in Int
    OBVIOUS
  <2> QED
    BY <2>1, RowIs
<1>3. /\ all \in Seq(Cell) /\ Len(all) = k + l
      /\ \A j \in 1 .. (k + l) : all[j] = r[Slot(from + j - 1)]
  <2>1. k + l \in Nat
    OBVIOUS
  <2> QED
    BY <2>1, RowIs
<1> HIDE DEF a, b, all
<1>4. /\ a \o b \in Seq(Cell) /\ Len(a \o b) = k + l
      /\ \A j \in 1 .. (k + l) : (a \o b)[j] = IF j <= k THEN a[j] ELSE b[j - k]
  <2>1. /\ a \o b \in Seq(Cell) /\ Len(a \o b) = Len(a) + Len(b)
        /\ \A j \in 1 .. (Len(a) + Len(b)) :
              (a \o b)[j] = IF j <= Len(a) THEN a[j] ELSE b[j - Len(a)]
    BY <1>1, <1>2, ConcatProperties
  <2> QED
    BY <1>1, <1>2, <2>1
<1>5. ASSUME NEW j \in 1 .. (k + l) PROVE all[j] = (a \o b)[j]
  <2>1. CASE j <= k
    <3>1. j \in 1 .. k
      BY <2>1
    <3> QED
      BY <1>1, <1>3, <1>4, <2>1, <3>1
  <2>2. CASE ~(j <= k)
    <3>1. j - k \in 1 .. l /\ from + k + (j - k) - 1 = from + j - 1
      BY <2>2
    <3>2. b[j - k] = r[Slot(from + j - 1)]
      BY <1>2, <3>1
    <3> QED
      BY <1>3, <1>4, <2>2, <3>2
  <2> QED
    BY <2>1, <2>2
<1>6. all = a \o b
  BY <1>3, <1>4, <1>5, SeqEqual
<1> QED
  BY <1>6 DEF a, b, all

LEMMA RowParts ==
  ASSUME NEW r \in [0 .. (Size - 1) -> Cell], NEW from \in Int, NEW m \in Nat, NEW k \in 1 .. m
  PROVE  /\ SubSeq(Row(r, from, m), 1, k) = Row(r, from, k)
         /\ SubSeq(Row(r, from, m), k + 1, m) = Row(r, from + k, m - k)
<1> DEFINE all == Row(r, from, m)
<1>1. /\ all \in Seq(Cell) /\ Len(all) = m
      /\ \A j \in 1 .. m : all[j] = r[Slot(from + j - 1)] /\ all[j] \in Cell
  BY RowIs, ElementOfSeq
<1> HIDE DEF all
<1>2. SubSeq(all, 1, k) = Row(r, from, k)
  <2> DEFINE a == Row(r, from, k)
  <2>1. /\ a \in Seq(Cell) /\ Len(a) = k
        /\ \A j \in 1 .. k : a[j] = r[Slot(from + j - 1)]
    <3>1. k \in Nat
      OBVIOUS
    <3> QED
      BY <3>1, RowIs
  <2> HIDE DEF a
  <2>2. \A j \in 1 .. k : all[j] \in Cell
    BY <1>1
  <2>3. /\ SubSeq(all, 1, k) \in Seq(Cell) /\ Len(SubSeq(all, 1, k)) = k
        /\ \A j \in 1 .. (k - 1 + 1) : SubSeq(all, 1, k)[j] = all[1 + j - 1]
    BY <2>2, SubSeqProperties
  <2>4. \A j \in 1 .. k : SubSeq(all, 1, k)[j] = a[j]
    BY <1>1, <2>1, <2>3
  <2>5. SubSeq(all, 1, k) = a
    BY <2>1, <2>3, <2>4, SeqEqual
  <2> QED
    BY <2>5 DEF a
<1>3. SubSeq(all, k + 1, m) = Row(r, from + k, m - k)
  <2> DEFINE b == Row(r, from + k, m - k)
  <2>1. /\ b \in Seq(Cell) /\ Len(b) = m - k
        /\ \A j \in 1 .. (m - k) : b[j] = r[Slot(from + k + j - 1)]
    <3>1. from + k \in Int /\ m - k \in Nat
      OBVIOUS
    <3> QED
      BY <3>1, RowIs
  <2> HIDE DEF b
  <2>2. \A j \in (k + 1) .. m : all[j] \in Cell
    BY <1>1
  <2>3. /\ SubSeq(all, k + 1, m) \in Seq(Cell)
        /\ Len(SubSeq(all, k + 1, m)) = IF k + 1 <= m THEN m - (k + 1) + 1 ELSE 0
        /\ \A j \in 1 .. (m - (k + 1) + 1) : SubSeq(all, k + 1, m)[j] = all[(k + 1) + j - 1]
    BY <2>2, SubSeqProperties
  <2>4. Len(SubSeq(all, k + 1, m)) = m - k
    BY <2>3
  <2>5. ASSUME NEW j \in 1 .. (m - k) PROVE SubSeq(all, k + 1, m)[j] = b[j]
    <3>1. /\ j \in 1 .. (m - (k + 1) + 1) /\ (k + 1) + j - 1 \in 1 .. m
          /\ from + ((k + 1) + j - 1) - 1 = from + k + j - 1
      OBVIOUS
    <3> QED
      BY <1>1, <2>1, <2>3, <3>1
  <2>6. SubSeq(all, k + 1, m) = b
    BY <2>1, <2>3, <2>4, <2>5, SeqEqual
  <2> QED
    BY <2>6 DEF b
<1> QED
  BY <1>2, <1>3 DEF all

(* Where a row starts is the same place before and after a turn of u32.      *)
LEMMA RowWraps ==
  ASSUME NEW r, NEW h \in U32, NEW k \in 0 .. (W - 1), NEW l \in Nat
  PROVE  Row(r, Wrap(h + k), l) = Row(r, h + k, l)
<1> DEFINE x == h + k
           y == Wrap(h + k)
<1>1. /\ x \in Int /\ y \in Int
      /\ y = x \/ y + W = x
  <2>1. Wrap(h + k) = (IF h + k < W THEN h + k ELSE h + k - W) /\ h \in Int /\ k \in Int
    BY MovedIs, SizeAssumption DEF U32
  <2> QED
    BY <2>1, SizeAssumption
<1> HIDE DEF x, y
<1>2. ASSUME NEW j \in 0 .. (l - 1) PROVE Slot(y + j) = Slot(x + j)
  <2>1. CASE y = x
    BY <2>1
  <2>2. CASE y + W = x
    <3>1. y + j \in Int /\ (y + j) + W = x + j
      BY <1>1, <2>2, SizeAssumption
    <3>2. Slot((y + j) + W) = Slot(y + j)
      BY <3>1, SlotTurn
    <3> QED
      BY <3>1, <3>2
  <2> QED
    BY <1>1, <2>1, <2>2
<1>3. Row(r, y, l) = Row(r, x, l)
  BY <1>1, <1>2, RowSame
<1> QED
  BY <1>3 DEF x, y

(* Appending a slot to what is before it, and dropping it from the row.      *)
LEMMA RowPush ==
  ASSUME NEW r \in [0 .. (Size - 1) -> Cell], NEW s \in Seq(Cell), NEW at \in Int,
         NEW k \in Nat, k >= 1
  PROVE  Append(s, r[Slot(at)]) \o Row(r, at + 1, k - 1) = s \o Row(r, at, k)
<1> DEFINE a == Append(s, r[Slot(at)])
           b == Row(r, at + 1, k - 1)
           c == Row(r, at, k)
<1>0. at + 1 \in Int /\ k - 1 \in Nat /\ r[Slot(at)] \in Cell
  BY SlotRange
<1>1. /\ b \in Seq(Cell) /\ Len(b) = k - 1
      /\ \A j \in 1 .. (k - 1) : b[j] = r[Slot(at + 1 + j - 1)]
  BY <1>0, RowIs
<1>2. /\ c \in Seq(Cell) /\ Len(c) = k
      /\ \A j \in 1 .. k : c[j] = r[Slot(at + j - 1)]
  BY RowIs
<1>3. /\ a \in Seq(Cell) /\ Len(a) = Len(s) + 1 /\ Len(s) \in Nat
      /\ \A j \in 1 .. Len(s) : a[j] = s[j]
      /\ a[Len(s) + 1] = r[Slot(at)]
  BY <1>0, AppendProperties, LenProperties
<1> HIDE DEF a, b, c
<1>4. /\ a \o b \in Seq(Cell) /\ Len(a \o b) = Len(a) + Len(b)
      /\ \A j \in 1 .. (Len(a) + Len(b)) : (a \o b)[j] = IF j <= Len(a) THEN a[j] ELSE b[j - Len(a)]
  BY <1>1, <1>3, ConcatProperties
<1>5. /\ s \o c \in Seq(Cell) /\ Len(s \o c) = Len(s) + Len(c)
      /\ \A j \in 1 .. (Len(s) + Len(c)) : (s \o c)[j] = IF j <= Len(s) THEN s[j] ELSE c[j - Len(s)]
  BY <1>2, ConcatProperties
<1>6. PICK m \in Nat : m = Len(s)
  BY <1>3
<1>7. Len(a \o b) = m + k /\ Len(s \o c) = m + k /\ Len(a) + Len(b) = m + k /\ Len(s) + Len(c) = m + k
  BY <1>1, <1>2, <1>3, <1>4, <1>5, <1>6
<1>8. ASSUME NEW j \in 1 .. (m + k) PROVE (a \o b)[j] = (s \o c)[j]
  <2>1. CASE j <= m
    <3>1. j \in 1 .. m /\ j <= m + 1
      BY <2>1
    <3> QED
      BY <1>3, <1>4, <1>5, <1>6, <1>7, <3>1
  <2>2. CASE j = m + 1
    <3>1. j - m = 1 /\ 1 \in 1 .. k /\ at + 1 - 1 = at /\ j <= m + 1 /\ ~(j <= m)
      BY <2>2
    <3>2. (a \o b)[j] = r[Slot(at)]
      BY <1>3, <1>4, <1>6, <1>7, <2>2, <3>1
    <3>3. (s \o c)[j] = r[Slot(at)]
      BY <1>2, <1>5, <1>6, <1>7, <3>1
    <3> QED
      BY <3>2, <3>3
  <2>3. CASE j > m + 1
    <3>1. /\ ~(j <= m + 1) /\ ~(j <= m)
          /\ j - (m + 1) \in 1 .. (k - 1) /\ j - m \in 1 .. k
          /\ at + 1 + (j - (m + 1)) - 1 = at + (j - m) - 1
      BY <2>3
    <3>2. (a \o b)[j] = b[j - (m + 1)]
      BY <1>3, <1>4, <1>6, <1>7, <3>1
    <3>3. b[j - (m + 1)] = r[Slot(at + (j - m) - 1)]
      BY <1>1, <3>1
    <3>4. (s \o c)[j] = c[j - m]
      BY <1>5, <1>6, <1>7, <3>1
    <3>5. c[j - m] = r[Slot(at + (j - m) - 1)]
      BY <1>2, <3>1
    <3> QED
      BY <3>2, <3>3, <3>4, <3>5
  <2>4. j <= m \/ j = m + 1 \/ j > m + 1
    OBVIOUS
  <2> QED
    BY <2>1, <2>2, <2>3, <2>4
<1>9. a \o b = s \o c
  BY <1>4, <1>5, <1>7, <1>8, SeqEqual
<1> QED
  BY <1>9 DEF a, b, c

-----------------------------------------------------------------------------
(* What a CPU's step can change of the FIFO *)

OfferOf(p) == [items |-> ptr[p], whole |-> pc[p] # "idle"]
AskOf(c)   == [n |-> IF Holding(c) THEN 0 ELSE n[c], whole |-> FALSE]
ToLoad(c)  == Row(ring, head[c] + idx[c], elems[c] - idx[c])
HandOf(c)  == IF Holding(c) THEN ptr[c] \o ToLoad(c) ELSE << >>

LEMMA Mapped ==
  /\ Contents = Row(ring, consHead, Dist(prodTail, consHead))
  /\ Offers = [p \in Producers |-> OfferOf(p)]
  /\ Asks = [c \in Consumers |-> AskOf(c)]
  /\ Hands = [c \in Consumers |-> HandOf(c)]
BY DEF Contents, Offers, Asks, Hands, Stored, Row, OfferOf, AskOf, HandOf, ToLoad

LEMMA MappedThen ==
  /\ Contents' = Row(ring', consHead', Dist(prodTail', consHead'))
  /\ Offers' = [p \in Producers |-> OfferOf(p)']
  /\ Asks' = [c \in Consumers |-> AskOf(c)']
  /\ Hands' = [c \in Consumers |-> HandOf(c)']
BY DEF Contents, Offers, Asks, Hands, Stored, Row, OfferOf, AskOf, HandOf, ToLoad, Dist, Holding

LEMMA SameContents ==
  ASSUME UNCHANGED <<prodTail, consHead, ring>>
  PROVE  Contents' = Contents
BY Mapped, MappedThen

LEMMA OfferMoves ==
  ASSUME NEW p \in Producers, OnlyMoves(p)
  PROVE  Offers' = [Offers EXCEPT ![p] = OfferOf(p)'] /\ Asks' = Asks
<1>1. \A q \in Producers \ {p} : OfferOf(q)' = OfferOf(q)
  BY Roles DEF OnlyMoves, OfferOf
<1>2. \A c \in Consumers : AskOf(c)' = AskOf(c)
  BY Roles DEF OnlyMoves, AskOf, Holding
<1> QED
  BY <1>1, <1>2, Mapped, MappedThen

LEMMA AskMoves ==
  ASSUME NEW c \in Consumers, OnlyMoves(c)
  PROVE  Offers' = Offers /\ Asks' = [Asks EXCEPT ![c] = AskOf(c)']
<1>1. \A p \in Producers : OfferOf(p)' = OfferOf(p)
  BY Roles DEF OnlyMoves, OfferOf
<1>2. \A d \in Consumers \ {c} : AskOf(d)' = AskOf(d)
  BY Roles DEF OnlyMoves, AskOf, Holding
<1> QED
  BY <1>1, <1>2, Mapped, MappedThen

LEMMA HandKept ==
  ASSUME NEW t \in Threads, OnlyMoves(t), UNCHANGED ring
  PROVE  /\ t \in Consumers => Hands' = [Hands EXCEPT ![t] = HandOf(t)']
         /\ t \notin Consumers => Hands' = Hands
<1>1. \A d \in Consumers \ {t} : HandOf(d)' = HandOf(d)
  BY Roles DEF OnlyMoves, HandOf, ToLoad, Holding
<1> QED
  BY <1>1, Mapped, MappedThen

-----------------------------------------------------------------------------
(* The steps of an enqueue *)

LEMMA EnqCallOffers ==
  ASSUME IInv, NEW p \in Producers, EnqCall(p)
  PROVE  F!Offer(p)
<1>0. p \in Threads /\ p \notin Consumers /\ TypeOK /\ OnlyMoves(p)
  BY Roles, ProducerFrame DEF IInv
<1>1. PICK k \in 1 .. MaxBulk :
        ptr' = [ptr EXCEPT ![p] = [j \in 1 .. k |-> <<p, (serial[p] + j - 1) % Serials>>]]
  BY DEF EnqCall
<1>2. pc[p] = "idle" /\ pc'[p] = "ldhead" /\ ptr[p] = << >>
  BY <1>0 DEF EnqCall, Goto, TypeOK, IInv, Locals, ProducerOK
<1>3. ptr'[p] \in Seq(Item) /\ ptr'[p] # << >>
  <2> DEFINE f == [j \in 1 .. k |-> <<p, (serial[p] + j - 1) % Serials>>]
  <2>1. ptr'[p] = f
    BY <1>0, <1>1 DEF TypeOK
  <2>2. k \in Nat /\ k >= 1
    BY SizeAssumption
  <2>3. ASSUME NEW j \in 1 .. k PROVE <<p, (serial[p] + j - 1) % Serials>> \in Item
    <3>1. serial[p] + j - 1 \in Int
      BY <1>0 DEF TypeOK
    <3>2. (serial[p] + j - 1) % Serials \in 0 .. (Serials - 1)
      BY <3>1, SizeAssumption
    <3> QED
      BY <3>2 DEF Item
  <2>4. f \in [1 .. k -> Item]
    BY <2>3
  <2>5. f \in Seq(Item)
    BY <2>2, <2>4, SeqDef
  <2>6. Len(f) = k
    BY <2>2, <2>4, <2>5, LenProperties
  <2> HIDE DEF f
  <2>7. f # << >>
    BY <2>2, <2>6, EmptySeq
  <2> QED
    BY <2>1, <2>5, <2>7
<1>4. Offers[p] = F!NoOffer
  BY <1>2, Mapped DEF OfferOf, F!NoOffer
<1>5. Offers' = [Offers EXCEPT ![p] = OfferOf(p)'] /\ Asks' = Asks
  BY <1>0, OfferMoves
<1>6. Offers'[p] = OfferOf(p)'
  BY <1>5, Mapped
<1>7. OfferOf(p)' \in [items : Seq(Item) \ {<< >>}, whole : BOOLEAN]
  BY <1>2, <1>3 DEF OfferOf
<1>8. Contents' = Contents /\ Hands' = Hands
  BY <1>0, SameContents, HandKept DEF EnqCall, shared
<1> QED
  BY <1>4, <1>5, <1>6, <1>7, <1>8 DEF F!Offer

(* Before its store phase and between it and its publication an enqueue      *)
(* changes nothing that the FIFO has.                                        *)
LEMMA EnqueueHidden ==
  ASSUME IInv, NEW p \in Producers,
         \/ EnqLoadHead(p) \/ EnqReserve(p) \/ EnqRetry(p) \/ EnqWait(p)
         \/ EnqLoadTail(p) /\ pc'[p] # "idle"
  PROVE  UNCHANGED F!fifoVars
<1>0. p \in Threads /\ p \notin Consumers /\ TypeOK /\ OnlyMoves(p)
  BY Roles, ProducerFrame DEF IInv, Enqueue
<1>1. UNCHANGED <<prodTail, consHead, ring, ptr>> /\ pc[p] # "idle" /\ pc'[p] # "idle"
  BY <1>0 DEF EnqLoadHead, EnqReserve, EnqRetry, EnqWait, EnqLoadTail, Goto, Return, shared, TypeOK
<1>2. OfferOf(p)' = OfferOf(p)
  BY <1>1 DEF OfferOf
<1>3. Offers' = Offers /\ Asks' = Asks
  BY <1>0, <1>2, OfferMoves, Mapped
<1>4. Contents' = Contents /\ Hands' = Hands
  BY <1>0, <1>1, SameContents, HandKept
<1> QED
  BY <1>3, <1>4 DEF F!fifoVars

LEMMA EnqueueRefused ==
  ASSUME IInv, NEW p \in Producers, EnqLoadTail(p), pc'[p] = "idle"
  PROVE  F!Refuse(p)
<1>0. p \in Threads /\ p \notin Consumers /\ TypeOK /\ OnlyMoves(p)
  BY Roles, ProducerFrame DEF IInv, Enqueue
<1>1. Return(p) /\ pc[p] = "ldtail" /\ UNCHANGED shared
  BY <1>0 DEF EnqLoadTail, Goto, TypeOK
<1>2. OfferOf(p)' = F!NoOffer
  BY <1>0, <1>1, Returned DEF OfferOf, F!NoOffer
<1>3. Offers[p] # F!NoOffer
  <2>1. Offers[p].whole = TRUE
    BY <1>1, Mapped DEF OfferOf
  <2> QED
    BY <2>1 DEF F!NoOffer
<1>4. Offers' = [Offers EXCEPT ![p] = F!NoOffer] /\ Asks' = Asks
  BY <1>0, <1>2, OfferMoves
<1>5. Contents' = Contents /\ Hands' = Hands
  BY <1>0, <1>1, SameContents, HandKept DEF shared
<1> QED
  BY <1>3, <1>4, <1>5 DEF F!Refuse

(* A store goes to a slot that is neither in the queue nor being read.       *)
LEMMA EnqueueStores ==
  ASSUME IInv, NEW p \in Producers, EnqStore(p)
  PROVE  UNCHANGED F!fifoVars
<1>0. p \in Threads /\ p \notin Consumers /\ TypeOK /\ CountersOrdered /\ OnlyMoves(p)
  BY Roles, ProducerFrame DEF IInv, Enqueue
<1>1. /\ UNCHANGED <<prodTail, consHead, ptr>>
      /\ pc[p] = "store" /\ pc'[p] # "idle" /\ Holding(p)
      /\ ring' = [ring EXCEPT ![Slot(head[p] + idx[p])] = ptr[p][idx[p] + 1]]
  BY <1>0 DEF EnqStore, Goto, TypeOK, Holding
<1>2. /\ idx[p] \in Nat /\ elems[p] \in Nat /\ idx[p] < elems[p] /\ idx[p] \in 0 .. (elems[p] - 1)
  BY <1>0, <1>1, Numbers DEF IInv, Locals, LocalsOK, TypeOK
<1>3. \A s \in 0 .. (Size - 1) : s # Slot(head[p] + idx[p]) => ring'[s] = ring[s]
  BY <1>0, <1>1 DEF TypeOK
<1>4. OfferOf(p)' = OfferOf(p)
  BY <1>1 DEF OfferOf
<1>5. Offers' = Offers /\ Asks' = Asks
  BY <1>0, <1>4, OfferMoves, Mapped
<1>6. Contents' = Contents
  <2> DEFINE d == Dist(prodTail, consHead)
  <2>1. d \in Nat /\ consHead \in U32 /\ consHead \in Int
    BY <1>0, Gaps, SizeAssumption DEF U32
  <2>2. ASSUME NEW j \in 0 .. (d - 1) PROVE ring'[Slot(consHead + j)] = ring[Slot(consHead + j)]
    <3>1. /\ head[p] \in U32 /\ elems[p] \in Nat /\ Dist(head[p], consTail) \in Nat
          /\ Dist(head[p], consTail) + elems[p] <= Size
          /\ Dist(head[p], prodTail) \in Nat
          /\ Dist(head[p], consTail) = Dist(head[p], prodTail) + Dist(prodTail, consTail)
      BY <1>0, <1>1, Placed
    <3>2. /\ Dist(consHead, consTail) \in Nat
          /\ Dist(prodTail, consTail) = d + Dist(consHead, consTail)
      BY <1>0, Gaps
    <3> HIDE DEF d
    <3>3. j \in Nat /\ j < d
      BY <2>1
    <3>4. /\ Dist(consHead, consTail) + j < Dist(head[p], consTail) + idx[p]
          /\ Dist(head[p], consTail) + idx[p] < Size
      BY <1>2, <2>1, <3>1, <3>2, <3>3, SizeAssumption
    <3>5. Dist(consHead, consTail) + j < Size
      BY <1>2, <3>1, <3>2, <3>3, <3>4, SizeAssumption
    <3>6. Slot(consHead + j) # Slot(head[p] + idx[p])
      <4> SUFFICES ASSUME Slot(consHead + j) = Slot(head[p] + idx[p]) PROVE FALSE
        OBVIOUS
      <4>1. Dist(consHead, consTail) + j = Dist(head[p], consTail) + idx[p]
        <5>1. /\ consHead \in U32 /\ head[p] \in U32 /\ j \in Nat /\ idx[p] \in Nat
              /\ Dist(consHead, consTail) + j < Size /\ Dist(head[p], consTail) + idx[p] < Size
          BY <1>2, <2>1, <3>1, <3>3, <3>4, <3>5
        <5> QED
          BY <1>0, <5>1, SlotsDiffer, Zenon
      <4> QED
        BY <1>2, <3>1, <3>2, <3>3, <3>4, <4>1
    <3>7. Slot(consHead + j) \in 0 .. (Size - 1)
      BY <2>1, <3>3, SlotRange
    <3> QED
      BY <1>3, <3>6, <3>7
  <2> HIDE DEF d
  <2>3. Row(ring', consHead, d) = Row(ring, consHead, d)
    BY <2>1, <2>2, RowSame
  <2> QED
    BY <1>1, <2>3, Mapped, MappedThen DEF d
<1>7. ASSUME NEW c \in Consumers, Holding(c) PROVE ToLoad(c)' = ToLoad(c)
  <2>0. c \in Threads /\ c # p
    BY <1>0, Roles
  <2>1. /\ head[c] \in U32 /\ head[c] \in Int /\ elems[c] \in Nat /\ idx[c] \in Nat
        /\ idx[c] <= elems[c]
    <3>1. head[c] \in U32 /\ elems[c] \in Nat /\ idx[c] \in Nat
      BY <1>0, <2>0, Numbers DEF TypeOK
    <3>2. idx[c] < elems[c] \/ idx[c] = elems[c]
      BY <1>7, <2>0 DEF IInv, Locals, LocalsOK, Holding
    <3> QED
      BY <3>1, <3>2, SizeAssumption DEF U32
  <2>2. ASSUME NEW j \in 0 .. (elems[c] - idx[c] - 1)
        PROVE  ring'[Slot(head[c] + idx[c] + j)] = ring[Slot(head[c] + idx[c] + j)]
    <3>1. /\ idx[c] + j \in 0 .. (elems[c] - 1) /\ head[c] + idx[c] + j = head[c] + (idx[c] + j)
          /\ head[c] + (idx[c] + j) \in Int
      BY <2>1
    <3>2. Slot(head[p] + idx[p]) # Slot(head[c] + (idx[c] + j))
      BY <1>0, <1>1, <1>2, <1>7, <2>0, <3>1, ReservedApart
    <3> QED
      BY <1>3, <3>1, <3>2, SlotRange
  <2>3. head[c] + idx[c] \in Int /\ elems[c] - idx[c] \in Nat
    BY <2>1
  <2>4. Row(ring', head[c] + idx[c], elems[c] - idx[c]) = ToLoad(c)
    BY <2>2, <2>3, RowSame DEF ToLoad
  <2> QED
    BY <1>0, <2>0, <2>4 DEF OnlyMoves, ToLoad
<1>8. Hands' = Hands
  <2>1. ASSUME NEW c \in Consumers PROVE HandOf(c)' = HandOf(c)
    BY <1>0, <1>7, <2>1, Roles DEF HandOf, OnlyMoves, Holding
  <2> QED
    BY <2>1, Mapped, MappedThen
<1> QED
  BY <1>5, <1>6, <1>8 DEF F!fifoVars

(* The store to producer.tail appends the caller's whole array.              *)
LEMMA EnqueuePublishes ==
  ASSUME IInv, NEW p \in Producers, EnqPublish(p)
  PROVE  F!Admit(p)
<1>0. p \in Threads /\ p \notin Consumers /\ TypeOK /\ CountersOrdered /\ OnlyMoves(p)
  BY Roles, ProducerFrame DEF IInv, Enqueue
<1> DEFINE d == Dist(prodTail, consHead)
           k == elems[p]
<1>1. /\ head[p] = prodTail /\ k \in Nat /\ k >= 1 /\ k <= Dist(prodHead, prodTail)
      /\ (Dist(prodTail, consHead) + k < W => Dist(prodTail', consHead) = d + k)
      /\ UNCHANGED <<prodHead, consHead, consTail, ring>>
      /\ pc[p] = "publish" /\ Holding(p)
  BY <1>0, EnqPublishMoves, Gaps DEF EnqPublish
<1>2. /\ d \in Nat /\ Dist(prodHead, prodTail) \in Nat /\ Dist(consHead, consTail) \in Nat
      /\ Dist(prodHead, prodTail) + d + Dist(consHead, consTail) <= Size
      /\ prodTail \in U32 /\ consHead \in U32 /\ consHead \in Int /\ prodTail \in Int
  BY <1>0, Gaps, SizeAssumption DEF U32
<1>3. d + k <= Size /\ Dist(prodTail', consHead) = d + k
  <2> HIDE DEF d, k
  <2>1. d + k <= Size
    BY <1>1, <1>2, SizeAssumption
  <2>2. d + k < W
    BY <1>1, <1>2, <2>1, SizeAssumption
  <2> QED
    BY <1>1, <2>1, <2>2 DEF d
<1>4. ptr[p] \in Seq(Item) /\ Len(ptr[p]) = k /\ idx[p] = k
  BY <1>0, <1>1 DEF IInv, Locals, ProducerOK, LocalsOK, Reserving
<1>5. ring \in [0 .. (Size - 1) -> Cell]
  BY <1>0 DEF TypeOK, Cell
<1>6. Row(ring, consHead + d, k) = ptr[p]
  <2> DEFINE a == Row(ring, consHead + d, k)
  <2>1. /\ a \in Seq(Cell) /\ Len(a) = k
        /\ \A j \in 1 .. k : a[j] = ring[Slot(consHead + d + j - 1)]
    <3>1. consHead + d \in Int
      BY <1>2
    <3> QED
      BY <1>1, <1>5, <3>1, RowIs
  <2> HIDE DEF a
  <2>2. ASSUME NEW j \in 1 .. k PROVE a[j] = ptr[p][j]
    <3>1. Slot(prodTail + (j - 1)) = Slot(consHead + (d + (j - 1)))
      BY <1>2, SlotFrom
    <3>2. j - 1 \in 0 .. (idx[p] - 1) /\ (j - 1) + 1 = j
      <4> HIDE DEF k
      <4> QED
        BY <1>1, <1>4
    <3>3. ring[Slot(head[p] + (j - 1))] = ptr[p][(j - 1) + 1]
      BY <1>1, <3>2 DEF IInv, StoredSoFar
    <3>4. consHead + d + j - 1 = consHead + (d + (j - 1))
      <4> HIDE DEF d, k
      <4> QED
        BY <1>1, <1>2
    <3> QED
      BY <1>1, <2>1, <3>1, <3>2, <3>3, <3>4
  <2>3. ptr[p] \in Seq(Cell)
    BY <1>4, SeqMonotonic DEF Cell
  <2>4. a = ptr[p]
    BY <1>4, <2>1, <2>2, <2>3, SeqEqual
  <2> QED
    BY <2>4 DEF a
<1>7. Contents' = Contents \o ptr[p]
  <2>1. Contents' = Row(ring, consHead, d + k)
    BY <1>1, <1>3, MappedThen
  <2>2. Row(ring, consHead, d + k) = Row(ring, consHead, d) \o Row(ring, consHead + d, k)
    <3>1. consHead \in Int /\ d \in Nat /\ k \in Nat
      BY <1>1, <1>2
    <3> HIDE DEF d, k
    <3> QED
      BY <1>5, <3>1, RowConcat, Zenon
  <2> QED
    BY <1>6, <2>1, <2>2, Mapped
<1>8. Len(Contents) = d
  BY <1>2, <1>5, RowIs, Mapped
<1>9. Offers[p].items = ptr[p]
  BY Mapped DEF OfferOf
<1>10. SubSeq(ptr[p], 1, k) = ptr[p]
  BY <1>4, SubSeqFull
<1>11. \E l \in 1 .. Len(Offers[p].items) :
          /\ Offers[p].whole => l = Len(Offers[p].items)
          /\ Len(Contents) + l <= Size
          /\ Contents' = Contents \o SubSeq(Offers[p].items, 1, l)
  <2>1. k \in 1 .. Len(Offers[p].items)
    BY <1>1, <1>4, <1>9
  <2> QED
    BY <1>3, <1>4, <1>7, <1>8, <1>9, <1>10, <2>1
<1>12. Offers' = [Offers EXCEPT ![p] = F!NoOffer] /\ Asks' = Asks
  <2>1. OfferOf(p)' = F!NoOffer
    BY <1>0, Returned DEF OfferOf, F!NoOffer, EnqPublish
  <2> QED
    BY <1>0, <2>1, OfferMoves
<1>13. Hands' = Hands
  BY <1>0, <1>1, HandKept
<1> QED
  BY <1>11, <1>12, <1>13 DEF F!Admit

-----------------------------------------------------------------------------
(* The steps of a dequeue *)

(* A consumer outside of a call asks for nothing.                            *)
Rests == \A c \in Consumers : pc[c] = "idle" => n[c] = 0

LEMMA RestsStep == ASSUME IInv, Rests, [Next]_vars PROVE Rests'
<1>0. TypeOK
  BY DEF IInv
<1>1. ASSUME NEW t \in Producers \cup Observers, OnlyMoves(t) PROVE Rests'
  BY <1>1, Roles DEF Rests, OnlyMoves
<1>2. ASSUME NEW c \in Consumers, DeqCall(c) \/ Dequeue(c) PROVE Rests'
  <2>0. c \in Threads /\ OnlyMoves(c)
    BY <1>0, <1>2, Roles, ConsumerFrame
  <2>1. pc'[c] = "idle" => n'[c] = 0
    <3>1. Return(c) \/ pc'[c] # "idle"
      BY <1>0, <1>2, <2>0 DEF Dequeue, DeqCall, DeqLoadHead, DeqLoadTail, DeqReserve, DeqRetry,
         DeqLoad, DeqWait, DeqPublish, Goto, TypeOK
    <3> QED
      BY <1>0, <2>0, <3>1, Returned
  <2> QED
    BY <2>0, <2>1, Roles DEF Rests, OnlyMoves
<1>3. CASE UNCHANGED vars
  BY <1>3 DEF vars, Rests
<1> QED
  BY <1>0, <1>1, <1>2, <1>3, ProducerFrame, ObserverFrame DEF Next

LEMMA DeqCallAsks ==
  ASSUME IInv, Rests, NEW c \in Consumers, DeqCall(c)
  PROVE  F!Ask(c)
<1>0. c \in Threads /\ TypeOK /\ OnlyMoves(c)
  BY Roles, ConsumerFrame DEF IInv
<1>1. PICK k \in 1 .. MaxBulk : n' = [n EXCEPT ![c] = k]
  BY DEF DeqCall
<1>2. pc[c] = "idle" /\ pc'[c] = "ldhead" /\ n'[c] = k /\ UNCHANGED shared
  BY <1>0, <1>1 DEF DeqCall, Goto, TypeOK
<1>3. k \in Nat \ {0}
  BY SizeAssumption
<1>4. Offers' = Offers /\ Asks' = [Asks EXCEPT ![c] = AskOf(c)']
  BY <1>0, AskMoves
<1>5. AskOf(c)' = [n |-> k, whole |-> FALSE]
  BY <1>2 DEF AskOf, Holding
<1>6. Asks'[c] = AskOf(c)' /\ AskOf(c)' \in [n : Nat \ {0}, whole : BOOLEAN]
  BY <1>3, <1>4, <1>5, Mapped
<1>7. HandOf(c)' = << >> /\ HandOf(c) = << >>
  BY <1>2 DEF HandOf, Holding
<1>8. Contents' = Contents /\ Hands' = Hands /\ Hands[c] = << >>
  BY <1>0, <1>2, <1>7, SameContents, HandKept, Mapped DEF shared
<1>9. Asks[c] = F!NoAsk
  BY <1>2, Mapped DEF Rests, AskOf, Holding, F!NoAsk
<1> QED
  BY <1>4, <1>6, <1>8, <1>9 DEF F!Ask

LEMMA DequeueHidden ==
  ASSUME IInv, NEW c \in Consumers,
         \/ DeqLoadHead(c) \/ DeqRetry(c) \/ DeqWait(c)
         \/ DeqLoadTail(c) /\ pc'[c] # "idle"
  PROVE  UNCHANGED F!fifoVars
<1>0. c \in Threads /\ TypeOK /\ OnlyMoves(c)
  BY Roles, ConsumerFrame DEF IInv, Dequeue
<1>1. /\ UNCHANGED <<prodTail, consHead, ring, ptr, n>>
      /\ Holding(c)' = Holding(c)
      /\ Holding(c) => UNCHANGED <<head, idx, elems>>
  BY <1>0 DEF DeqLoadHead, DeqRetry, DeqWait, DeqLoadTail, Goto, Return, shared, TypeOK, Holding
<1>2. AskOf(c)' = AskOf(c) /\ HandOf(c)' = HandOf(c)
  BY <1>1 DEF AskOf, HandOf, ToLoad
<1>3. Offers' = Offers /\ Asks' = Asks
  BY <1>0, <1>2, AskMoves, Mapped
<1>4. Contents' = Contents /\ Hands' = Hands
  BY <1>0, <1>1, <1>2, SameContents, HandKept, Mapped
<1> QED
  BY <1>3, <1>4 DEF F!fifoVars

LEMMA DequeueDeclined ==
  ASSUME IInv, NEW c \in Consumers, DeqLoadTail(c), pc'[c] = "idle"
  PROVE  F!Decline(c)
<1>0. c \in Threads /\ TypeOK /\ OnlyMoves(c)
  BY Roles, ConsumerFrame DEF IInv, Dequeue
<1>1. Return(c) /\ pc[c] = "ldtail" /\ UNCHANGED shared
  BY <1>0 DEF DeqLoadTail, Goto, TypeOK
<1>2. n[c] \in 1 .. MaxBulk
  BY <1>0, <1>1 DEF IInv, Locals, LocalsOK
<1>3. AskOf(c)' = F!NoAsk
  BY <1>0, <1>1, Returned DEF AskOf, Holding, F!NoAsk
<1>4. Asks[c] # F!NoAsk
  <2>1. Asks[c].n = n[c]
    BY <1>1, Mapped DEF AskOf, Holding
  <2> QED
    BY <1>2, <2>1 DEF F!NoAsk
<1>5. HandOf(c)' = << >> /\ HandOf(c) = << >>
  BY <1>0, <1>1, Returned DEF HandOf, Holding
<1>6. Offers' = Offers /\ Asks' = [Asks EXCEPT ![c] = F!NoAsk]
  BY <1>0, <1>3, AskMoves
<1>7. Contents' = Contents /\ Hands' = Hands
  BY <1>0, <1>1, <1>5, SameContents, HandKept, Mapped DEF shared
<1> QED
  BY <1>4, <1>6, <1>7 DEF F!Decline

(* The reservation takes the items from the front of the queue.              *)
LEMMA DequeueReserves ==
  ASSUME IInv, NEW c \in Consumers, DeqReserve(c)
  PROVE  F!Take(c)
<1>0. c \in Threads /\ TypeOK /\ CountersOrdered /\ OnlyMoves(c)
  BY Roles, ConsumerFrame DEF IInv, Dequeue
<1> DEFINE d == Dist(prodTail, consHead)
           k == elems[c]
<1>1. /\ head[c] = consHead /\ k \in Nat /\ k >= 1 /\ k <= d
      /\ consHead' = Wrap(consHead + k)
      /\ (prodTail \in U32 => Dist(prodTail, consHead') = d - k)
      /\ UNCHANGED <<prodHead, prodTail, consTail, ring>>
      /\ pc[c] = "cas" /\ pc'[c] = "load" /\ idx[c] = 0
      /\ UNCHANGED <<head, elems, idx, ptr, n>>
  BY <1>0, DeqReserveMoves DEF DeqReserve
<1>2. /\ d \in Nat /\ d < W /\ prodTail \in U32 /\ consHead \in U32 /\ consHead \in Int
  <2>1. prodTail \in U32 /\ consHead \in U32 /\ consHead \in Int
    BY <1>0, SizeAssumption DEF TypeOK, U32
  <2>2. Dist(prodTail, consHead) \in 0 .. (W - 1)
    BY <2>1, DistType
  <2> QED
    BY <2>1, <2>2, SizeAssumption
<1>3. ring \in [0 .. (Size - 1) -> Cell]
  BY <1>0 DEF TypeOK, Cell
<1>4. k \in 1 .. d /\ k \in 0 .. (W - 1) /\ d - k \in Nat
  <2> HIDE DEF d, k
  <2> QED
    BY <1>1, <1>2, SizeAssumption
<1>5. /\ SubSeq(Contents, 1, k) = Row(ring, consHead, k)
      /\ SubSeq(Contents, k + 1, d) = Row(ring, consHead + k, d - k)
      /\ Len(Contents) = d
  BY <1>2, <1>3, <1>4, RowParts, RowIs, Mapped
<1>6. Contents' = SubSeq(Contents, k + 1, Len(Contents))
  <2>1. Contents' = Row(ring, Wrap(consHead + k), d - k)
    BY <1>1, <1>2, MappedThen
  <2> QED
    BY <1>2, <1>4, <1>5, <2>1, RowWraps
<1>7. HandOf(c)' = SubSeq(Contents, 1, k)
  <2>1. ptr[c] = << >>
    <3>1. Len(ptr[c]) = 0
      BY <1>0, <1>1 DEF IInv, Locals, ConsumerOK
    <3>2. ptr[c] \in Seq(Item \cup {NoItem})
      BY <1>0 DEF TypeOK
    <3> QED
      BY <3>1, <3>2, EmptySeq
  <2>2. HandOf(c)' = ptr[c] \o Row(ring, head[c] + idx[c], elems[c] - idx[c])
    BY <1>1 DEF HandOf, ToLoad, Holding
  <2>3. head[c] + idx[c] = consHead /\ elems[c] - idx[c] = k
    BY <1>1, <1>2
  <2>4. Row(ring, consHead, k) \in Seq(Cell)
    BY <1>1, <1>2, <1>3, RowIs
  <2> QED
    BY <1>5, <2>1, <2>2, <2>3, <2>4, ConcatEmptySeq
<1>8. Asks[c].n = n[c] /\ Asks[c].whole = FALSE
  BY <1>1, Mapped DEF AskOf, Holding
<1>9. k <= n[c]
  <2>1. k \in 1 .. n[c]
    BY <1>0, <1>1 DEF IInv, Locals, LocalsOK, Reserving
  <2> QED
    BY <1>0, <2>1, Numbers
<1>10. Hands' = [Hands EXCEPT ![c] = SubSeq(Contents, 1, k)]
  BY <1>0, <1>1, <1>7, HandKept
<1>11. \E l \in 1 .. Len(Contents) :
         /\ l <= Asks[c].n
         /\ Asks[c].whole => l = Asks[c].n
         /\ Hands' = [Hands EXCEPT ![c] = SubSeq(Contents, 1, l)]
         /\ Contents' = SubSeq(Contents, l + 1, Len(Contents))
  <2>1. k \in 1 .. Len(Contents)
    BY <1>4, <1>5
  <2> QED
    BY <1>6, <1>8, <1>9, <1>10, <2>1
<1>12. Offers' = Offers /\ Asks' = [Asks EXCEPT ![c] = F!NoAsk]
  <2>1. AskOf(c)' = F!NoAsk
    BY <1>1 DEF AskOf, Holding, F!NoAsk
  <2> QED
    BY <1>0, <2>1, AskMoves
<1> QED
  BY <1>11, <1>12 DEF F!Take

(* Loading an item moves it within what the consumer has in hand.            *)
LEMMA DequeueLoads ==
  ASSUME IInv, NEW c \in Consumers, DeqLoad(c)
  PROVE  UNCHANGED F!fifoVars
<1>0. c \in Threads /\ TypeOK /\ OnlyMoves(c)
  BY Roles, ConsumerFrame DEF IInv, Dequeue
<1> DEFINE i == idx[c]
           at == head[c] + i
           k == elems[c] - i
           x == ring[Slot(at)]
<1>1. /\ UNCHANGED <<prodTail, consHead, ring, n, head, elems>>
      /\ pc[c] = "load" /\ Holding(c) /\ Holding(c)'
      /\ ptr'[c] = Append(ptr[c], x) /\ idx'[c] = i + 1
  BY <1>0 DEF DeqLoad, Goto, shared, TypeOK, Holding
<1>2. i \in Nat /\ head[c] \in Int /\ elems[c] \in Nat /\ i < elems[c]
  BY <1>0, <1>1, Numbers DEF IInv, Locals, LocalsOK
<1>3. at \in Int /\ k \in Nat /\ k >= 1
  <2> HIDE DEF i
  <2> QED
    BY <1>2
<1>4. ring \in [0 .. (Size - 1) -> Cell] /\ ptr[c] \in Seq(Cell) /\ x \in Cell
  BY <1>0, <1>3, SlotRange DEF TypeOK, Cell
<1>5. Append(ptr[c], x) \o Row(ring, at + 1, k - 1) = ptr[c] \o Row(ring, at, k)
  <2> HIDE DEF at, k
  <2> QED
    BY <1>3, <1>4, RowPush
<1>6. HandOf(c)' = HandOf(c)
  <2>1. HandOf(c) = ptr[c] \o Row(ring, at, k)
    BY <1>1 DEF HandOf, ToLoad
  <2>2. HandOf(c)' = Append(ptr[c], x) \o Row(ring, head[c] + (i + 1), elems[c] - (i + 1))
    BY <1>1 DEF HandOf, ToLoad
  <2>3. head[c] + (i + 1) = at + 1 /\ elems[c] - (i + 1) = k - 1
    <3> HIDE DEF i
    <3> QED
      BY <1>2
  <2> QED
    BY <1>5, <2>1, <2>2, <2>3
<1>7. AskOf(c)' = AskOf(c)
  BY <1>1 DEF AskOf
<1>8. Offers' = Offers /\ Asks' = Asks
  BY <1>0, <1>7, AskMoves, Mapped
<1>9. Contents' = Contents /\ Hands' = Hands
  BY <1>0, <1>1, <1>6, SameContents, HandKept, Mapped
<1> QED
  BY <1>8, <1>9 DEF F!fifoVars

LEMMA DequeuePublishes ==
  ASSUME IInv, NEW c \in Consumers, DeqPublish(c)
  PROVE  F!Deliver(c)
<1>0. c \in Threads /\ TypeOK /\ OnlyMoves(c)
  BY Roles, ConsumerFrame DEF IInv, Dequeue
<1>1. /\ Return(c) /\ pc[c] = "publish" /\ Holding(c)
      /\ UNCHANGED <<prodTail, consHead, ring>>
  BY <1>0 DEF DeqPublish, Holding
<1>2. /\ idx[c] = elems[c] /\ elems[c] \in 1 .. n[c] /\ Len(ptr[c]) = idx[c]
      /\ ptr[c] \in Seq(Cell) /\ elems[c] \in Nat /\ n[c] \in Nat /\ head[c] \in Int
      /\ ring \in [0 .. (Size - 1) -> Cell]
  BY <1>0, <1>1, Numbers DEF IInv, Locals, LocalsOK, ConsumerOK, Reserving, TypeOK, Cell
<1>3. Hands[c] # << >>
  <2> DEFINE rest == ToLoad(c)
  <2>1. rest \in Seq(Cell)
    <3>1. head[c] + idx[c] \in Int /\ elems[c] - idx[c] \in Nat
      BY <1>2
    <3> QED
      BY <1>2, <3>1, RowIs DEF ToLoad
  <2>2. ptr[c] # << >>
    BY <1>2, EmptySeq
  <2>3. Hands[c] = ptr[c] \o rest
    BY <1>1, Mapped DEF HandOf
  <2> HIDE DEF rest
  <2> QED
    BY <1>2, <2>1, <2>2, <2>3, ConcatEqualIffEmpty
<1>4. HandOf(c)' = << >>
  BY <1>0, <1>1, Returned DEF HandOf, Holding
<1>5. AskOf(c)' = AskOf(c)
  BY <1>0, <1>1, Returned DEF AskOf, Holding
<1>6. Offers' = Offers /\ Asks' = Asks
  BY <1>0, <1>5, AskMoves, Mapped
<1>7. Contents' = Contents /\ Hands' = [Hands EXCEPT ![c] = << >>]
  BY <1>0, <1>1, <1>4, SameContents, HandKept
<1> QED
  BY <1>3, <1>6, <1>7 DEF F!Deliver

-----------------------------------------------------------------------------
(* The refinement *)

LEMMA ObserversHidden ==
  ASSUME IInv, NEW o \in Observers, ObsCall(o) \/ Observe(o)
  PROVE  UNCHANGED F!fifoVars
<1>0. /\ o \in Threads /\ o \notin Producers /\ o \notin Consumers
      /\ OnlyMoves(o) /\ UNCHANGED shared
  BY Roles, ObserverFrame DEF IInv
<1>1. \A p \in Producers : OfferOf(p)' = OfferOf(p)
  BY <1>0, Roles DEF OnlyMoves, OfferOf
<1>2. \A c \in Consumers : AskOf(c)' = AskOf(c)
  BY <1>0, Roles DEF OnlyMoves, AskOf, Holding
<1>3. Contents' = Contents /\ Hands' = Hands
  BY <1>0, SameContents, HandKept DEF shared
<1> QED
  BY <1>1, <1>2, <1>3, Mapped, MappedThen DEF F!fifoVars

LEMMA FifoStarts == ASSUME Init PROVE Rests /\ F!FifoInit
<1>0. /\ \A t \in Threads : pc[t] = "idle" /\ ptr[t] = << >> /\ n[t] = 0
      /\ prodTail = 0 /\ consHead = 0
  BY DEF Init, InitAt
<1>1. Rests
  BY <1>0, Roles DEF Rests
<1>2. Contents = << >>
  <2>1. Dist(0, 0) = 0 /\ 0 \in Int /\ 0 \in Nat
    BY Zeros, DistSelf
  <2>2. TypeOK /\ ring \in [0 .. (Size - 1) -> Cell]
    BY InitType DEF TypeOK, Cell
  <2>3. Row(ring, 0, 0) \in Seq(Cell) /\ Len(Row(ring, 0, 0)) = 0
    BY <2>1, <2>2, RowIs
  <2> QED
    BY <1>0, <2>1, <2>3, Mapped, EmptySeq
<1>3. \A p \in Producers : OfferOf(p) = F!NoOffer
  BY <1>0, Roles DEF OfferOf, F!NoOffer
<1>4. \A c \in Consumers : AskOf(c) = F!NoAsk /\ HandOf(c) = << >>
  BY <1>0, Roles DEF AskOf, HandOf, Holding, F!NoAsk
<1> QED
  BY <1>1, <1>2, <1>3, <1>4, Mapped DEF F!FifoInit

LEMMA FifoSteps == ASSUME IInv, Rests, [Next]_vars PROVE [F!FifoNext]_(F!fifoVars)
<1>1. ASSUME NEW p \in Producers, EnqCall(p) \/ Enqueue(p) PROVE [F!FifoNext]_(F!fifoVars)
  BY <1>1, EnqCallOffers, EnqueueHidden, EnqueueRefused, EnqueueStores, EnqueuePublishes
     DEF Enqueue, F!FifoNext
<1>2. ASSUME NEW c \in Consumers, DeqCall(c) \/ Dequeue(c) PROVE [F!FifoNext]_(F!fifoVars)
  BY <1>2, DeqCallAsks, DequeueHidden, DequeueDeclined, DequeueReserves, DequeueLoads,
     DequeuePublishes DEF Dequeue, F!FifoNext
<1>3. ASSUME NEW o \in Observers, ObsCall(o) \/ Observe(o) PROVE [F!FifoNext]_(F!fifoVars)
  BY <1>3, ObserversHidden
<1>4. CASE UNCHANGED vars
  BY <1>4 DEF vars, F!fifoVars, Contents, Offers, Asks, Hands, Stored, Holding, Dist
<1> QED
  BY <1>1, <1>2, <1>3, <1>4 DEF Next

(* The lock-free queue is the bounded FIFO of alf_queue.h:8-14 to its        *)
(* callers, whichever CPUs run which of the four operations: items come out  *)
(* once each, in the order in which the calls that put them in published     *)
(* them, a call's items side by side.                                        *)
THEOREM Refinement == Spec => ImplementsFifo
<1>1. Init => Rests /\ F!FifoInit
  BY FifoStarts
<1>2. IInv /\ Rests /\ [Next]_vars => Rests' /\ [F!FifoNext]_(F!fifoVars)
  BY RestsStep, FifoSteps
<1> QED
  BY <1>1, <1>2, IInvAlways, PTL DEF Spec, ImplementsFifo, F!FifoSpec
=============================================================================
