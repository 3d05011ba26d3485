-------------------------- MODULE RingQueueProofs --------------------------
(* Proofs about RingQueue for every size, counter width, number of CPUs,     *)
(* choice of the flags and set of counts.                                    *)
(*                                                                           *)
(* Everything is measured from cons.tail: IInv says that the other counters  *)
(* follow it in order within Mask slots, and that the threads that hold      *)
(* slots have pieces of their own between them.  A reservation fits because  *)
(* the room was computed for a head that the cmpxchg finds unchanged, or     *)
(* that nobody else moves in a single ring.  The second half shows, under    *)
(* IInv and FifoInv, that the ring implements the bounded FIFO.              *)
EXTENDS RingQueue, SequenceTheorems, TLAPS

-----------------------------------------------------------------------------
(* u32 arithmetic *)

(* How far a is ahead of b.                                                  *)
Dist(a, b) == Wrap(a - b)

LEMMA WrapIs ==
  /\ \A x \in Int : Wrap(x) \in U32
  /\ \A x \in 0 .. (W - 1) : Wrap(x) = x
  /\ \A x \in W .. (2 * W - 1) : Wrap(x) = x - W
  /\ \A x \in (-W) .. (-1) : Wrap(x) = x + W
BY RingAssumption, SMT DEF Wrap, U32

LEMMA DistIs ==
  ASSUME NEW a \in U32, NEW b \in U32
  PROVE  /\ Dist(a, b) = IF b <= a THEN a - b ELSE a - b + W
         /\ Dist(a, b) \in 0 .. (W - 1)
BY WrapIs, RingAssumption, SMT DEF Dist, U32

LEMMA MovedIs ==
  ASSUME NEW a \in U32, NEW k \in 0 .. (W - 1)
  PROVE  /\ Wrap(a + k) = IF a + k < W THEN a + k ELSE a + k - W
         /\ Wrap(a + k) \in U32
BY WrapIs, RingAssumption, SMT DEF U32

(* The leading counter moves.                                                *)
LEMMA LeadMoves ==
  ASSUME NEW a \in U32, NEW b \in U32, NEW k \in Nat, Dist(a, b) + k < W
  PROVE  Wrap(a + k) \in U32 /\ Dist(Wrap(a + k), b) = Dist(a, b) + k
<1>1. k \in 0 .. (W - 1)  BY DistIs, RingAssumption, SMT
<1>2. /\ Wrap(a + k) = (IF a + k < W THEN a + k ELSE a + k - W)
      /\ Wrap(a + k) \in U32
  BY <1>1, MovedIs
<1>3. Dist(Wrap(a + k), b) = IF b <= Wrap(a + k) THEN Wrap(a + k) - b ELSE Wrap(a + k) - b + W
  BY <1>2, DistIs
<1>4. Dist(a, b) = IF b <= a THEN a - b ELSE a - b + W
  BY DistIs
<1> QED  BY <1>1, <1>2, <1>3, <1>4, RingAssumption, SMT DEF U32

(* The trailing counter moves.                                               *)
LEMMA TrailMoves ==
  ASSUME NEW a \in U32, NEW b \in U32, NEW k \in Nat, k <= Dist(a, b)
  PROVE  Wrap(b + k) \in U32 /\ Dist(a, Wrap(b + k)) = Dist(a, b) - k
<1>1. k \in 0 .. (W - 1)  BY DistIs, RingAssumption, SMT
<1>2. /\ Wrap(b + k) = (IF b + k < W THEN b + k ELSE b + k - W)
      /\ Wrap(b + k) \in U32
  BY <1>1, MovedIs
<1>3. Dist(a, Wrap(b + k)) = IF Wrap(b + k) <= a THEN a - Wrap(b + k) ELSE a - Wrap(b + k) + W
  BY <1>2, DistIs
<1>4. Dist(a, b) = IF b <= a THEN a - b ELSE a - b + W
  BY DistIs
<1> QED  BY <1>1, <1>2, <1>3, <1>4, RingAssumption, SMT DEF U32

LEMMA SameDist ==
  ASSUME NEW a \in U32, NEW b \in U32, NEW c \in U32, Dist(a, c) = Dist(b, c)
  PROVE  a = b
<1> DEFINE da == Dist(a, c)  db == Dist(b, c)
<1>1. da = IF c <= a THEN a - c ELSE a - c + W  BY DistIs
<1>2. db = IF c <= b THEN b - c ELSE b - c + W  BY DistIs
<1>3. da = db  OBVIOUS
<1>4. /\ W \in Nat /\ a \in Nat /\ b \in Nat /\ c \in Nat
      /\ a < W /\ b < W
  BY RingAssumption, SMT DEF U32
<1> HIDE DEF da, db
<1> QED  BY <1>1, <1>2, <1>3, <1>4, SMT

(* Of three counters the middle one divides the distance.                    *)
LEMMA Between ==
  ASSUME NEW a \in U32, NEW b \in U32, NEW c \in U32
  PROVE  /\ Dist(a, b) <= Dist(a, c) => Dist(b, c) = Dist(a, c) - Dist(a, b)
         /\ Dist(b, c) <= Dist(a, c) => Dist(a, b) = Dist(a, c) - Dist(b, c)
<1>1. Dist(a, b) = IF b <= a THEN a - b ELSE a - b + W  BY DistIs
<1>2. Dist(b, c) = IF c <= b THEN b - c ELSE b - c + W  BY DistIs
<1>3. Dist(a, c) = IF c <= a THEN a - c ELSE a - c + W  BY DistIs
<1> QED  BY <1>1, <1>2, <1>3, RingAssumption, SMT DEF U32

(* The room that a producer computes is exact for the head of the ring, and  *)
(* too large by what passed since for an earlier one.                        *)
LEMMA RoomIs ==
  ASSUME NEW h \in U32, NEW ph \in U32, NEW ct \in U32,
         Dist(ph, ct) <= Mask, Dist(ph, h) + Size < W
  PROVE  Wrap(Mask + ct - h) = Mask - Dist(ph, ct) + Dist(ph, h)
<1> DEFINE e == Mask - Dist(ph, ct) + Dist(ph, h)
<1>1. Dist(ph, ct) = IF ct <= ph THEN ph - ct ELSE ph - ct + W  BY DistIs
<1>2. Dist(ph, h) = IF h <= ph THEN ph - h ELSE ph - h + W  BY DistIs
<1>3. e \in 0 .. (W - 1)
  BY <1>1, <1>2, RingAssumption, SMT DEF U32, Mask
<1>4. \/ Mask + ct - h = e
      \/ Mask + ct - h = e + W /\ Mask + ct - h \in W .. (2 * W - 1)
      \/ Mask + ct - h = e - W /\ Mask + ct - h \in (-W) .. (-1)
  BY <1>1, <1>2, <1>3, RingAssumption, SMT DEF U32, Mask
<1> HIDE DEF e
<1>5. Wrap(Mask + ct - h) = e
  BY <1>3, <1>4, WrapIs, RingAssumption, SMT DEF Mask
<1> QED  BY <1>5 DEF e
-----------------------------------------------------------------------------
(* Slots *)

LEMMA Division ==
  ASSUME NEW x \in Int
  PROVE  /\ x \div Size \in Int /\ x % Size \in 0 .. Mask
         /\ x = Size * (x \div Size) + (x % Size)
BY RingAssumption, SMT DEF Mask

LEMMA SmallMultiple ==
  ASSUME NEW q \in Int, Size * q < Size, -Size < Size * q
  PROVE  q = 0
<1>1. CASE q >= 1  BY <1>1, RingAssumption, SMT
<1>2. CASE q <= -1  BY <1>2, RingAssumption, SMT
<1> QED  BY <1>1, <1>2

(* Numbers less than Size apart have different slots.                        *)
LEMMA SlotInjective ==
  ASSUME NEW x \in Int, NEW y \in Int, x % Size = y % Size, x - y < Size, y - x < Size
  PROVE  x = y
<1> DEFINE q == x \div Size - y \div Size
<1>1. q \in Int /\ x - y = Size * q
  BY Division, RingAssumption, SMT
<1>2. q = 0
  BY <1>1, SmallMultiple, RingAssumption, SMT
<1> QED  BY <1>1, <1>2, RingAssumption, SMT

LEMMA SlotOf ==
  ASSUME NEW q \in Int, NEW r \in 0 .. Mask
  PROVE  (Size * q + r) % Size = r
BY RingAssumption, SMT DEF Mask

(* A full turn of the u32 counter ends on the slot it started from.          *)
LEMMA SlotTurn == ASSUME NEW x \in Int PROVE (x + W) % Size = x % Size
<1>1. W = Size * (W \div Size) /\ W \div Size \in Int
  BY Division, RingAssumption
<1>2. x = Size * (x \div Size) + (x % Size) /\ x \div Size \in Int /\ x % Size \in 0 .. Mask
  BY Division
<1>3. x + W = Size * (x \div Size + W \div Size) + (x % Size)
  BY <1>1, <1>2, RingAssumption, SMT
<1> QED  BY <1>1, <1>2, <1>3, SlotOf

(* The slot of position a + k, counted from another counter b.               *)
LEMMA SlotFrom ==
  ASSUME NEW a \in U32, NEW b \in U32, NEW k \in Int
  PROVE  (a + k) % Size = (b + (Dist(a, b) + k)) % Size
<1>1. CASE b <= a
  BY <1>1, DistIs, SMT DEF U32
<1>2. CASE ~(b <= a)
  <2>1. Dist(a, b) = a - b + W
    BY <1>2, DistIs
  <2>2. b + (Dist(a, b) + k) = (a + k) + W
    BY <2>1, RingAssumption, SMT DEF U32
  <2> QED  BY <2>2, SlotTurn, SMT DEF U32
<1> QED  BY <1>1, <1>2

-----------------------------------------------------------------------------
(* The inductive invariant *)

Off(x)      == Dist(x, cons.tail)
Deciding(t) == pc[t] \in {"ldtail", "cas"}
Calling(t)  == pc[t] \in {"ldtail", "cas", "copy", "publish"}

(* What the parts of a call leave behind for the next ones.                  *)
LocalsOf(t) ==
    /\ Calling(t) => t \in Producers \cup Consumers
    /\ Calling(t) /\ t \in Producers => Len(tbl[t]) = loc[t].asked
    /\ pc[t] \in {"cas", "copy", "publish"} =>
          loc[t].n \in 1 .. loc[t].asked /\ loc[t].n <= loc[t].room
Locals ==
    /\ seen = [t \in Threads |-> seen[t]]
    /\ \A t \in Threads : LocalsOf(t)

(* The head that a call has loaded is not a turn of the counter old.         *)
Fresh(t) ==
    /\ Deciding(t) => Dist(prod.head, loc[t].head) + Size < W
    /\ Deciding(t) /\ t \in Consumers =>
          Dist(prod.head, cons.head) <= Dist(prod.head, loc[t].head)

(* The room that a call has computed is there, if the head is still the one. *)
Fits(t) ==
    /\ pc[t] = "cas" /\ t \in Producers =>
          loc[t].room <= Mask - Off(prod.head) + Dist(prod.head, loc[t].head)
    /\ pc[t] = "cas" /\ t \in Consumers => loc[t].room <= Dist(prod.tail, loc[t].head)

(* What is reserved lies between the tail and the head of its side.          *)
Piece(t) ==
    /\ Holding(t) /\ t \in Producers =>
         /\ Off(prod.tail) <= Off(loc[t].head)
         /\ Off(loc[t].head) + loc[t].n <= Off(prod.head)
         /\ Off(loc[t].head) + loc[t].room <= Mask
    /\ Holding(t) /\ t \in Consumers => Off(loc[t].head) + loc[t].n <= Off(cons.head)

(* Without cmpxchg the only caller of a side knows its head and tail.        *)
Knows(t, side) ==
    /\ Calling(t) => t \in Solo
    /\ Deciding(t) => loc[t].head = side.head
    /\ Holding(t) => loc[t].head = side.tail /\ Wrap(loc[t].head + loc[t].n) = side.head
Alone(t) ==
    /\ SingleProducer /\ t \in Producers => Knows(t, prod)
    /\ SingleConsumer /\ t \in Consumers => Knows(t, cons)

(* What the only producer has read of the free room, and the only consumer   *)
(* of the count, stays true until it uses it.                                *)
Looking(t) == pc[t] \in {"idle", "ldtail"}
Readings(t) ==
    /\ SingleProducer /\ t \in Producers =>
         /\ pc[t] = "read" => t \in Solo /\ loc[t].head = prod.head
         /\ Looking(t) => FreeSeen(t) \in 0 .. (Mask - Off(prod.head))
         /\ t \notin Solo => FreeSeen(t) = 0
    /\ SingleConsumer /\ t \in Consumers =>
         /\ pc[t] = "read" => t \in Solo /\ Off(loc[t].head) <= Off(prod.tail)
         /\ Looking(t) => CountSeen(t) \in 0 .. Off(prod.tail)
         /\ t \notin Solo => CountSeen(t) = 0

ThreadOK(t) == Fresh(t) /\ Fits(t) /\ Piece(t) /\ Alone(t) /\ Readings(t)

(* cons.tail, cons.head, prod.tail, prod.head: one slot stays free.          *)
Ordered ==
    /\ Off(cons.head) <= Off(prod.tail)
    /\ Off(prod.tail) <= Off(prod.head)
    /\ Off(prod.head) <= Mask

Before(t, u) == Off(loc[t].head) + loc[t].n <= Off(loc[u].head)
Apart ==
    \A t, u \in Threads : t # u /\ Holding(t) /\ Holding(u) => Before(t, u) \/ Before(u, t)

(* A single side that nobody holds slots of has published all.               *)
Published ==
    /\ SingleProducer /\ (\A p \in Producers : ~Holding(p)) => prod.tail = prod.head
    /\ SingleConsumer /\ (\A c \in Consumers : ~Holding(c)) => cons.tail = cons.head

IInv ==
    /\ TypeOK /\ Locals /\ Ordered /\ Apart /\ Published
    /\ \A t \in Threads : ThreadOK(t)

-----------------------------------------------------------------------------
(* Types *)

Labels == {"idle", "ldtail", "cas", "copy", "publish", "read"}
Locs   == [asked : Counts, fixed : BOOLEAN, head : U32, room : U32, n : U32, quota : BOOLEAN]

LEMMA Roles ==
  /\ \A p \in Producers : p \in Threads /\ p \notin Consumers
  /\ \A c \in Consumers : c \in Threads /\ c \notin Producers
BY SoloAssumption DEF Threads

LEMMA Numbers ==
  /\ Size \in Nat \ {0} /\ W \in Nat /\ W > 2 * Size /\ Mask \in Nat /\ Mask < W
  /\ Counts \subseteq Nat /\ U32 \subseteq Nat /\ 0 \in U32 /\ 0 \in Counts /\ Serials \in Nat \ {0}
BY RingAssumption, SMT DEF Counts, U32, Mask

LEMMA LocOf ==
  ASSUME TypeOK, NEW t \in Threads
  PROVE  loc[t] \in Locs
BY DEF TypeOK, Locs

LEMMA LocSet ==
  ASSUME NEW r \in Locs, NEW k \in Counts, NEW f \in BOOLEAN, NEW h \in U32, NEW m \in U32,
         NEW i \in U32
  PROVE  /\ [r EXCEPT !.asked = k, !.fixed = f, !.head = h] \in Locs
         /\ [r EXCEPT !.head = h, !.room = m, !.n = i] \in Locs
         /\ [r EXCEPT !.room = m, !.n = i] \in Locs
         /\ [r EXCEPT !.quota = f] \in Locs
         /\ [r EXCEPT !.head = h] \in Locs
BY DEF Locs

LEMMA Fitting ==
  ASSUME TypeOK, NEW t \in Threads, NEW room \in U32
  PROVE  /\ Fit(t, room) \in U32 /\ Fit(t, room) <= room
         /\ Fit(t, room) # 0 => Fit(t, room) \in 1 .. loc[t].asked
<1>1. loc[t].asked \in Counts /\ loc[t].fixed \in BOOLEAN
  BY LocOf DEF Locs
<1>2. loc[t].asked \in Nat /\ room \in Nat
  BY <1>1, Numbers
<1>3. Fit(t, room) \in {loc[t].asked, 0, room} /\ (Fit(t, room) # 0 => Fit(t, room) <= loc[t].asked)
       /\ Fit(t, room) <= room
  BY <1>1, <1>2, SMT DEF Fit
<1>4. W \in Nat /\ room <= W - 1  BY Numbers DEF U32
<1> QED  BY <1>2, <1>3, <1>4, SMT DEF U32

(* In an expression in which a call has no value the code's u32 has one.     *)
LEMMA Rooms ==
  ASSUME TypeOK, NEW t \in Threads
  PROVE  Free(t) \in U32 /\ Entries(t) \in U32
<1>1. Mask + cons.tail - loc[t].head \in Int /\ prod.tail - loc[t].head \in Int
  BY Numbers DEF TypeOK, U32
<1> QED  BY <1>1, WrapIs DEF Free, Entries

LEMMA InitTypes == ASSUME Init PROVE TypeOK
<1>1. NoCall \in Locs  BY Numbers, SMT DEF NoCall, Locs
<1>2. << >> \in Seq(Item \cup {NoItem})  OBVIOUS
<1>3. Size \in 1 .. Size /\ 0 \in 0 .. (Serials - 1)  BY Numbers, SMT
<1> QED  BY <1>1, <1>2, <1>3, Numbers DEF Init, TypeOK, Locs, Unseen

LEMMA CallTypes ==
  ASSUME TypeOK, Locals, NEW t \in Threads, NEW h \in U32, Call(t, h)
  PROVE  TypeOK'
<1>1. PICK k \in FixedCounts \cup BurstCounts, f \in BOOLEAN :
         /\ loc' = [loc EXCEPT ![t].asked = k, ![t].fixed = f, ![t].head = h]
         /\ tbl' = [tbl EXCEPT ![t] =
                      IF t \in Producers
                      THEN [j \in 1 .. k |-> <<t, (serial[t] + j - 1) % Serials>>]
                      ELSE << >>]
  BY DEF Call
<1>2. k \in Counts /\ k \in Nat  BY Numbers DEF Counts
<1>3. loc' \in [Threads -> Locs]
  <2>1. [loc[t] EXCEPT !.asked = k, !.fixed = f, !.head = h] \in Locs
    BY <1>2, LocOf, LocSet, Numbers
  <2>2. loc' = [loc EXCEPT ![t] = [loc[t] EXCEPT !.asked = k, !.fixed = f, !.head = h]]
    BY <1>1 DEF TypeOK
  <2> QED  BY <2>1, <2>2 DEF TypeOK, Locs
<1>4. ASSUME t \in Producers, NEW j \in 1 .. k
      PROVE  <<t, (serial[t] + j - 1) % Serials>> \in Item
  <2>1. serial[t] \in Nat  BY <1>4, Numbers DEF TypeOK
  <2>2. (serial[t] + j - 1) % Serials \in 0 .. (Serials - 1)
    BY <1>2, <2>1, Numbers, SMT
  <2> QED  BY <1>4, <2>2 DEF Item
<1>5. tbl' \in [Threads -> Seq(Item \cup {NoItem})]
  <2>1. CASE t \in Producers
    <3>1. [j \in 1 .. k |-> <<t, (serial[t] + j - 1) % Serials>>] \in Seq(Item \cup {NoItem})
      BY <1>2, <1>4, <2>1, SMT
    <3> QED  BY <1>1, <2>1, <3>1 DEF TypeOK
  <2>2. CASE t \notin Producers
    BY <1>1, <2>2 DEF TypeOK
  <2> QED  BY <2>1, <2>2
<1> QED  BY <1>3, <1>5 DEF Call, TypeOK, Goto, Locs

LEMMA ReturnTypes ==
  ASSUME TypeOK, Locals, NEW t \in Threads, Return(t)
  PROVE  /\ pc' \in [Threads -> Labels] /\ loc' \in [Threads -> Locs]
         /\ tbl' \in [Threads -> Seq(Item \cup {NoItem})]
         /\ \A u \in Threads : seen'[u].op \in {"none", "full", "empty", "count", "free"}
<1>1. NoCall \in Locs  BY Numbers, SMT DEF NoCall, Locs
<1>2. << >> \in Seq(Item \cup {NoItem})  OBVIOUS
<1>3. seen = [u \in Threads |-> seen[u]]  BY DEF Locals
<1> QED  BY <1>1, <1>2, <1>3 DEF TypeOK, Return, Goto, Labels, Locs, Unseen

LEMMA LoadTailTypes ==
  ASSUME TypeOK, Locals, NEW t \in Threads, NEW room \in U32, LoadTail(t, room)
  PROVE  TypeOK'
<1>1. CASE Return(t)
  BY <1>1, ReturnTypes DEF LoadTail, TypeOK, Labels, Locs
<1>2. CASE ~Return(t)
  <2>1. loc' = [loc EXCEPT ![t].room = room, ![t].n = Fit(t, room)]
    BY <1>2 DEF LoadTail
  <2>2. loc' \in [Threads -> Locs]
    <3>1. Fit(t, room) \in U32  BY Fitting
    <3>2. loc[t] \in Locs  BY DEF TypeOK, Locs
    <3>3. [loc[t] EXCEPT !.room = room, !.n = Fit(t, room)] \in Locs  BY <3>1, <3>2 DEF Locs
    <3> QED  BY <2>1, <3>3 DEF TypeOK, Locs
  <2> QED  BY <1>2, <2>2 DEF LoadTail, TypeOK, Goto, Locs
<1> QED  BY <1>1, <1>2

LEMMA RetryTypes ==
  ASSUME TypeOK, NEW t \in Threads, NEW h \in U32, NEW single, Retry(t, single, h)
  PROVE  TypeOK'
<1>1. [loc[t] EXCEPT !.head = h, !.room = 0, !.n = 0] \in Locs
  BY LocOf, LocSet, Numbers
<1>2. loc' = [loc EXCEPT ![t] = [loc[t] EXCEPT !.head = h, !.room = 0, !.n = 0]]
  BY DEF Retry, TypeOK
<1>3. loc' \in [Threads -> Locs]
  BY <1>1, <1>2 DEF TypeOK, Locs
<1> QED  BY <1>3 DEF Retry, TypeOK, Goto, Locs

(* Where a reservation ends.                                                 *)
LEMMA Ends ==
  ASSUME TypeOK, NEW t \in Threads
  PROVE  /\ loc[t].head \in U32 /\ loc[t].n \in Nat /\ loc[t].room \in Nat /\ loc[t].asked \in Nat
         /\ Wrap(loc[t].head + loc[t].n) \in U32
         /\ (loc[t].head + loc[t].n) % Size \in 0 .. Mask
<1>1. /\ loc[t].head \in U32 /\ loc[t].n \in U32 /\ loc[t].room \in U32
      /\ loc[t].asked \in Counts
  BY LocOf DEF Locs
<1>2. loc[t].head \in Nat /\ loc[t].n \in Nat  BY <1>1, Numbers
<1>3. loc[t].head + loc[t].n \in Int  BY <1>2
<1> QED  BY <1>1, <1>2, <1>3, Numbers, WrapIs, Division

LEMMA EnqReserveTypes ==
  ASSUME TypeOK, NEW p \in Producers, EnqReserve(p)
  PROVE  TypeOK'
<1>1. p \in Threads  BY Roles
<1>2. Wrap(loc[p].head + loc[p].n) \in U32  BY <1>1, Ends
<1>3. prod' \in [head : U32, tail : U32, watermark : 1 .. Size]
  BY <1>2 DEF EnqReserve, TypeOK
<1> QED  BY <1>1, <1>3 DEF EnqReserve, TypeOK, Goto

LEMMA EnqCopyTypes ==
  ASSUME TypeOK, Locals, NEW p \in Producers, EnqCopy(p)
  PROVE  TypeOK'
<1>1. p \in Threads  BY Roles
<1>2. ASSUME NEW s \in 0 .. Mask PROVE EnqueuePtrs(p)[s] \in Item \cup {NoItem}
  <2> DEFINE k == (s - loc[p].head) % Size
  <2>1. k \in Nat
    BY <1>1, Ends, Numbers, Division DEF U32
  <2>2. loc[p].n \in Nat /\ loc[p].n <= Len(tbl[p]) /\ tbl[p] \in Seq(Item \cup {NoItem})
    <3>1. loc[p].n \in 1 .. loc[p].asked /\ Len(tbl[p]) = loc[p].asked
      BY <1>1 DEF EnqCopy, Locals, LocalsOf, Calling
    <3> QED  BY <1>1, <3>1, Ends, SMT DEF TypeOK
  <2>3. ASSUME k < loc[p].n PROVE tbl[p][k + 1] \in Item \cup {NoItem}
    <3>1. k + 1 \in 1 .. Len(tbl[p])  BY <2>1, <2>2, <2>3, SMT
    <3> QED  BY <2>2, <3>1
  <2>4. ring[s] \in Item \cup {NoItem}  BY <1>2 DEF TypeOK
  <2> QED  BY <2>3, <2>4 DEF EnqueuePtrs
<1>3. ring' \in [0 .. Mask -> Item \cup {NoItem}]
  BY <1>2 DEF EnqCopy, EnqueuePtrs
<1>4. loc' = [loc EXCEPT ![p] = [loc[p] EXCEPT !.quota = Exceeds(p)]]
  BY DEF EnqCopy, TypeOK
<1>5. [loc[p] EXCEPT !.quota = Exceeds(p)] \in Locs
  <2>1. Exceeds(p) \in BOOLEAN  BY DEF Exceeds
  <2> QED  BY <1>1, <2>1, LocOf, LocSet, Numbers
<1>6. loc' \in [Threads -> Locs]
  BY <1>1, <1>4, <1>5 DEF TypeOK, Locs
<1> QED  BY <1>1, <1>3, <1>6 DEF EnqCopy, TypeOK, Goto, Locs

LEMMA EnqPublishTypes ==
  ASSUME TypeOK, Locals, NEW p \in Producers, EnqPublish(p)
  PROVE  TypeOK'
<1>1. p \in Threads  BY Roles
<1>2. Wrap(loc[p].head + loc[p].n) \in U32  BY <1>1, Ends
<1>3. prod' \in [head : U32, tail : U32, watermark : 1 .. Size]
  BY <1>2 DEF EnqPublish, TypeOK
<1>4. (serial[p] + loc[p].n) % Serials \in 0 .. (Serials - 1)
  <2>1. serial[p] + loc[p].n \in Nat
    BY <1>1, Ends, Numbers DEF TypeOK
  <2> QED  BY <2>1, Numbers, SMT
<1>5. serial' \in [Producers -> 0 .. (Serials - 1)]
  BY <1>4 DEF EnqPublish, TypeOK
<1> QED  BY <1>1, <1>3, <1>5, ReturnTypes DEF EnqPublish, TypeOK, Labels, Locs

LEMMA DeqReserveTypes ==
  ASSUME TypeOK, NEW c \in Consumers, DeqReserve(c)
  PROVE  TypeOK'
<1>1. c \in Threads  BY Roles
<1>2. Wrap(loc[c].head + loc[c].n) \in U32  BY <1>1, Ends
<1>3. cons' \in [head : U32, tail : U32]
  BY <1>2 DEF DeqReserve, TypeOK
<1> QED  BY <1>1, <1>3 DEF DeqReserve, TypeOK, Goto

LEMMA DeqCopyTypes ==
  ASSUME TypeOK, NEW c \in Consumers, DeqCopy(c)
  PROVE  TypeOK'
<1>1. c \in Threads  BY Roles
<1>2. loc[c].n \in Nat /\ loc[c].head \in Nat  BY <1>1, Ends, Numbers
<1>3. ASSUME NEW j \in 1 .. loc[c].n
      PROVE  ring[(loc[c].head + j - 1) % Size] \in Item \cup {NoItem}
  <2>1. loc[c].head + j - 1 \in Int  BY <1>2
  <2>2. (loc[c].head + j - 1) % Size \in 0 .. Mask  BY <2>1, Division
  <2> QED  BY <2>2 DEF TypeOK
<1>4. Stored(loc[c].head, loc[c].n) \in Seq(Item \cup {NoItem})
  BY <1>2, <1>3 DEF Stored
<1>5. tbl' \in [Threads -> Seq(Item \cup {NoItem})]
  BY <1>1, <1>4 DEF DeqCopy, TypeOK
<1> QED  BY <1>1, <1>5 DEF DeqCopy, TypeOK, Goto

LEMMA DeqPublishTypes ==
  ASSUME TypeOK, Locals, NEW c \in Consumers, DeqPublish(c)
  PROVE  TypeOK'
<1>1. c \in Threads  BY Roles
<1>2. Wrap(loc[c].head + loc[c].n) \in U32  BY <1>1, Ends
<1>3. cons' \in [head : U32, tail : U32]
  BY <1>2 DEF DeqPublish, TypeOK
<1> QED  BY <1>1, <1>3, ReturnTypes DEF DeqPublish, TypeOK, Labels, Locs

LEMMA ReadTypes ==
  ASSUME TypeOK, Locals, NEW t \in Observers, Read(t) \/ ReadReturn(t)
  PROVE  TypeOK'
<1>1. t \in Threads  BY DEF Threads
<1>2. seen = [u \in Threads |-> seen[u]]  BY DEF Locals
<1>3. CASE Read(t)
  <2>1. loc' = [loc EXCEPT ![t] = [loc[t] EXCEPT !.head = prod.tail]]
    BY <1>3 DEF Read, TypeOK
  <2>2. prod.tail \in U32  BY DEF TypeOK
  <2>3. [loc[t] EXCEPT !.head = prod.tail] \in Locs
    BY <1>1, <2>2, LocOf, LocSet, Numbers
  <2>4. loc' \in [Threads -> Locs]
    BY <1>1, <2>1, <2>3 DEF TypeOK, Locs
  <2>5. \A u \in Threads : seen'[u].op \in {"none", "full", "empty", "count", "free"}
    BY <1>1, <1>2, <1>3 DEF Read, TypeOK, Unseen
  <2> QED  BY <1>1, <1>3, <2>4, <2>5 DEF Read, TypeOK, Goto, Locs
<1>4. CASE ReadReturn(t)
  <2>1. NoCall \in Locs  BY Numbers, SMT DEF NoCall, Locs
  <2>2. loc' \in [Threads -> Locs]
    BY <1>1, <1>4, <2>1 DEF ReadReturn, TypeOK, Locs
  <2>3. \A u \in Threads : seen'[u].op \in {"none", "full", "empty", "count", "free"}
    BY <1>1, <1>2, <1>4 DEF ReadReturn, TypeOK
  <2> QED  BY <1>1, <1>4, <2>2, <2>3 DEF ReadReturn, TypeOK, Goto, Locs
<1> QED  BY <1>3, <1>4

LEMMA SetWaterMarkTypes ==
  ASSUME TypeOK, NEW count \in WaterMarks, SetWaterMark(count)
  PROVE  TypeOK'
<1>1. (IF count = 0 THEN Size ELSE count) \in 1 .. Size
  BY RingAssumption, SMT DEF SetWaterMark
<1>2. prod' \in [head : U32, tail : U32, watermark : 1 .. Size]
  BY <1>1 DEF SetWaterMark, TypeOK
<1> QED  BY <1>2 DEF SetWaterMark, TypeOK

-----------------------------------------------------------------------------
(* The counters, seen from cons.tail                                         *)

LEMMA CounterTypes ==
  ASSUME TypeOK
  PROVE  /\ prod.head \in U32 /\ prod.tail \in U32 /\ cons.head \in U32 /\ cons.tail \in U32
         /\ \A x \in U32 : Off(x) \in 0 .. (W - 1)
BY DistIs DEF TypeOK, Off

LEMMA DistSelf == ASSUME NEW a \in U32 PROVE Dist(a, a) = 0
BY DistIs, SMT DEF U32

LEMMA HeadsApart ==
  ASSUME TypeOK, Ordered
  PROVE  /\ Dist(prod.head, prod.tail) = Off(prod.head) - Off(prod.tail)
         /\ Dist(prod.head, cons.head) = Off(prod.head) - Off(cons.head)
         /\ Dist(prod.tail, cons.head) = Off(prod.tail) - Off(cons.head)
<1>1. /\ Off(cons.head) \in Nat /\ Off(prod.tail) \in Nat /\ Off(prod.head) \in Nat
  BY CounterTypes
<1>2. Off(cons.head) <= Off(prod.head)
  BY <1>1, SMT DEF Ordered
<1> QED  BY <1>2, CounterTypes, Between DEF Ordered, Off

(* A step of one thread leaves the others where they are.                    *)
OnlyMoves(t) ==
    \A u \in Threads \ {t} :
        pc'[u] = pc[u] /\ loc'[u] = loc[u] /\ tbl'[u] = tbl[u] /\ seen'[u] = seen[u]

SameCounters ==
    /\ flags' = flags /\ cons' = cons
    /\ prod'.head = prod.head /\ prod'.tail = prod.tail

LEMMA Elsewhere ==
  ASSUME SameCounters, NEW t \in Threads, OnlyMoves(t), NEW u \in Threads \ {t}, ThreadOK(u)
  PROVE  ThreadOK(u)'
<1>1. pc'[u] = pc[u] /\ loc'[u] = loc[u] /\ seen'[u] = seen[u]
  BY DEF OnlyMoves
<1>2. Fresh(u)'  BY <1>1 DEF ThreadOK, Fresh, SameCounters, Deciding
<1>3. Fits(u)'  BY <1>1 DEF ThreadOK, Fits, SameCounters, Off
<1>4. Piece(u)'  BY <1>1 DEF ThreadOK, Piece, SameCounters, Off, Holding
<1>5. Alone(u)'
  BY <1>1 DEF ThreadOK, Alone, Knows, SameCounters, Holding, Calling, Deciding,
              SingleProducer, SingleConsumer
<1>6. Readings(u)'
  BY <1>1 DEF ThreadOK, Readings, SameCounters, Looking, Off, FreeSeen, CountSeen,
              SingleProducer, SingleConsumer
<1> QED  BY <1>2, <1>3, <1>4, <1>5, <1>6 DEF ThreadOK

(* A step that moves no counter and takes no slots.                          *)
LEMMA QuietStep ==
  ASSUME IInv, TypeOK', SameCounters, NEW t \in Threads, OnlyMoves(t),
         (seen = [u \in Threads |-> seen[u]])', LocalsOf(t)', ThreadOK(t)',
         Holding(t)' <=> Holding(t),
         Holding(t) => loc'[t].head = loc[t].head /\ loc'[t].n = loc[t].n
  PROVE  IInv'
<1>1. Locals'
  BY DEF IInv, Locals, LocalsOf, OnlyMoves, Calling
<1>2. Ordered'  BY DEF IInv, Ordered, SameCounters, Off
<1>3. \A u \in Threads : Holding(u)' = Holding(u)
  BY DEF OnlyMoves, Holding
<1>4. \A u \in Threads : Holding(u) => loc'[u].head = loc[u].head /\ loc'[u].n = loc[u].n
  BY DEF OnlyMoves
<1>5. Apart'  BY <1>3, <1>4 DEF IInv, Apart, Before, SameCounters, Off
<1>6. Published'
  BY <1>3, Roles DEF IInv, Published, SameCounters, SingleProducer, SingleConsumer
<1>7. \A u \in Threads : ThreadOK(u)'
  BY Elsewhere DEF IInv
<1> QED  BY <1>1, <1>2, <1>5, <1>6, <1>7 DEF IInv

-----------------------------------------------------------------------------
(* The steps that move no counter                                            *)

LEMMA Zero == \A x \in Nat : 0 \in 0 .. x
OBVIOUS

LEMMA RoomsLeft ==
  ASSUME TypeOK, Ordered
  PROVE  Mask - Off(prod.head) \in Nat /\ Off(prod.tail) \in Nat
<1>1. Off(prod.head) \in Nat /\ Off(prod.tail) \in Nat  BY CounterTypes
<1> QED  BY <1>1, Numbers, SMT DEF Ordered

LEMMA EnqCallStep ==
  ASSUME IInv, NEW p \in Producers, Call(p, prod.head)
  PROVE  IInv'
<1>1. p \in Threads /\ p \notin Consumers  BY Roles
<1>2. TypeOK'
  BY <1>1, CallTypes, CounterTypes DEF IInv
<1>3. SameCounters /\ OnlyMoves(p)
  BY <1>1 DEF Call, Goto, SameCounters, OnlyMoves, IInv, TypeOK
<1>4. PICK k \in FixedCounts \cup BurstCounts, f \in BOOLEAN :
         /\ loc' = [loc EXCEPT ![p].asked = k, ![p].fixed = f, ![p].head = prod.head]
         /\ tbl' = [tbl EXCEPT ![p] = [j \in 1 .. k |-> <<p, (serial[p] + j - 1) % Serials>>]]
  BY DEF Call
<1>5. pc[p] = "idle" /\ pc'[p] = "ldtail" /\ seen' = seen
  BY <1>1 DEF Call, Goto, IInv, TypeOK
<1>6. loc'[p].head = prod.head /\ loc'[p].asked = k
  BY <1>1, <1>4 DEF IInv, TypeOK
<1>7. Len(tbl'[p]) = k
  <2>1. k \in Nat  BY Numbers DEF Counts
  <2> DEFINE items == [j \in 1 .. k |-> <<p, (serial[p] + j - 1) % Serials>>]
  <2>2. tbl'[p] = items  BY <1>1, <1>4 DEF IInv, TypeOK
  <2>3. Len(items) = k  BY <2>1, SMT
  <2> QED  BY <2>2, <2>3
<1>8. LocalsOf(p)'
  BY <1>1, <1>5, <1>6, <1>7 DEF LocalsOf, Calling
<1>9. prod'.head = prod.head  BY <1>3 DEF SameCounters
<1>10. Fresh(p)' /\ Fits(p)' /\ Piece(p)'
  <2>1. Dist(prod.head, prod.head) + Size < W
    <3>1. Dist(prod.head, prod.head) = 0  BY CounterTypes, DistSelf DEF IInv
    <3> QED  BY <3>1, Numbers, SMT
  <2> QED  BY <1>1, <1>5, <1>6, <1>9, <2>1 DEF Fresh, Fits, Piece, Holding, Deciding
<1>11. Alone(p)'
  <2>1. SingleProducer => p \in Solo
    BY DEF Call, MayCall
  <2> QED
    BY <1>1, <1>3, <1>5, <1>6, <2>1
    DEF Alone, Knows, SingleProducer, SameCounters, Holding, Deciding
<1>12. Readings(p)'
  <2>1. Readings(p) BY <1>1 DEF IInv, ThreadOK
  <2> QED
    BY <1>1, <1>3, <1>5, <2>1 DEF Readings, Looking, FreeSeen, SameCounters, SingleProducer, Off
<1> QED
  <2>1. (seen = [u \in Threads |-> seen[u]])'  BY <1>5 DEF IInv, Locals
  <2> QED
    BY <1>1, <1>2, <1>3, <1>5, <1>8, <1>10, <1>11, <1>12, <2>1, QuietStep DEF ThreadOK, Holding

LEMMA DeqCallStep ==
  ASSUME IInv, NEW c \in Consumers, Call(c, cons.head)
  PROVE  IInv'
<1>1. c \in Threads /\ c \notin Producers  BY Roles
<1>2. TypeOK'
  BY <1>1, CallTypes, CounterTypes DEF IInv
<1>3. SameCounters /\ OnlyMoves(c)
  BY <1>1 DEF Call, Goto, SameCounters, OnlyMoves, IInv, TypeOK
<1>4. PICK k \in FixedCounts \cup BurstCounts, f \in BOOLEAN :
         loc' = [loc EXCEPT ![c].asked = k, ![c].fixed = f, ![c].head = cons.head]
  BY DEF Call
<1>5. pc[c] = "idle" /\ pc'[c] = "ldtail" /\ seen' = seen
  BY <1>1 DEF Call, Goto, IInv, TypeOK
<1>6. loc'[c].head = cons.head
  BY <1>1, <1>4 DEF IInv, TypeOK
<1>7. LocalsOf(c)'
  BY <1>1, <1>5 DEF LocalsOf, Calling
<1>8. prod'.head = prod.head /\ cons'.head = cons.head  BY <1>3 DEF SameCounters
<1>9. Fresh(c)' /\ Fits(c)' /\ Piece(c)'
  <2>1. Dist(prod.head, cons.head) + Size < W
    <3>1. Off(cons.head) \in Nat /\ Off(prod.tail) \in Nat /\ Off(prod.head) \in Nat
      BY CounterTypes DEF IInv
    <3> QED  BY <3>1, HeadsApart, Numbers, SMT DEF IInv, Ordered, Mask
  <2>2. Dist(prod.head, cons.head) \in Nat  BY CounterTypes, DistIs DEF IInv
  <2> QED  BY <1>1, <1>5, <1>6, <1>8, <2>1, <2>2 DEF Fresh, Fits, Piece, Holding, Deciding
<1>10. Alone(c)'
  <2>1. SingleConsumer => c \in Solo
    BY DEF Call, MayCall
  <2> QED
    BY <1>1, <1>3, <1>5, <1>6, <2>1
    DEF Alone, Knows, SingleConsumer, SameCounters, Holding, Deciding
<1>11. Readings(c)'
  <2>1. Readings(c)  BY <1>1 DEF IInv, ThreadOK
  <2> QED
    BY <1>1, <1>3, <1>5, <2>1 DEF Readings, Looking, CountSeen, SameCounters, SingleConsumer, Off
<1> QED
  <2>1. (seen = [u \in Threads |-> seen[u]])'  BY <1>5 DEF IInv, Locals
  <2> QED
    BY <1>1, <1>2, <1>3, <1>5, <1>7, <1>9, <1>10, <1>11, <2>1, QuietStep DEF ThreadOK, Holding

(* A call that ends without slots: refused, or after its last store.         *)
LEMMA Returned ==
  ASSUME IInv, NEW t \in Threads, Return(t)
  PROVE  /\ OnlyMoves(t) /\ pc'[t] = "idle" /\ seen'[t].op = "none"
         /\ (seen = [u \in Threads |-> seen[u]])'
         /\ LocalsOf(t)' /\ Fresh(t)' /\ Fits(t)' /\ Piece(t)' /\ Alone(t)'
         /\ FreeSeen(t)' = 0 /\ CountSeen(t)' = 0
<1>1. /\ seen = [u \in Threads |-> seen[u]]
      /\ seen' = [seen EXCEPT ![t] = Unseen]
  BY DEF IInv, Locals, Return
<1>2. seen'[t] = Unseen  BY <1>1
<1>3. pc'[t] = "idle" /\ OnlyMoves(t)
  BY <1>1 DEF IInv, TypeOK, Return, Goto, OnlyMoves
<1>4. (seen = [u \in Threads |-> seen[u]])'  BY <1>1
<1>5. FreeSeen(t)' = 0 /\ CountSeen(t)' = 0
  BY <1>2 DEF FreeSeen, CountSeen, Unseen
<1> QED
  BY <1>2, <1>3, <1>4, <1>5
  DEF Unseen, LocalsOf, Fresh, Fits, Piece, Alone, Knows, Calling, Deciding, Holding

(* The test of the room: it gives up, or knows its room.                     *)
LEMMA RefusedStep ==
  ASSUME IInv, TypeOK', NEW t \in Threads, pc[t] = "ldtail", Return(t), SameCounters
  PROVE  IInv'
<1>1. Readings(t)'
  BY Returned, RoomsLeft, Zero DEF Readings, SameCounters, Off, IInv
<1> QED  BY <1>1, Returned, QuietStep DEF ThreadOK, Holding

LEMMA Loaded ==
  ASSUME IInv, NEW t \in Threads, NEW room \in U32, LoadTail(t, room), ~Return(t)
  PROVE  /\ pc[t] = "ldtail" /\ pc'[t] = "cas" /\ tbl' = tbl /\ seen' = seen
         /\ SameCounters /\ OnlyMoves(t)
         /\ loc'[t].head = loc[t].head /\ loc'[t].asked = loc[t].asked
         /\ loc'[t].room = room /\ loc'[t].n = Fit(t, room)
         /\ LocalsOf(t)'
<1>1. Fit(t, room) # 0  BY DEF LoadTail
<1>2. /\ pc[t] = "ldtail" /\ pc'[t] = "cas" /\ tbl' = tbl /\ seen' = seen
      /\ SameCounters /\ OnlyMoves(t)
      /\ loc'[t].head = loc[t].head /\ loc'[t].asked = loc[t].asked
      /\ loc'[t].room = room /\ loc'[t].n = Fit(t, room)
  BY DEF LoadTail, Goto, IInv, TypeOK, SameCounters, OnlyMoves
<1>3. LocalsOf(t)  BY DEF IInv, Locals
<1>4. Fit(t, room) \in 1 .. loc[t].asked /\ Fit(t, room) <= room
  BY <1>1, Fitting DEF IInv
<1> QED  BY <1>2, <1>3, <1>4 DEF LocalsOf, Calling

LEMMA EnqLoadTailStep ==
  ASSUME IInv, NEW p \in Producers, LoadTail(p, Free(p))
  PROVE  IInv'
<1>1. p \in Threads /\ p \notin Consumers  BY Roles
<1>2. Free(p) \in U32  BY <1>1, Rooms DEF IInv
<1>3. TypeOK'  BY <1>1, <1>2, LoadTailTypes DEF IInv
<1>4. CASE Return(p)
  BY <1>1, <1>3, <1>4, RefusedStep DEF LoadTail, SameCounters
<1>5. CASE ~Return(p)
  <2>1. /\ pc[p] = "ldtail" /\ pc'[p] = "cas" /\ tbl' = tbl /\ seen' = seen
        /\ SameCounters /\ OnlyMoves(p) /\ LocalsOf(p)'
        /\ loc'[p].head = loc[p].head /\ loc'[p].room = Free(p)
    BY <1>1, <1>2, <1>5, Loaded
  <2>2. Fresh(p) /\ Alone(p) /\ Readings(p)  BY <1>1 DEF IInv, ThreadOK
  <2>3. Free(p) = Mask - Off(prod.head) + Dist(prod.head, loc[p].head)
    <3>1. Dist(prod.head, cons.tail) <= Mask  BY DEF IInv, Ordered, Off
    <3>2. Dist(prod.head, loc[p].head) + Size < W
      BY <2>1, <2>2 DEF Fresh, Deciding
    <3>3. loc[p].head \in U32  BY <1>1, Ends DEF IInv
    <3> QED  BY <3>1, <3>2, <3>3, RoomIs, CounterTypes DEF IInv, Free, Off
  <2>4. Fits(p)'
    <3>1. Off(prod.head) \in Nat /\ Dist(prod.head, loc[p].head) \in Nat
      BY <1>1, CounterTypes, DistIs, Ends DEF IInv
    <3>2. Free(p) <= Mask - Off(prod.head) + Dist(prod.head, loc[p].head)
      BY <2>3, <3>1, Numbers, SMT
    <3> QED  BY <1>1, <2>1, <3>2 DEF Fits, SameCounters, Off
  <2>5. Fresh(p)' /\ Piece(p)' /\ Alone(p)' /\ Readings(p)'
    BY <1>1, <2>1, <2>2
    DEF Fresh, Piece, Alone, Knows, Readings, SameCounters, Deciding, Calling, Holding,
        Looking, SingleProducer, FreeSeen
  <2>6. (seen = [u \in Threads |-> seen[u]])'  BY <2>1 DEF IInv, Locals
  <2> QED
    BY <1>1, <1>3, <2>1, <2>4, <2>5, <2>6, QuietStep DEF ThreadOK, Holding
<1> QED  BY <1>4, <1>5

LEMMA DeqLoadTailStep ==
  ASSUME IInv, NEW c \in Consumers, LoadTail(c, Entries(c))
  PROVE  IInv'
<1>1. c \in Threads /\ c \notin Producers  BY Roles
<1>2. Entries(c) \in U32  BY <1>1, Rooms DEF IInv
<1>3. TypeOK'  BY <1>1, <1>2, LoadTailTypes DEF IInv
<1>4. CASE Return(c)
  BY <1>1, <1>3, <1>4, RefusedStep DEF LoadTail, SameCounters
<1>5. CASE ~Return(c)
  <2>1. /\ pc[c] = "ldtail" /\ pc'[c] = "cas" /\ tbl' = tbl /\ seen' = seen
        /\ SameCounters /\ OnlyMoves(c) /\ LocalsOf(c)'
        /\ loc'[c].head = loc[c].head /\ loc'[c].room = Entries(c)
    BY <1>1, <1>2, <1>5, Loaded
  <2>2. Fresh(c) /\ Alone(c) /\ Readings(c)  BY <1>1 DEF IInv, ThreadOK
  <2>3. Entries(c) \in Nat /\ Entries(c) = Dist(prod.tail, loc[c].head)
    BY <1>2, Numbers DEF Entries, Dist
  <2>4. Fits(c)'
    BY <1>1, <2>1, <2>3 DEF Fits, SameCounters, Off
  <2>5. Fresh(c)' /\ Piece(c)' /\ Alone(c)' /\ Readings(c)'
    BY <1>1, <2>1, <2>2
    DEF Fresh, Piece, Alone, Knows, Readings, SameCounters, Deciding, Calling, Holding,
        Looking, SingleConsumer, CountSeen
  <2>6. (seen = [u \in Threads |-> seen[u]])'  BY <2>1 DEF IInv, Locals
  <2> QED
    BY <1>1, <1>3, <2>1, <2>4, <2>5, <2>6, QuietStep DEF ThreadOK, Holding
<1> QED  BY <1>4, <1>5

LEMMA EnqRetryStep ==
  ASSUME IInv, NEW p \in Producers, Retry(p, SingleProducer, prod.head)
  PROVE  IInv'
<1>1. p \in Threads /\ p \notin Consumers  BY Roles
<1>2. TypeOK'  BY <1>1, RetryTypes, CounterTypes DEF IInv
<1>3. /\ pc[p] = "cas" /\ pc'[p] = "ldtail" /\ tbl' = tbl /\ seen' = seen
      /\ SameCounters /\ OnlyMoves(p) /\ ~SingleProducer
      /\ loc'[p].head = prod.head /\ loc'[p].asked = loc[p].asked
  BY <1>1 DEF Retry, Goto, IInv, TypeOK, SameCounters, OnlyMoves
<1>4. LocalsOf(p)'
  BY <1>1, <1>3 DEF IInv, Locals, LocalsOf, Calling
<1>5. prod'.head = prod.head  BY <1>3 DEF SameCounters
<1>6. Dist(prod.head, prod.head) + Size < W
  <2>1. Dist(prod.head, prod.head) = 0  BY CounterTypes, DistSelf DEF IInv
  <2> QED  BY <2>1, Numbers, SMT
<1>7. ThreadOK(p)'
  BY <1>1, <1>3, <1>5, <1>6
  DEF ThreadOK, Fresh, Fits, Piece, Alone, Readings, Deciding, Holding, SingleProducer,
      SameCounters
<1>8. (seen = [u \in Threads |-> seen[u]])'  BY <1>3 DEF IInv, Locals
<1> QED  BY <1>1, <1>2, <1>3, <1>4, <1>7, <1>8, QuietStep DEF Holding

LEMMA DeqRetryStep ==
  ASSUME IInv, NEW c \in Consumers, Retry(c, SingleConsumer, cons.head)
  PROVE  IInv'
<1>1. c \in Threads /\ c \notin Producers  BY Roles
<1>2. TypeOK'  BY <1>1, RetryTypes, CounterTypes DEF IInv
<1>3. /\ pc[c] = "cas" /\ pc'[c] = "ldtail" /\ tbl' = tbl /\ seen' = seen
      /\ SameCounters /\ OnlyMoves(c) /\ ~SingleConsumer
      /\ loc'[c].head = cons.head
  BY <1>1 DEF Retry, Goto, IInv, TypeOK, SameCounters, OnlyMoves
<1>4. LocalsOf(c)'
  BY <1>1, <1>3 DEF LocalsOf, Calling
<1>5. prod'.head = prod.head /\ cons'.head = cons.head  BY <1>3 DEF SameCounters
<1>6. Dist(prod.head, cons.head) + Size < W /\ Dist(prod.head, cons.head) \in Nat
  <2>1. Off(cons.head) \in Nat /\ Off(prod.tail) \in Nat /\ Off(prod.head) \in Nat
    BY CounterTypes DEF IInv
  <2> QED  BY <2>1, HeadsApart, Numbers, SMT DEF IInv, Ordered, Mask
<1>7. ThreadOK(c)'
  BY <1>1, <1>3, <1>5, <1>6
  DEF ThreadOK, Fresh, Fits, Piece, Alone, Readings, Deciding, Holding, SingleConsumer,
      SameCounters
<1>8. (seen = [u \in Threads |-> seen[u]])'  BY <1>3 DEF IInv, Locals
<1> QED  BY <1>1, <1>2, <1>3, <1>4, <1>7, <1>8, QuietStep DEF Holding

LEMMA EnqCopyStep ==
  ASSUME IInv, NEW p \in Producers, EnqCopy(p)
  PROVE  IInv'
<1>1. p \in Threads /\ p \notin Consumers  BY Roles
<1>2. TypeOK'  BY EnqCopyTypes DEF IInv
<1>3. /\ pc[p] = "copy" /\ pc'[p] = "publish" /\ tbl' = tbl /\ seen' = seen
      /\ SameCounters /\ OnlyMoves(p)
      /\ loc'[p].head = loc[p].head /\ loc'[p].asked = loc[p].asked
      /\ loc'[p].room = loc[p].room /\ loc'[p].n = loc[p].n
  BY <1>1 DEF EnqCopy, Goto, IInv, TypeOK, SameCounters, OnlyMoves
<1>4. LocalsOf(p)'
  BY <1>1, <1>3 DEF IInv, Locals, LocalsOf, Calling
<1>5. Piece(p) /\ Alone(p)  BY <1>1 DEF IInv, ThreadOK
<1>6. Fresh(p)' /\ Fits(p)' /\ Readings(p)'
  <2>1. Readings(p)  BY <1>1 DEF IInv, ThreadOK
  <2> QED
    BY <1>1, <1>3, <2>1
    DEF Fresh, Fits, Readings, Deciding, Looking, SingleProducer, SameCounters, FreeSeen
<1>7. Piece(p)'
  BY <1>1, <1>3, <1>5 DEF Piece, Holding, SameCounters, Off
<1>8. Alone(p)'
  BY <1>1, <1>3, <1>5
  DEF Alone, Knows, Holding, Calling, Deciding, SameCounters, SingleProducer
<1>9. (seen = [u \in Threads |-> seen[u]])'  BY <1>3 DEF IInv, Locals
<1> QED
  BY <1>1, <1>2, <1>3, <1>4, <1>6, <1>7, <1>8, <1>9, QuietStep DEF ThreadOK, Holding

LEMMA DeqCopyStep ==
  ASSUME IInv, NEW c \in Consumers, DeqCopy(c)
  PROVE  IInv'
<1>1. c \in Threads /\ c \notin Producers  BY Roles
<1>2. TypeOK'  BY DeqCopyTypes DEF IInv
<1>3. /\ pc[c] = "copy" /\ pc'[c] = "publish" /\ loc' = loc /\ seen' = seen
      /\ SameCounters /\ OnlyMoves(c)
  BY <1>1 DEF DeqCopy, Goto, IInv, TypeOK, SameCounters, OnlyMoves
<1>4. LocalsOf(c)'
  BY <1>1, <1>3 DEF IInv, Locals, LocalsOf, Calling
<1>5. Piece(c) /\ Alone(c)  BY <1>1 DEF IInv, ThreadOK
<1>6. Fresh(c)' /\ Fits(c)' /\ Readings(c)'
  <2>1. Readings(c)  BY <1>1 DEF IInv, ThreadOK
  <2> QED
    BY <1>1, <1>3, <2>1
    DEF Fresh, Fits, Readings, Deciding, Looking, SingleConsumer, SameCounters, CountSeen
<1>7. Piece(c)'
  BY <1>1, <1>3, <1>5 DEF Piece, Holding, SameCounters, Off
<1>8. Alone(c)'
  BY <1>1, <1>3, <1>5
  DEF Alone, Knows, Holding, Calling, Deciding, SameCounters, SingleConsumer
<1>9. (seen = [u \in Threads |-> seen[u]])'  BY <1>3 DEF IInv, Locals
<1> QED
  BY <1>1, <1>2, <1>3, <1>4, <1>6, <1>7, <1>8, <1>9, QuietStep DEF ThreadOK, Holding

(* A count modulo the size is the distance, when that is below the size.     *)
LEMMA SmallMod ==
  ASSUME NEW a \in U32, NEW b \in U32, Dist(a, b) <= Mask
  PROVE  /\ (a - b) % Size = Dist(a, b)
         /\ (b - a - 1) % Size = Mask - Dist(a, b)
<1>1. a - b \in Int /\ b - a - 1 \in Int  BY Numbers
<1>2. Dist(a, b) \in Nat /\ (Dist(a, b) = a - b \/ Dist(a, b) = a - b + W)
  BY DistIs
<1>3. Dist(a, b) \in 0 .. Mask /\ Mask - Dist(a, b) \in 0 .. Mask
  BY <1>2, Numbers, SMT
<1>4. \A d \in 0 .. Mask : d % Size = d
  BY RingAssumption, SMT DEF Mask
<1>5. (a - b) % Size = Dist(a, b)
  <2>1. (a - b + W) % Size = (a - b) % Size  BY <1>1, SlotTurn
  <2> QED  BY <1>2, <1>3, <1>4, <2>1
<1>6. (b - a - 1) % Size = Mask - Dist(a, b)
  <2>1. W = Size * (W \div Size) /\ W \div Size \in Int
    BY Division, RingAssumption
  <2>2. CASE Dist(a, b) = a - b
    <3>1. b - a - 1 = Size * (-1) + (Mask - Dist(a, b))
      BY <1>1, <1>2, <2>2, Numbers, SMT DEF Mask
    <3> QED  BY <1>3, <3>1, SlotOf
  <2>3. CASE Dist(a, b) = a - b + W
    <3>1. b - a - 1 = Size * (W \div Size - 1) + (Mask - Dist(a, b))
      BY <1>1, <1>2, <2>1, <2>3, Numbers, SMT DEF Mask
    <3> QED  BY <1>3, <2>1, <3>1, SlotOf
  <2> QED  BY <1>2, <2>2, <2>3
<1> QED  BY <1>5, <1>6

LEMMA OneProducer ==
  ASSUME IInv, SingleProducer, NEW p \in Producers, p \in Solo
  PROVE  \A q \in Producers \ {p} : ~Calling(q) /\ q \notin Solo
BY SoloAssumption, Roles DEF IInv, ThreadOK, Alone, Knows

LEMMA OneConsumer ==
  ASSUME IInv, SingleConsumer, NEW c \in Consumers, c \in Solo
  PROVE  \A d \in Consumers \ {c} : ~Calling(d) /\ d \notin Solo
BY SoloAssumption, Roles DEF IInv, ThreadOK, Alone, Knows

LEMMA ReadStep ==
  ASSUME IInv, NEW t \in Observers, Read(t)
  PROVE  IInv'
<1>1. t \in Threads  BY DEF Threads
<1>2. TypeOK'  BY ReadTypes DEF IInv
<1>3. /\ pc[t] = "idle" /\ pc'[t] = "read" /\ tbl' = tbl
      /\ SameCounters /\ loc'[t].head = prod.tail
  BY <1>1 DEF Read, Goto, IInv, TypeOK, SameCounters
<1>4. seen = [u \in Threads |-> seen[u]] /\ seen' = [seen EXCEPT ![t] = Unseen]
  BY DEF Read, IInv, Locals
<1>5. seen'[t] = Unseen /\ (seen = [u \in Threads |-> seen[u]])'
  BY <1>1, <1>4
<1>6. OnlyMoves(t)
  BY <1>1, <1>4 DEF Read, Goto, IInv, TypeOK, OnlyMoves
<1>7. FreeSeen(t)' = 0 /\ CountSeen(t)' = 0
  BY <1>5 DEF FreeSeen, CountSeen, Unseen
<1>8. LocalsOf(t)' /\ Fresh(t)' /\ Fits(t)' /\ Piece(t)' /\ Alone(t)'
  BY <1>3 DEF LocalsOf, Fresh, Fits, Piece, Alone, Knows, Deciding, Calling, Holding
<1>9. Readings(t)'
  <2>1. ASSUME SingleProducer, t \in Producers PROVE t \in Solo /\ prod.tail = prod.head
    <3>1. t \in Solo  BY <2>1 DEF Read, MayRead
    <3>2. \A p \in Producers : ~Holding(p)
      BY <1>3, <2>1, <3>1, OneProducer DEF Holding, Calling
    <3> QED  BY <2>1, <3>1, <3>2 DEF IInv, Published
  <2>2. t \in Consumers => t \in Solo  BY DEF Read, MayRead
  <2>3. Off(prod.tail) <= Off(prod.tail)  BY CounterTypes DEF IInv
  <2> QED
    BY <1>3, <1>7, <2>1, <2>2, <2>3 DEF Readings, SameCounters, SingleProducer, Looking, Off
<1> QED
  BY <1>1, <1>2, <1>3, <1>5, <1>6, <1>8, <1>9, QuietStep DEF ThreadOK, Holding

LEMMA ReadReturnStep ==
  ASSUME IInv, NEW t \in Observers, ReadReturn(t)
  PROVE  IInv'
<1>1. t \in Threads  BY DEF Threads
<1>2. TypeOK'  BY ReadTypes DEF IInv
<1>3. /\ pc[t] = "read" /\ pc'[t] = "idle" /\ tbl' = tbl /\ SameCounters
  BY <1>1 DEF ReadReturn, Goto, IInv, TypeOK, SameCounters
<1>4. PICK op \in {"full", "empty", "count", "free"} :
         seen' = [seen EXCEPT ![t] = [op |-> op, val |-> Reading(t)[op]]]
  BY DEF ReadReturn
<1>5. seen = [u \in Threads |-> seen[u]]  BY DEF IInv, Locals
<1>6. /\ seen'[t].op = op /\ seen'[t].val = Reading(t)[op]
      /\ (seen = [u \in Threads |-> seen[u]])'
  BY <1>1, <1>4, <1>5
<1>7. OnlyMoves(t)
  BY <1>1, <1>4, <1>5 DEF ReadReturn, Goto, IInv, TypeOK, OnlyMoves
<1>8. LocalsOf(t)' /\ Fresh(t)' /\ Fits(t)' /\ Piece(t)' /\ Alone(t)'
  BY <1>3 DEF LocalsOf, Fresh, Fits, Piece, Alone, Knows, Deciding, Calling, Holding
<1>9. Readings(t) /\ loc[t].head \in U32  BY <1>1, Ends DEF IInv, ThreadOK
<1>10. ASSUME SingleProducer, t \in Producers
       PROVE  t \in Solo /\ FreeSeen(t)' \in 0 .. (Mask - Off(prod.head))
  <2>1. t \in Solo /\ loc[t].head = prod.head
    BY <1>3, <1>9, <1>10 DEF Readings
  <2>2. (cons.tail - loc[t].head - 1) % Size = Mask - Off(prod.head)
    BY <2>1, SmallMod, CounterTypes DEF IInv, Ordered, Off
  <2>3. Mask - Off(prod.head) \in Nat  BY RoomsLeft DEF IInv
  <2> DEFINE m == Mask - Off(prod.head)
  <2>4. /\ op = "free" => seen'[t].val = m
        /\ op = "full" => seen'[t].val = (m = 0)
    BY <1>6, <2>2 DEF Reading
  <2> HIDE DEF m
  <2>5. /\ op = "free" => FreeSeen(t)' = m
        /\ op = "full" => FreeSeen(t)' = IF m = 0 THEN 0 ELSE 1
        /\ op \notin {"free", "full"} => FreeSeen(t)' = 0
    BY <1>6, <2>4 DEF FreeSeen
  <2>6. m \in Nat  BY <2>3 DEF m
  <2>7. FreeSeen(t)' \in 0 .. m
    BY <2>5, <2>6, SMT
  <2> QED  BY <2>1, <2>7 DEF m
<1>11. ASSUME SingleConsumer, t \in Consumers
       PROVE  t \in Solo /\ CountSeen(t)' \in 0 .. Off(prod.tail)
  <2> DEFINE m == Off(loc[t].head)
  <2>1. t \in Solo /\ m <= Off(prod.tail)
    BY <1>3, <1>9, <1>11 DEF Readings
  <2>2. m \in Nat /\ Off(prod.tail) \in Nat /\ Off(prod.head) \in Nat
    BY <1>9, CounterTypes DEF IInv
  <2>3. m <= Mask
    BY <2>1, <2>2, Numbers, SMT DEF IInv, Ordered
  <2>4. (loc[t].head - cons.tail) % Size = m
    BY <1>9, <2>3, SmallMod, CounterTypes DEF IInv, Off
  <2>5. cons.tail # loc[t].head => m # 0
    BY <1>9, SameDist, DistSelf, CounterTypes DEF IInv, Off
  <2>6. /\ op = "count" => seen'[t].val = m
        /\ op = "empty" => seen'[t].val = (cons.tail = loc[t].head)
    BY <1>6, <2>4 DEF Reading
  <2> HIDE DEF m
  <2>7. /\ op = "count" => CountSeen(t)' = m
        /\ op = "empty" => CountSeen(t)' = IF cons.tail = loc[t].head THEN 0 ELSE 1
        /\ op \notin {"count", "empty"} => CountSeen(t)' = 0
    BY <1>6, <2>6 DEF CountSeen
  <2>8. CountSeen(t)' \in 0 .. Off(prod.tail)
    BY <2>1, <2>2, <2>5, <2>7, SMT
  <2> QED  BY <2>1, <2>8
<1>12. Readings(t)'
  BY <1>3, <1>10, <1>11 DEF Readings, SameCounters, SingleProducer, SingleConsumer, Off
<1> QED
  BY <1>1, <1>2, <1>3, <1>6, <1>7, <1>8, <1>12, QuietStep DEF ThreadOK, Holding

LEMMA StutterTypes == ASSUME TypeOK, UNCHANGED vars PROVE TypeOK'
BY DEF vars, TypeOK

LEMMA SetWaterMarkStep ==
  ASSUME IInv, NEW count \in WaterMarks, SetWaterMark(count)
  PROVE  IInv'
<1>1. TypeOK'  BY SetWaterMarkTypes DEF IInv
<1>2. SameCounters /\ pc' = pc /\ loc' = loc /\ tbl' = tbl /\ seen' = seen
  BY DEF SetWaterMark, SameCounters, IInv, TypeOK
<1>3. ASSUME NEW t \in Threads PROVE IInv'
  <2>1. OnlyMoves(t)  BY <1>2 DEF OnlyMoves
  <2>2. LocalsOf(t)' /\ (seen = [u \in Threads |-> seen[u]])'
    BY <1>2 DEF IInv, Locals, LocalsOf, Calling
  <2>3. ThreadOK(t)'
    BY <1>2
    DEF IInv, ThreadOK, Fresh, Fits, Piece, Alone, Knows, Readings, SameCounters, Off,
        Deciding, Calling, Holding, Looking, FreeSeen, CountSeen, SingleProducer,
        SingleConsumer
  <2> QED  BY <1>1, <1>2, <2>1, <2>2, <2>3, QuietStep DEF Holding
<1>4. CASE Threads = {}
  BY <1>1, <1>2, <1>4, Roles
  DEF IInv, Locals, LocalsOf, Ordered, Apart, Published, SameCounters, Off, SingleProducer,
      SingleConsumer
<1> QED  BY <1>3, <1>4

LEMMA StutterStep == ASSUME IInv, UNCHANGED vars PROVE IInv'
<1>1. TypeOK'  BY StutterTypes DEF IInv
<1> QED
  BY <1>1
  DEF vars, IInv, Locals, LocalsOf, Ordered, Apart, Before, Published, ThreadOK, Fresh, Fits,
      Piece, Alone, Knows, Readings, Off, Deciding, Calling, Holding, Looking, FreeSeen,
      CountSeen, SingleProducer, SingleConsumer

-----------------------------------------------------------------------------
(* The steps that move a counter                                             *)

LEMMA EnqReserveStep ==
  ASSUME IInv, NEW p \in Producers, EnqReserve(p)
  PROVE  IInv'
<1> DEFINE k == loc[p].n
           ph == prod.head
           nh == Wrap(ph + k)
<1>1. p \in Threads /\ p \notin Consumers  BY Roles
<1>2. TypeOK'  BY EnqReserveTypes DEF IInv
<1>3. pc[p] = "cas" /\ Fresh(p) /\ Fits(p) /\ Alone(p)
  BY <1>1 DEF EnqReserve, IInv, ThreadOK
<1>4. loc[p].head = ph
  BY <1>3 DEF EnqReserve, Alone, Knows, Deciding
<1>5. /\ pc' = [pc EXCEPT ![p] = "copy"] /\ loc' = loc /\ tbl' = tbl /\ seen' = seen
      /\ flags' = flags /\ cons' = cons /\ prod'.head = nh /\ prod'.tail = prod.tail
  BY <1>4 DEF EnqReserve, Goto, IInv, TypeOK
<1>6. /\ ph \in U32 /\ prod.tail \in U32 /\ cons.head \in U32 /\ cons.tail \in U32
      /\ Off(ph) \in Nat /\ Off(prod.tail) \in Nat /\ Off(cons.head) \in Nat
  BY CounterTypes DEF IInv
<1>7. k \in Nat /\ k >= 1 /\ k <= loc[p].room /\ loc[p].room \in Nat /\ loc[p].asked \in Nat
  BY <1>1, <1>3, Ends DEF IInv, Locals, LocalsOf
<1>8. loc[p].room <= Mask - Off(ph)
  <2>1. Dist(ph, ph) = 0  BY <1>6, DistSelf
  <2> QED  BY <1>3, <1>4, <1>6, <2>1, Numbers, SMT DEF Fits
<1>9. nh \in U32 /\ Dist(nh, cons.tail) = Off(ph) + k
  <2>1. Dist(ph, cons.tail) + k < W
    BY <1>6, <1>7, <1>8, Numbers, SMT DEF Off
  <2> QED  BY <1>6, <1>7, <2>1, LeadMoves DEF Off
<1> HIDE DEF k, ph, nh
<1>10. \A x \in U32 : Off(x)' = Off(x)
  BY <1>5 DEF Off
<1>11. Off(prod.head)' = Off(ph) + k
  BY <1>5, <1>9 DEF Off
<1>12. Off(ph) + k <= Mask  BY <1>6, <1>7, <1>8, Numbers, SMT
<1>13. Off(prod.tail)' = Off(prod.tail) /\ Off(cons.head)' = Off(cons.head)
  BY <1>5 DEF Off
<1>14. Ordered'
  BY <1>6, <1>7, <1>11, <1>12, <1>13, SMT DEF IInv, Ordered, ph
<1>15. pc'[p] = "copy" /\ \A u \in Threads \ {p} : pc'[u] = pc[u]
  BY <1>1, <1>5 DEF IInv, TypeOK
<1>16. \A u \in Threads : loc[u].head \in U32 /\ loc[u].n \in Nat /\ loc[u].room \in Nat
  BY Ends DEF IInv
<1>17. Locals'
  BY <1>1, <1>3, <1>5, <1>15 DEF IInv, Locals, LocalsOf, Calling
<1>18. \A u \in Threads : loc'[u] = loc[u] /\ Off(loc[u].head)' = Off(loc[u].head)
  BY <1>5 DEF Off
<1>19. ASSUME NEW u \in Threads \ {p}, Holding(u) PROVE Before(u, p)
  <2>1. Piece(u) /\ u \in Producers \cup Consumers
    BY <1>19 DEF IInv, Locals, LocalsOf, ThreadOK, Holding, Calling
  <2>2. Off(loc[u].head) + loc[u].n <= Off(ph)
    <3>1. Off(loc[u].head) \in Nat  BY <1>16, CounterTypes DEF IInv
    <3> QED
      BY <1>6, <1>16, <1>19, <2>1, <3>1, SMT DEF Piece, IInv, Ordered, ph
  <2> QED  BY <1>4, <2>2 DEF Before
<1>20. Apart'
  <2>1. \A u \in Threads \ {p} : Holding(u)' = Holding(u)  BY <1>15 DEF Holding
  <2>2. \A t, u \in Threads : Before(t, u)' = Before(t, u)  BY <1>18 DEF Before
  <2> QED  BY <1>19, <2>1, <2>2 DEF IInv, Apart
<1>21. Published'
  <2>1. Holding(p)' /\ \A c \in Consumers : Holding(c)' = Holding(c)
    BY <1>1, <1>15, Roles DEF Holding
  <2> QED  BY <2>1, <1>5 DEF IInv, Published, SingleProducer, SingleConsumer
<1>22. ASSUME NEW u \in Threads \ {p} PROVE ThreadOK(u)'
  <2>1. ThreadOK(u) /\ loc[u].head \in U32  BY <1>16 DEF IInv
  <2>2. /\ Off(loc[u].head) \in Nat /\ Dist(ph, loc[u].head) \in Nat
        /\ Dist(ph, cons.head) \in Nat
    BY <1>6, <2>1, CounterTypes, DistIs DEF IInv
  <2>3. ASSUME Deciding(u)
        PROVE  /\ Dist(nh, loc[u].head) = Dist(ph, loc[u].head) + k
               /\ Dist(ph, loc[u].head) + k + Size < W
    <3>1. Dist(ph, loc[u].head) + k + Size < W
      BY <2>3 DEF EnqReserve, NotStale, Deciding, Dist, ph, k
    <3>2. Dist(ph, loc[u].head) + k < W  BY <1>7, <2>2, <3>1, Numbers, SMT
    <3> QED  BY <1>6, <1>7, <2>1, <3>1, <3>2, LeadMoves DEF nh
  <2>4. ASSUME Deciding(u), u \in Consumers
        PROVE  Dist(nh, cons.head) <= Dist(nh, loc[u].head)
    <3>1. Dist(ph, cons.head) <= Dist(ph, loc[u].head)
      BY <2>1, <2>4 DEF ThreadOK, Fresh, ph
    <3>2. Dist(ph, cons.head) + k < W
      BY <1>7, <2>2, <2>3, <2>4, <3>1, Numbers, SMT
    <3>3. Dist(nh, cons.head) = Dist(ph, cons.head) + k
      BY <1>6, <1>7, <3>2, LeadMoves DEF nh
    <3> QED  BY <1>7, <2>2, <2>3, <2>4, <3>1, <3>3, SMT
  <2>5. Fresh(u)'
    <3>1. Deciding(u) => Dist(nh, loc[u].head) + Size < W
      BY <1>7, <2>2, <2>3, Numbers, SMT
    <3> QED  BY <1>5, <1>15, <2>4, <3>1 DEF Fresh, Deciding
  <2>6. Fits(u)'
    <3>1. ASSUME pc[u] = "cas", u \in Producers
          PROVE  loc[u].room <= Mask - (Off(ph) + k) + Dist(nh, loc[u].head)
      <4>1. loc[u].room <= Mask - Off(ph) + Dist(ph, loc[u].head)
        BY <2>1, <3>1 DEF ThreadOK, Fits, ph
      <4> QED  BY <1>6, <1>7, <1>16, <2>2, <2>3, <3>1, <4>1, Numbers, SMT DEF Deciding
    <3> QED  BY <1>5, <1>11, <1>15, <2>1, <3>1 DEF ThreadOK, Fits
  <2>7. Piece(u)'
    <3>1. Off(loc[u].head) + loc[u].n <= Off(ph) => Off(loc[u].head) + loc[u].n <= Off(ph) + k
      BY <1>6, <1>7, <1>16, <2>2, SMT
    <3> QED
      BY <1>11, <1>13, <1>15, <1>18, <2>1, <3>1 DEF ThreadOK, Piece, Holding, ph
  <2>8. SingleProducer /\ u \in Producers => ~Calling(u) /\ u \notin Solo
    BY <1>3, OneProducer DEF Alone, Knows, Calling
  <2>9. Alone(u)'
    BY <1>5, <1>15, <1>18, <2>1, <2>8
    DEF ThreadOK, Alone, Knows, Calling, Deciding, Holding, SingleProducer, SingleConsumer
  <2>10. Readings(u)'
    <3>1. 0 \in 0 .. (Mask - (Off(ph) + k))
      BY <1>6, <1>7, <1>12, Numbers, SMT
    <3> QED
      BY <1>5, <1>11, <1>13, <1>15, <1>18, <2>1, <2>8, <3>1
      DEF ThreadOK, Readings, SingleProducer, SingleConsumer, Looking, FreeSeen, CountSeen
  <2> QED  BY <2>5, <2>6, <2>7, <2>9, <2>10 DEF ThreadOK
<1>23. ThreadOK(p)'
  <2>1. Fresh(p)' /\ Fits(p)'  BY <1>15 DEF Fresh, Fits, Deciding
  <2>2. Readings(p)'
    <3>1. Readings(p)  BY <1>1 DEF IInv, ThreadOK
    <3> QED
      BY <1>1, <1>5, <1>15, <3>1 DEF Readings, SingleProducer, Looking, FreeSeen
  <2>3. Piece(p)'
    <3>1. Off(prod.tail) <= Off(ph)  BY DEF IInv, Ordered, ph
    <3>2. Off(ph) + loc[p].room <= Mask  BY <1>6, <1>7, <1>8, Numbers, SMT
    <3>3. Off(ph) + k <= Off(ph) + k  BY <1>6, <1>7, SMT
    <3> QED
      BY <1>1, <1>4, <1>11, <1>13, <1>18, <3>1, <3>2, <3>3 DEF Piece, k
  <2>4. Alone(p)'
    <3>1. SingleProducer => p \in Solo
      BY <1>3 DEF Alone, Knows, Calling
    <3>2. ASSUME SingleProducer PROVE prod.tail = ph
      <4>1. \A q \in Producers : ~Holding(q)
        BY <1>3, <3>1, <3>2, OneProducer DEF Holding, Calling
      <4> QED  BY <3>2, <4>1 DEF IInv, Published, ph
    <3> QED
      BY <1>1, <1>4, <1>5, <1>15, <3>1, <3>2
      DEF Alone, Knows, Deciding, SingleProducer, nh, k
  <2> QED  BY <2>1, <2>2, <2>3, <2>4 DEF ThreadOK
<1> QED
  BY <1>2, <1>14, <1>17, <1>20, <1>21, <1>22, <1>23 DEF IInv

LEMMA DeqReserveStep ==
  ASSUME IInv, NEW c \in Consumers, DeqReserve(c)
  PROVE  IInv'
<1> DEFINE k == loc[c].n
           ch == cons.head
           nh == Wrap(ch + k)
<1>1. c \in Threads /\ c \notin Producers  BY Roles
<1>2. TypeOK'  BY DeqReserveTypes DEF IInv
<1>3. pc[c] = "cas" /\ Fresh(c) /\ Fits(c) /\ Alone(c)
  BY <1>1 DEF DeqReserve, IInv, ThreadOK
<1>4. loc[c].head = ch
  BY <1>3 DEF DeqReserve, Alone, Knows, Deciding
<1>5. /\ pc' = [pc EXCEPT ![c] = "copy"] /\ loc' = loc /\ tbl' = tbl /\ seen' = seen
      /\ flags' = flags /\ prod' = prod /\ cons'.head = nh /\ cons'.tail = cons.tail
  BY <1>4 DEF DeqReserve, Goto, IInv, TypeOK
<1>6. /\ prod.head \in U32 /\ prod.tail \in U32 /\ ch \in U32 /\ cons.tail \in U32
      /\ Off(prod.head) \in Nat /\ Off(prod.tail) \in Nat /\ Off(ch) \in Nat
  BY CounterTypes DEF IInv
<1>7. k \in Nat /\ k >= 1 /\ k <= loc[c].room /\ loc[c].room \in Nat /\ loc[c].asked \in Nat
  BY <1>1, <1>3, Ends DEF IInv, Locals, LocalsOf
<1>8. k <= Off(prod.tail) - Off(ch)
  <2>1. loc[c].room <= Dist(prod.tail, ch)
    BY <1>3, <1>4 DEF Fits
  <2>2. Dist(prod.tail, ch) = Off(prod.tail) - Off(ch)  BY HeadsApart DEF IInv
  <2> QED  BY <1>6, <1>7, <2>1, <2>2, SMT
<1>9. nh \in U32 /\ Dist(nh, cons.tail) = Off(ch) + k
  <2>1. Dist(ch, cons.tail) + k < W
    BY <1>6, <1>7, <1>8, Numbers, SMT DEF Off, IInv, Ordered
  <2> QED  BY <1>6, <1>7, <2>1, LeadMoves DEF Off
<1> HIDE DEF k, ch, nh
<1>10. Off(cons.head)' = Off(ch) + k  BY <1>5, <1>9 DEF Off
<1>11. Off(ch) + k <= Off(prod.tail)  BY <1>6, <1>7, <1>8, SMT
<1>12. Off(prod.tail)' = Off(prod.tail) /\ Off(prod.head)' = Off(prod.head)
  BY <1>5 DEF Off
<1>13. Ordered'
  BY <1>10, <1>11, <1>12 DEF IInv, Ordered
<1>14. pc'[c] = "copy" /\ \A u \in Threads \ {c} : pc'[u] = pc[u]
  BY <1>1, <1>5 DEF IInv, TypeOK
<1>15. \A u \in Threads : loc[u].head \in U32 /\ loc[u].n \in Nat /\ loc[u].room \in Nat
  BY Ends DEF IInv
<1>16. Locals'
  BY <1>1, <1>3, <1>5, <1>14 DEF IInv, Locals, LocalsOf, Calling
<1>17. \A u \in Threads : loc'[u] = loc[u] /\ Off(loc[u].head)' = Off(loc[u].head)
  BY <1>5 DEF Off
<1>18. ASSUME NEW u \in Threads \ {c}, Holding(u) PROVE Before(u, c) \/ Before(c, u)
  <2>1. Piece(u) /\ u \in Producers \cup Consumers
    BY <1>18 DEF IInv, Locals, LocalsOf, ThreadOK, Holding, Calling
  <2>2. CASE u \in Consumers
    BY <1>4, <1>18, <2>1, <2>2 DEF Piece, Before, ch
  <2>3. CASE u \in Producers
    <3>1. Off(prod.tail) <= Off(loc[u].head)  BY <1>18, <2>1, <2>3 DEF Piece
    <3>2. Off(loc[u].head) \in Nat  BY <1>15, CounterTypes DEF IInv
    <3>3. Off(ch) + k <= Off(loc[u].head)  BY <1>6, <1>7, <1>11, <3>1, <3>2, SMT
    <3> QED  BY <1>4, <3>3 DEF Before, k
  <2> QED  BY <2>1, <2>2, <2>3
<1>19. Apart'
  <2>1. \A u \in Threads \ {c} : Holding(u)' = Holding(u)  BY <1>14 DEF Holding
  <2>2. \A t, u \in Threads : Before(t, u)' = Before(t, u)  BY <1>17 DEF Before
  <2> QED  BY <1>18, <2>1, <2>2 DEF IInv, Apart
<1>20. Published'
  <2>1. Holding(c)' /\ \A p \in Producers : Holding(p)' = Holding(p)
    BY <1>1, <1>14, Roles DEF Holding
  <2> QED  BY <2>1, <1>5 DEF IInv, Published, SingleProducer, SingleConsumer
<1>21. ASSUME NEW u \in Threads \ {c} PROVE ThreadOK(u)'
  <2>1. ThreadOK(u) /\ loc[u].head \in U32  BY <1>15 DEF IInv
  <2>2. /\ Off(loc[u].head) \in Nat /\ Dist(prod.head, loc[u].head) \in Nat
        /\ Dist(prod.head, ch) \in Nat /\ Dist(prod.head, nh) \in Nat
    BY <1>6, <1>9, <2>1, CounterTypes, DistIs DEF IInv
  <2>3. Dist(prod.head, nh) <= Dist(prod.head, ch)
    <3>1. Dist(prod.head, ch) = Off(prod.head) - Off(ch)
      BY HeadsApart DEF IInv, ch
    <3>2. Dist(prod.head, nh) = Off(prod.head) - (Off(ch) + k)
      <4>1. Dist(nh, cons.tail) <= Dist(prod.head, cons.tail)
        BY <1>6, <1>7, <1>9, <1>11, SMT DEF Off, IInv, Ordered
      <4> QED  BY <1>6, <1>9, <4>1, Between DEF Off
    <3> QED  BY <1>6, <1>7, <3>1, <3>2, SMT
  <2>4. Fresh(u)'
    <3>1. Deciding(u) /\ u \in Consumers => Dist(prod.head, nh) <= Dist(prod.head, loc[u].head)
      BY <2>1, <2>2, <2>3, SMT DEF ThreadOK, Fresh, ch
    <3> QED  BY <1>5, <1>14, <2>1, <3>1 DEF ThreadOK, Fresh, Deciding
  <2>5. Fits(u)'
    BY <1>5, <1>12, <1>14, <2>1 DEF ThreadOK, Fits
  <2>6. Piece(u)'
    <3>1. Off(loc[u].head) + loc[u].n <= Off(ch) => Off(loc[u].head) + loc[u].n <= Off(ch) + k
      BY <1>6, <1>7, <1>15, <2>2, SMT
    <3> QED
      BY <1>10, <1>12, <1>14, <1>17, <2>1, <3>1 DEF ThreadOK, Piece, Holding, ch
  <2>7. SingleConsumer /\ u \in Consumers => ~Calling(u) /\ u \notin Solo
    BY <1>3, OneConsumer DEF Alone, Knows, Calling
  <2>8. Alone(u)'
    BY <1>5, <1>14, <1>17, <2>1, <2>7
    DEF ThreadOK, Alone, Knows, Calling, Deciding, Holding, SingleProducer, SingleConsumer
  <2>9. Readings(u)'
    BY <1>5, <1>12, <1>14, <1>17, <2>1
    DEF ThreadOK, Readings, SingleProducer, SingleConsumer, Looking, FreeSeen, CountSeen
  <2> QED  BY <2>4, <2>5, <2>6, <2>8, <2>9 DEF ThreadOK
<1>22. ThreadOK(c)'
  <2>1. Fresh(c)' /\ Fits(c)'  BY <1>14 DEF Fresh, Fits, Deciding
  <2>2. Readings(c)'
    <3>1. Readings(c)  BY <1>1 DEF IInv, ThreadOK
    <3> QED
      BY <1>1, <1>5, <1>14, <3>1 DEF Readings, SingleConsumer, Looking, CountSeen
  <2>3. Piece(c)'
    <3>1. Off(ch) + k <= Off(ch) + k  BY <1>6, <1>7, SMT
    <3> QED
      BY <1>1, <1>4, <1>10, <1>17, <3>1 DEF Piece, k
  <2>4. Alone(c)'
    <3>1. SingleConsumer => c \in Solo
      BY <1>3 DEF Alone, Knows, Calling
    <3>2. ASSUME SingleConsumer PROVE cons.tail = ch
      <4>1. \A d \in Consumers : ~Holding(d)
        BY <1>3, <3>1, <3>2, OneConsumer DEF Holding, Calling
      <4> QED  BY <3>2, <4>1 DEF IInv, Published, ch
    <3> QED
      BY <1>1, <1>4, <1>5, <1>14, <3>1, <3>2
      DEF Alone, Knows, Deciding, SingleConsumer, nh, k
  <2> QED  BY <2>1, <2>2, <2>3, <2>4 DEF ThreadOK
<1> QED
  BY <1>2, <1>13, <1>16, <1>19, <1>20, <1>21, <1>22 DEF IInv

LEMMA EnqPublishStep ==
  ASSUME IInv, NEW p \in Producers, EnqPublish(p)
  PROVE  IInv'
<1> DEFINE k == loc[p].n
           pt == prod.tail
           nt == Wrap(pt + k)
<1>1. p \in Threads /\ p \notin Consumers  BY Roles
<1>2. TypeOK'  BY EnqPublishTypes DEF IInv
<1>3. /\ OnlyMoves(p) /\ pc'[p] = "idle" /\ (seen = [u \in Threads |-> seen[u]])'
      /\ LocalsOf(p)' /\ Fresh(p)' /\ Fits(p)' /\ Piece(p)' /\ Alone(p)'
      /\ FreeSeen(p)' = 0
  BY <1>1, Returned DEF EnqPublish
<1>4. Holding(p) /\ Piece(p) /\ Alone(p)
  BY <1>1 DEF EnqPublish, IInv, ThreadOK, Holding
<1>5. loc[p].head = pt
  BY <1>4 DEF EnqPublish, Alone, Knows
<1>6. flags' = flags /\ cons' = cons /\ prod'.head = prod.head /\ prod'.tail = nt
  BY <1>5 DEF EnqPublish, IInv, TypeOK
<1>7. /\ prod.head \in U32 /\ pt \in U32 /\ cons.head \in U32 /\ cons.tail \in U32
      /\ Off(prod.head) \in Nat /\ Off(pt) \in Nat /\ Off(cons.head) \in Nat
  BY CounterTypes DEF IInv
<1>8. k \in Nat /\ k >= 1
  BY <1>1, <1>4, Ends, SMT DEF IInv, Locals, LocalsOf, Holding
<1>9. Off(pt) + k <= Off(prod.head)
  BY <1>1, <1>4, <1>5 DEF Piece
<1>10. nt \in U32 /\ Dist(nt, cons.tail) = Off(pt) + k
  <2>1. Dist(pt, cons.tail) + k < W
    BY <1>7, <1>8, <1>9, Numbers, SMT DEF Off, IInv, Ordered
  <2> QED  BY <1>7, <1>8, <2>1, LeadMoves DEF Off
<1> HIDE DEF k, pt, nt
<1>11. Off(prod.tail)' = Off(pt) + k  BY <1>6, <1>10 DEF Off
<1>12. Off(prod.head)' = Off(prod.head) /\ Off(cons.head)' = Off(cons.head)
  BY <1>6 DEF Off
<1>13. Ordered'
  <2>1. Off(cons.head) <= Off(pt) + k
    BY <1>7, <1>8, SMT DEF IInv, Ordered, pt
  <2> QED  BY <1>9, <1>11, <1>12, <2>1 DEF IInv, Ordered
<1>14. Locals'
  BY <1>3 DEF IInv, Locals, LocalsOf, OnlyMoves, Calling
<1>15. \A u \in Threads \ {p} :
         /\ pc'[u] = pc[u] /\ loc'[u] = loc[u] /\ seen'[u] = seen[u]
         /\ Holding(u)' = Holding(u) /\ Off(loc[u].head)' = Off(loc[u].head)
  BY <1>3, <1>6 DEF OnlyMoves, Holding, Off
<1>16. \A u \in Threads : loc[u].head \in U32 /\ loc[u].n \in Nat /\ loc[u].room \in Nat
  BY Ends DEF IInv
<1>17. Apart'
  <2>1. ~Holding(p)'  BY <1>3 DEF Holding
  <2>2. \A t, u \in Threads \ {p} : Before(t, u)' = Before(t, u)
    BY <1>15 DEF Before
  <2> QED  BY <1>15, <2>1, <2>2 DEF IInv, Apart
<1>18. SingleProducer => p \in Solo /\ nt = prod.head
  BY <1>1, <1>4, <1>5 DEF Alone, Knows, Holding, Calling, nt, k
<1>19. Published'
  <2>1. \A c \in Consumers : Holding(c)' = Holding(c)
    BY <1>1, <1>15, Roles
  <2> QED
    BY <1>6, <1>18, <2>1 DEF IInv, Published, SingleProducer, SingleConsumer
<1>20. ASSUME NEW u \in Threads \ {p} PROVE ThreadOK(u)'
  <2>1. ThreadOK(u) /\ loc[u].head \in U32  BY <1>16 DEF IInv
  <2>2. /\ Off(loc[u].head) \in Nat /\ Dist(prod.head, loc[u].head) \in Nat
        /\ Dist(pt, loc[u].head) \in Nat
    BY <1>7, <2>1, CounterTypes, DistIs DEF IInv
  <2>3. Fresh(u)'  BY <1>6, <1>15, <2>1 DEF ThreadOK, Fresh, Deciding
  <2>4. Fits(u)'
    <3>1. ASSUME pc[u] = "cas", u \in Consumers
          PROVE  Dist(nt, loc[u].head) = Dist(pt, loc[u].head) + k
      <4>1. /\ Dist(prod.head, cons.head) <= Dist(prod.head, loc[u].head)
            /\ Dist(prod.head, loc[u].head) + Size < W
        BY <2>1, <3>1 DEF ThreadOK, Fresh, Deciding
      <4>2. /\ Dist(prod.head, cons.head) = Off(prod.head) - Off(cons.head)
            /\ Dist(prod.head, pt) = Off(prod.head) - Off(pt)
        BY HeadsApart DEF IInv, pt
      <4>3. Dist(prod.head, pt) <= Dist(prod.head, loc[u].head)
        BY <1>7, <2>2, <4>1, <4>2, SMT DEF IInv, Ordered, pt
      <4>4. Dist(pt, loc[u].head) = Dist(prod.head, loc[u].head) - Dist(prod.head, pt)
        BY <1>7, <2>1, <4>3, Between
      <4>5. Dist(pt, loc[u].head) + k < W
        BY <1>7, <1>8, <1>9, <2>2, <4>1, <4>2, <4>4, Numbers, SMT
      <4> QED  BY <1>7, <1>8, <2>1, <4>5, LeadMoves DEF nt
    <3>2. pc[u] = "cas" /\ u \in Consumers => loc[u].room <= Dist(nt, loc[u].head)
      BY <1>8, <1>16, <2>1, <2>2, <3>1, SMT DEF ThreadOK, Fits, pt
    <3> QED  BY <1>6, <1>12, <1>15, <2>1, <3>2 DEF ThreadOK, Fits
  <2>5. Piece(u)'
    <3>1. ASSUME Holding(u), u \in Producers PROVE Off(pt) + k <= Off(loc[u].head)
      <4>1. Before(p, u) \/ Before(u, p)
        BY <1>1, <1>4, <3>1 DEF IInv, Apart
      <4>2. Off(pt) <= Off(loc[u].head)  BY <2>1, <3>1 DEF ThreadOK, Piece, pt
      <4>3. loc[u].n >= 1
        BY <1>16, <3>1, Ends, SMT DEF IInv, Locals, LocalsOf, Holding
      <4>4. ~Before(u, p)
        BY <1>5, <1>7, <1>16, <2>2, <4>2, <4>3, SMT DEF Before
      <4> QED  BY <1>5, <4>1, <4>4 DEF Before, k
    <3> QED
      BY <1>11, <1>12, <1>15, <2>1, <3>1 DEF ThreadOK, Piece
  <2>6. SingleProducer /\ u \in Producers => ~Calling(u)
    BY <1>18, OneProducer
  <2>7. Alone(u)'
    BY <1>6, <1>15, <2>1, <2>6
    DEF ThreadOK, Alone, Knows, Calling, Deciding, Holding, SingleProducer, SingleConsumer
  <2>8. Readings(u)'
    <3>1. \A x \in 0 .. Off(pt) : x \in 0 .. (Off(pt) + k)
      BY <1>7, <1>8, SMT
    <3>2. Off(loc[u].head) <= Off(pt) => Off(loc[u].head) <= Off(pt) + k
      BY <1>7, <1>8, <2>2, SMT
    <3> QED
      BY <1>6, <1>11, <1>12, <1>15, <2>1, <3>1, <3>2
      DEF ThreadOK, Readings, SingleProducer, SingleConsumer, Looking, FreeSeen, CountSeen, pt
  <2> QED  BY <2>3, <2>4, <2>5, <2>7, <2>8 DEF ThreadOK
<1>21. Readings(p)'
  <2>1. 0 \in 0 .. (Mask - Off(prod.head))  BY RoomsLeft DEF IInv
  <2> QED  BY <1>1, <1>3, <1>12, <2>1 DEF Readings
<1> QED
  BY <1>2, <1>3, <1>13, <1>14, <1>17, <1>19, <1>20, <1>21 DEF IInv, ThreadOK

LEMMA DeqPublishStep ==
  ASSUME IInv, NEW c \in Consumers, DeqPublish(c)
  PROVE  IInv'
<1> DEFINE k == loc[c].n
           nt == Wrap(cons.tail + k)
<1>1. c \in Threads /\ c \notin Producers  BY Roles
<1>2. TypeOK'  BY DeqPublishTypes DEF IInv
<1>3. /\ OnlyMoves(c) /\ pc'[c] = "idle" /\ (seen = [u \in Threads |-> seen[u]])'
      /\ LocalsOf(c)' /\ Fresh(c)' /\ Fits(c)' /\ Piece(c)' /\ Alone(c)'
      /\ CountSeen(c)' = 0
  BY <1>1, Returned DEF DeqPublish
<1>4. Holding(c) /\ Piece(c) /\ Alone(c)
  BY <1>1 DEF DeqPublish, IInv, ThreadOK, Holding
<1>5. loc[c].head = cons.tail
  BY <1>4 DEF DeqPublish, Alone, Knows
<1>6. flags' = flags /\ prod' = prod /\ cons'.head = cons.head /\ cons'.tail = nt
  BY <1>5 DEF DeqPublish, IInv, TypeOK
<1>7. /\ prod.head \in U32 /\ prod.tail \in U32 /\ cons.head \in U32 /\ cons.tail \in U32
      /\ Off(prod.head) \in Nat /\ Off(prod.tail) \in Nat /\ Off(cons.head) \in Nat
  BY CounterTypes DEF IInv
<1>8. k \in Nat /\ k >= 1
  BY <1>1, <1>4, Ends, SMT DEF IInv, Locals, LocalsOf, Holding
<1>9. Off(loc[c].head) = 0  BY <1>5, <1>7, DistSelf DEF Off
<1>10. k <= Off(cons.head)
  BY <1>1, <1>4, <1>7, <1>8, <1>9, SMT DEF Piece
<1> HIDE DEF k, nt
<1>11. ASSUME NEW x \in U32, k <= Off(x) PROVE Dist(x, nt) = Off(x) - k
  BY <1>7, <1>8, <1>11, TrailMoves DEF Off, nt
<1>12. k <= Off(prod.tail) /\ k <= Off(prod.head)
  BY <1>7, <1>8, <1>10, SMT DEF IInv, Ordered
<1>13. /\ Off(cons.head)' = Off(cons.head) - k
       /\ Off(prod.tail)' = Off(prod.tail) - k
       /\ Off(prod.head)' = Off(prod.head) - k
  BY <1>6, <1>7, <1>10, <1>11, <1>12 DEF Off
<1>14. Ordered'
  BY <1>7, <1>8, <1>13, Numbers, SMT DEF IInv, Ordered
<1>15. Locals'
  BY <1>3 DEF IInv, Locals, LocalsOf, OnlyMoves, Calling
<1>16. \A u \in Threads \ {c} :
         /\ pc'[u] = pc[u] /\ loc'[u] = loc[u] /\ seen'[u] = seen[u]
         /\ Holding(u)' = Holding(u)
  BY <1>3 DEF OnlyMoves, Holding
<1>17. \A u \in Threads : loc[u].head \in U32 /\ loc[u].n \in Nat /\ loc[u].room \in Nat
  BY Ends DEF IInv
<1>18. ASSUME NEW u \in Threads \ {c}, Holding(u)
       PROVE  /\ Off(loc[u].head) \in Nat /\ k <= Off(loc[u].head)
              /\ Off(loc[u].head)' = Off(loc[u].head) - k
  <2>1. loc[u].n >= 1
    BY <1>17, <1>18, Ends, SMT DEF IInv, Locals, LocalsOf, Holding
  <2>2. Off(loc[u].head) \in Nat  BY <1>17, CounterTypes DEF IInv
  <2>3. Before(c, u) \/ Before(u, c)
    BY <1>1, <1>4, <1>18 DEF IInv, Apart
  <2>4. ~Before(u, c)
    BY <1>9, <1>17, <2>1, <2>2, SMT DEF Before
  <2>5. k <= Off(loc[u].head)
    BY <1>8, <1>9, <2>2, <2>3, <2>4, SMT DEF Before, k
  <2> QED  BY <1>6, <1>11, <1>16, <1>17, <2>2, <2>5 DEF Off
<1>19. Apart'
  <2>1. ~Holding(c)'  BY <1>3 DEF Holding
  <2>2. \A t, u \in Threads \ {c} : Holding(t) /\ Holding(u) => (Before(t, u)' <=> Before(t, u))
    <3> SUFFICES ASSUME NEW t \in Threads \ {c}, NEW u \in Threads \ {c}, Holding(t), Holding(u)
                 PROVE  Before(t, u)' <=> Before(t, u)
      OBVIOUS
    <3>1. Off(loc[t].head)' = Off(loc[t].head) - k /\ Off(loc[t].head) \in Nat  BY <1>18
    <3>2. Off(loc[u].head)' = Off(loc[u].head) - k /\ Off(loc[u].head) \in Nat  BY <1>18
    <3>3. loc'[t] = loc[t] /\ loc[t].n \in Nat  BY <1>16, <1>17
    <3> QED  BY <1>8, <3>1, <3>2, <3>3, SMT DEF Before
  <2> QED  BY <1>16, <2>1, <2>2 DEF IInv, Apart
<1>20. SingleConsumer => c \in Solo /\ nt = cons.head
  BY <1>1, <1>4, <1>5 DEF Alone, Knows, Holding, Calling, nt, k
<1>21. Published'
  <2>1. \A p \in Producers : Holding(p)' = Holding(p)
    BY <1>1, <1>16, Roles
  <2> QED
    BY <1>6, <1>20, <2>1 DEF IInv, Published, SingleProducer, SingleConsumer
<1>22. ASSUME NEW u \in Threads \ {c} PROVE ThreadOK(u)'
  <2>1. ThreadOK(u) /\ loc[u].head \in U32  BY <1>17 DEF IInv
  <2>2. Dist(prod.head, loc[u].head) \in Nat  BY <1>7, <2>1, DistIs
  <2>3. Fresh(u)'  BY <1>6, <1>16, <2>1 DEF ThreadOK, Fresh, Deciding
  <2>4. Fits(u)'
    <3>1. pc[u] = "cas" /\ u \in Producers =>
            loc[u].room <= Mask - (Off(prod.head) - k) + Dist(prod.head, loc[u].head)
      BY <1>7, <1>8, <1>17, <2>1, <2>2, Numbers, SMT DEF ThreadOK, Fits
    <3> QED  BY <1>6, <1>13, <1>16, <2>1, <3>1 DEF ThreadOK, Fits
  <2>5. Piece(u)'
    <3>1. ASSUME Holding(u), u \in Producers
          PROVE  /\ Off(prod.tail)' <= Off(loc[u].head)'
                 /\ Off(loc[u].head)' + loc[u].n <= Off(prod.head)'
                 /\ Off(loc[u].head)' + loc[u].room <= Mask
      BY <1>7, <1>8, <1>13, <1>17, <1>18, <2>1, <3>1, Numbers, SMT DEF ThreadOK, Piece
    <3>2. ASSUME Holding(u), u \in Consumers
          PROVE  Off(loc[u].head)' + loc[u].n <= Off(cons.head)'
      BY <1>7, <1>8, <1>13, <1>17, <1>18, <2>1, <3>2, SMT DEF ThreadOK, Piece
    <3> QED  BY <1>16, <3>1, <3>2 DEF Piece
  <2>6. SingleConsumer /\ u \in Consumers => ~Calling(u) /\ u \notin Solo
    BY <1>20, OneConsumer
  <2>7. Alone(u)'
    BY <1>6, <1>16, <2>1, <2>6
    DEF ThreadOK, Alone, Knows, Calling, Deciding, Holding, SingleProducer, SingleConsumer
  <2>8. Readings(u)'
    <3>1. \A x \in 0 .. (Mask - Off(prod.head)) : x \in 0 .. (Mask - (Off(prod.head) - k))
      BY <1>7, <1>8, Numbers, SMT
    <3>2. 0 \in 0 .. (Off(prod.tail) - k)
      BY <1>7, <1>8, <1>12, SMT
    <3> QED
      BY <1>6, <1>13, <1>16, <2>1, <2>6, <3>1, <3>2
      DEF ThreadOK, Readings, SingleProducer, SingleConsumer, Looking, FreeSeen, CountSeen
  <2> QED  BY <2>3, <2>4, <2>5, <2>7, <2>8 DEF ThreadOK
<1>23. Readings(c)'
  <2>1. 0 \in 0 .. (Off(prod.tail) - k)
    BY <1>7, <1>8, <1>12, SMT
  <2> QED  BY <1>1, <1>3, <1>13, <2>1 DEF Readings
<1> QED
  BY <1>2, <1>3, <1>14, <1>15, <1>19, <1>21, <1>22, <1>23 DEF IInv, ThreadOK

-----------------------------------------------------------------------------
(* The invariant *)

LEMMA InitIInv == Init => IInv
<1> SUFFICES ASSUME Init PROVE IInv  OBVIOUS
<1>1. TypeOK  BY InitTypes
<1>2. /\ prod.head = 0 /\ prod.tail = 0 /\ cons.head = 0 /\ cons.tail = 0
      /\ \A t \in Threads : pc[t] = "idle" /\ seen[t] = Unseen
      /\ seen = [t \in Threads |-> Unseen]
  BY DEF Init
<1>3. Off(0) = 0  BY <1>2, DistSelf, Numbers DEF Off
<1>4. Locals /\ Ordered /\ Apart /\ Published
  BY <1>2, <1>3, Numbers
  DEF Locals, LocalsOf, Ordered, Apart, Published, Calling, Holding
<1>5. ASSUME NEW t \in Threads PROVE ThreadOK(t)
  <2>1. FreeSeen(t) = 0 /\ CountSeen(t) = 0
    BY <1>2 DEF FreeSeen, CountSeen, Unseen
  <2>2. 0 \in 0 .. (Mask - 0) /\ 0 \in 0 .. 0  BY Numbers, SMT
  <2> QED
    BY <1>2, <1>3, <2>1, <2>2
    DEF ThreadOK, Fresh, Fits, Piece, Alone, Knows, Readings, Deciding, Calling, Holding
<1> QED  BY <1>1, <1>4, <1>5 DEF IInv

LEMMA NextIInv == IInv /\ [Next]_vars => IInv'
<1> SUFFICES ASSUME IInv, [Next]_vars PROVE IInv'  OBVIOUS
<1>1. ASSUME NEW p \in Producers, Enqueue(p) PROVE IInv'
  BY <1>1, EnqCallStep, EnqLoadTailStep, EnqReserveStep, EnqRetryStep, EnqCopyStep,
     EnqPublishStep DEF Enqueue
<1>2. ASSUME NEW c \in Consumers, Dequeue(c) PROVE IInv'
  BY <1>2, DeqCallStep, DeqLoadTailStep, DeqReserveStep, DeqRetryStep, DeqCopyStep,
     DeqPublishStep DEF Dequeue
<1>3. ASSUME NEW t \in Observers, Read(t) \/ ReadReturn(t) PROVE IInv'
  BY <1>3, ReadStep, ReadReturnStep
<1>4. ASSUME NEW count \in WaterMarks, SetWaterMark(count) PROVE IInv'
  BY <1>4, SetWaterMarkStep
<1>5. CASE UNCHANGED vars  BY <1>5, StutterStep
<1> QED  BY <1>1, <1>2, <1>3, <1>4, <1>5 DEF Next

LEMMA RingInvariant == Spec => []IInv
BY InitIInv, NextIInv, PTL DEF Spec

-----------------------------------------------------------------------------
(* The theorems *)

(* The counters stay u32s, the slots of the array and the tables of the      *)
(* callers hold pointers, and the locals of a call keep their ranges, for    *)
(* all flags, fixed and burst calls.                                         *)
THEOREM TypeCorrect == Spec => []TypeOK
<1>1. IInv => TypeOK  BY DEF IInv
<1> QED  BY <1>1, RingInvariant, PTL

(* What a thread holds lies within the slots that are in use.                *)
LEMMA HeldFits ==
  ASSUME IInv, NEW t \in Threads, Holding(t)
  PROVE  /\ loc[t].head \in U32 /\ cons.tail \in U32 /\ loc[t].n \in Nat
         /\ Off(loc[t].head) \in Nat /\ Off(loc[t].head) + loc[t].n <= Mask
<1>1. Piece(t) /\ t \in Producers \cup Consumers /\ Ordered
  BY DEF IInv, Locals, LocalsOf, ThreadOK, Holding, Calling
<1>2. /\ loc[t].head \in U32 /\ cons.tail \in U32
      /\ Off(loc[t].head) \in Nat /\ loc[t].n \in Nat
      /\ Off(cons.head) \in Nat /\ Off(prod.tail) \in Nat /\ Off(prod.head) \in Nat
  BY Ends, CounterTypes DEF IInv
<1> QED  BY <1>1, <1>2, Numbers, SMT DEF Piece, Ordered

LEMMA HeldApart == ASSUME IInv PROVE SlotsExclusive
<1> SUFFICES ASSUME NEW t \in Threads, NEW u \in Threads, t # u, Holding(t), Holding(u),
                    NEW i \in 0 .. (loc[t].n - 1), NEW j \in 0 .. (loc[u].n - 1),
                    (loc[t].head + i) % Size = (loc[u].head + j) % Size
             PROVE  FALSE
  BY DEF SlotsExclusive, Slots
<1> DEFINE x == Off(loc[t].head)  y == Off(loc[u].head)
<1>1. /\ loc[t].head \in U32 /\ loc[u].head \in U32 /\ cons.tail \in U32
      /\ loc[t].n \in Nat /\ loc[u].n \in Nat /\ x \in Nat /\ y \in Nat
      /\ x + loc[t].n <= Mask /\ y + loc[u].n <= Mask
  BY HeldFits
<1>2. (loc[t].head + i) % Size = (cons.tail + (x + i)) % Size
  BY <1>1, SlotFrom DEF Off
<1>3. (loc[u].head + j) % Size = (cons.tail + (y + j)) % Size
  BY <1>1, SlotFrom DEF Off
<1>4. x + loc[t].n <= y \/ y + loc[u].n <= x
  BY DEF IInv, Apart, Before
<1> HIDE DEF x, y
<1>5. cons.tail \in Nat  BY <1>1, Numbers
<1>6. cons.tail + (x + i) = cons.tail + (y + j)
  <2>1. /\ cons.tail + (x + i) \in Int /\ cons.tail + (y + j) \in Int
        /\ (cons.tail + (x + i)) - (cons.tail + (y + j)) < Size
        /\ (cons.tail + (y + j)) - (cons.tail + (x + i)) < Size
    BY <1>1, <1>5, Numbers, SMT DEF Mask
  <2> QED  BY <1>2, <1>3, <2>1, SlotInjective
<1> QED  BY <1>1, <1>4, <1>5, <1>6, SMT

(* Two CPUs between their reservation and the move of their tail never have  *)
(* a slot of the array in common, however the counters wrap; without cmpxchg *)
(* on a side for as long as that side has one caller.                        *)
THEOREM NoSlotShared == Spec => []SlotsExclusive
BY HeldApart, RingInvariant, PTL

(* A copy that does not report has left no more pointers than the mark.      *)
LEMMA QuotaHonest ==
  ASSUME IInv, NEW p \in Producers, EnqCopy(p), ~Exceeds(p)
  PROVE  Wrap(loc[p].head + loc[p].n - cons.tail) <= prod.watermark
<1> DEFINE h == loc[p].head  n == loc[p].n  room == loc[p].room
<1>1. p \in Threads /\ Holding(p)  BY Roles DEF EnqCopy, Holding
<1>2. /\ h \in U32 /\ cons.tail \in U32 /\ n \in Nat /\ room \in Nat /\ Off(h) \in Nat
      /\ prod.watermark \in 1 .. Size
  BY <1>1, Ends, CounterTypes DEF IInv, TypeOK
<1>3. n <= room  BY <1>1 DEF IInv, Locals, LocalsOf, Holding
<1>4. Off(h) + room <= Mask  BY <1>1 DEF IInv, ThreadOK, Piece
<1>5. Wrap(Size - room + n) <= prod.watermark
  <2>1. Wrap(Size - room + n) \in U32
    BY <1>2, WrapIs, Numbers
  <2>2. Wrap(Size - room + n) \in Nat  BY <2>1, Numbers
  <2> QED  BY <1>2, <2>2, SMT DEF Exceeds
<1>6. h - cons.tail = Off(h) \/ h - cons.tail = Off(h) - W
  <2>1. Off(h) = IF cons.tail <= h THEN h - cons.tail ELSE h - cons.tail + W
    BY <1>2, DistIs DEF Off
  <2>2. h \in Nat /\ cons.tail \in Nat /\ W \in Nat  BY <1>2, Numbers
  <2> HIDE DEF h
  <2> QED  BY <2>1, <2>2, SMT
<1> HIDE DEF h, n, room
<1>7. Wrap(Size - room + n) = Size - room + n
  BY <1>2, <1>3, <1>4, WrapIs, Numbers, SMT DEF Mask
<1>8. Wrap(h + n - cons.tail) = Off(h) + n
  <2> DEFINE m == Off(h) + n
  <2>1. m \in 0 .. (W - 1) /\ W \in Nat
    BY <1>2, <1>3, <1>4, Numbers, SMT DEF Mask
  <2>2. h + n - cons.tail = m \/ h + n - cons.tail = m - W
    BY <1>2, <1>6, Numbers, SMT DEF U32
  <2> HIDE DEF m
  <2>3. m - W \in (-W) .. (-1)  BY <2>1, SMT
  <2>4. Wrap(m) = m /\ Wrap(m - W) = m - W + W
    BY <2>1, <2>3, WrapIs
  <2>5. Wrap(h + n - cons.tail) = m
    BY <2>1, <2>2, <2>4, SMT
  <2> QED  BY <2>5 DEF m
<1>9. Off(h) + n <= prod.watermark
  BY <1>2, <1>3, <1>4, <1>5, <1>7, Numbers, SMT DEF Mask
<1> QED  BY <1>8, <1>9 DEF h, n

(* A thread that comes from its copy to its publication has copied.          *)
LEMMA OnlyCopies ==
  ASSUME TypeOK, NEW p \in Producers, Next, pc[p] = "copy", pc'[p] = "publish"
  PROVE  EnqCopy(p)
<1>0. p \in Threads /\ p \notin Consumers  BY Roles
<1>1. ASSUME NEW q \in Producers, Enqueue(q) PROVE EnqCopy(p)
  <2>1. q \in Threads  BY Roles
  <2> QED
    BY <1>0, <1>1, <2>1
    DEF TypeOK, Enqueue, Call, LoadTail, Return, EnqReserve, Retry, EnqCopy, EnqPublish, Goto
<1>2. ASSUME NEW c \in Consumers, Dequeue(c) PROVE FALSE
  <2>1. c \in Threads /\ c # p  BY <1>0, Roles
  <2> QED
    BY <1>0, <1>2, <2>1
    DEF TypeOK, Dequeue, Call, LoadTail, Return, DeqReserve, Retry, DeqCopy, DeqPublish, Goto
<1>3. ASSUME NEW t \in Observers, Read(t) \/ ReadReturn(t) PROVE FALSE
  BY <1>0, <1>3 DEF TypeOK, Threads, Read, ReadReturn, Goto
<1>4. ASSUME NEW count \in WaterMarks, SetWaterMark(count) PROVE FALSE
  BY <1>4 DEF SetWaterMark
<1> QED  BY <1>1, <1>2, <1>3, <1>4 DEF Next

(* An enqueue that leaves more pointers in the ring than the watermark, as   *)
(* counted at its copy, reports it, however old its free_entries is and      *)
(* whenever the mark was moved before that.                                  *)
THEOREM QuotaReported == Spec => QuotaNeverMissed
<1>1. ASSUME IInv, Next, NEW p \in Producers, pc[p] = "copy", pc'[p] = "publish", ~loc'[p].quota
      PROVE  Wrap(loc[p].head + loc[p].n - cons.tail) <= prod.watermark
  <2>1. EnqCopy(p)  BY <1>1, OnlyCopies DEF IInv
  <2>2. loc'[p].quota = Exceeds(p)
    BY <2>1, <1>1, Roles DEF EnqCopy, IInv, TypeOK
  <2>3. (Wrap(loc[p].head + loc[p].n - cons.tail) <= prod.watermark)
    BY <1>1, <2>1, <2>2, QuotaHonest
  <2> QED  BY <2>3
<1>2. IInv /\ [Next]_vars =>
        [\A p \in Producers : pc[p] = "copy" /\ pc'[p] = "publish" /\ ~loc'[p].quota
            => Wrap(loc[p].head + loc[p].n - cons.tail) <= prod.watermark]_vars
  BY <1>1
<1> QED  BY <1>2, RingInvariant, PTL DEF Spec, QuotaNeverMissed

(* What the only producer has read of the free room, and the only consumer   *)
(* of the count, it can use: its next call for no more is not cut short,     *)
(* whatever the other side does in between.                                  *)
THEOREM ReadingsReliable == Spec => ReadingsKept
<1>1. ASSUME IInv, SingleProducer, NEW p \in Producers, pc[p] = "ldtail",
             Fit(p, Free(p)) < loc[p].asked
      PROVE  FreeSeen(p) < loc[p].asked
  <2>1. p \in Threads  BY Roles
  <2>2. /\ loc[p].asked \in Nat /\ loc[p].head \in U32 /\ Free(p) \in Nat
        /\ Off(prod.head) \in Nat /\ prod.head \in U32 /\ cons.tail \in U32
    <3>1. Free(p) \in U32  BY <1>1, <2>1, Rooms DEF IInv
    <3>2. Free(p) \in Nat  BY <3>1, Numbers
    <3> QED  BY <1>1, <2>1, <3>2, Ends, CounterTypes DEF IInv
  <2>3. loc[p].head = prod.head /\ FreeSeen(p) \in 0 .. (Mask - Off(prod.head))
    BY <1>1, <2>1 DEF IInv, ThreadOK, Alone, Knows, Readings, Deciding, Looking
  <2>4. Free(p) = Mask - Off(prod.head)
    <3>1. Dist(prod.head, prod.head) = 0  BY <2>2, DistSelf
    <3>2. Dist(prod.head, cons.tail) <= Mask /\ 0 + Size < W
      BY <1>1, Numbers, SMT DEF IInv, Ordered, Off
    <3>3. Free(p) = Mask - Dist(prod.head, cons.tail) + 0
      BY <2>2, <2>3, <3>1, <3>2, RoomIs DEF Free
    <3> QED  BY <2>2, <3>3, Numbers, SMT DEF Off
  <2>5. Free(p) < loc[p].asked
    BY <1>1, <2>2, SMT DEF Fit
  <2> QED  BY <2>2, <2>3, <2>4, <2>5, SMT
<1>2. ASSUME IInv, SingleConsumer, NEW c \in Consumers, pc[c] = "ldtail",
             Fit(c, Entries(c)) < loc[c].asked
      PROVE  CountSeen(c) < loc[c].asked
  <2>1. c \in Threads  BY Roles
  <2>2. /\ loc[c].asked \in Nat /\ loc[c].head \in U32 /\ Entries(c) \in Nat
        /\ Off(prod.tail) \in Nat
    <3>1. Entries(c) \in U32  BY <1>2, <2>1, Rooms DEF IInv
    <3>2. Entries(c) \in Nat  BY <3>1, Numbers
    <3> QED  BY <1>2, <2>1, <3>2, Ends, CounterTypes DEF IInv
  <2>3. loc[c].head = cons.head /\ CountSeen(c) \in 0 .. Off(prod.tail)
    BY <1>2, <2>1 DEF IInv, ThreadOK, Alone, Knows, Readings, Deciding, Looking
  <2>4. cons.head = cons.tail
    <3>1. c \in Solo  BY <1>2, <2>1 DEF IInv, ThreadOK, Alone, Knows, Calling
    <3>2. \A d \in Consumers : ~Holding(d)
      BY <1>2, <3>1, OneConsumer DEF Holding, Calling
    <3> QED  BY <1>2, <3>2 DEF IInv, Published
  <2>5. Entries(c) = Off(prod.tail)
    BY <2>3, <2>4 DEF Entries, Off, Dist
  <2>6. Entries(c) < loc[c].asked
    BY <1>2, <2>2, SMT DEF Fit
  <2> QED  BY <2>2, <2>3, <2>5, <2>6, SMT
<1>3. IInv =>
        /\ SingleProducer => \A p \in Producers :
             pc[p] = "ldtail" /\ Fit(p, Free(p)) < loc[p].asked => FreeSeen(p) < loc[p].asked
        /\ SingleConsumer => \A c \in Consumers :
             pc[c] = "ldtail" /\ Fit(c, Entries(c)) < loc[c].asked
                => CountSeen(c) < loc[c].asked
  BY <1>1, <1>2
<1> QED  BY <1>3, RingInvariant, PTL DEF ReadingsKept

-----------------------------------------------------------------------------
(* The bounded FIFO *)

Cell    == Item \cup {NoItem}
Slot(x) == x % Size

LEMMA SlotRange == ASSUME NEW x \in Int PROVE Slot(x) \in 0 .. Mask
BY Division DEF Slot

-----------------------------------------------------------------------------
(* Rows of the array *)

(* k slots of array r from position `from' on, as a sequence.                *)
Row(r, from, k) == [j \in 1 .. k |-> r[Slot(from + j - 1)]]

LEMMA RowIs ==
  ASSUME NEW r \in [0 .. Mask -> Cell], NEW from \in Int, NEW k \in Nat
  PROVE  /\ Row(r, from, k) \in Seq(Cell)
         /\ Len(Row(r, from, k)) = k
         /\ \A j \in 1 .. k : Row(r, from, k)[j] = r[Slot(from + j - 1)]
<1>1. ASSUME NEW j \in 1 .. k PROVE r[Slot(from + j - 1)] \in Cell
  <2>1. from + j - 1 \in Int
    OBVIOUS
  <2> QED
    BY <2>1, SlotRange
<1>2. Row(r, from, k) \in [1 .. k -> Cell]
  BY <1>1 DEF Row
<1>3. Row(r, from, k) \in Seq(Cell)
  BY <1>2, SeqDef
<1> QED
  BY <1>2, <1>3, LenProperties DEF Row

LEMMA RowSame ==
  ASSUME NEW r, NEW s, NEW from \in Int, NEW to \in Int, NEW k \in Nat,
         \A j \in 0 .. (k - 1) : r[Slot(from + j)] = s[Slot(to + j)]
  PROVE  Row(r, from, k) = Row(s, to, k)
<1>1. ASSUME NEW j \in 1 .. k PROVE r[Slot(from + j - 1)] = s[Slot(to + j - 1)]
  <2>1. j - 1 \in 0 .. (k - 1) /\ from + j - 1 = from + (j - 1) /\ to + j - 1 = to + (j - 1)
    OBVIOUS
  <2> QED
    BY <2>1
<1> QED
  BY <1>1 DEF Row

LEMMA RowConcat ==
  ASSUME NEW r \in [0 .. Mask -> Cell], NEW from \in Int, NEW k \in Nat, NEW l \in Nat
  PROVE  Row(r, from, k + l) = Row(r, from, k) \o Row(r, from + k, l)
<1> DEFINE a == Row(r, from, k)
           b == Row(r, from + k, l)
           all == Row(r, from, k + l)
<1>1. /\ a \in Seq(Cell) /\ Len(a) = k
      /\ \A j \in 1 .. k : a[j] = r[Slot(from + j - 1)]
  BY RowIs
<1>2. /\ b \in Seq(Cell) /\ Len(b) = l
      /\ \A j \in 1 .. l : b[j] = r[Slot(from + k + j - 1)]
  <2>1. from + k \in Int
    OBVIOUS
  <2> QED
    BY <2>1, RowIs
<1>3. /\ all \in Seq(Cell) /\ Len(all) = k + l
      /\ \A j \in 1 .. (k + l) : all[j] = r[Slot(from + j - 1)]
  <2>1. k + l \in Nat
    OBVIOUS
  <2> QED
    BY <2>1, RowIs
<1> HIDE DEF a, b, all
<1>4. /\ a \o b \in Seq(Cell) /\ Len(a \o b) = k + l
      /\ \A j \in 1 .. (k + l) : (a \o b)[j] = IF j <= k THEN a[j] ELSE b[j - k]
  <2>1. /\ a \o b \in Seq(Cell) /\ Len(a \o b) = Len(a) + Len(b)
        /\ \A j \in 1 .. (Len(a) + Len(b)) :
              (a \o b)[j] = IF j <= Len(a) THEN a[j] ELSE b[j - Len(a)]
    BY <1>1, <1>2, ConcatProperties
  <2> QED
    BY <1>1, <1>2, <2>1
<1>5. ASSUME NEW j \in 1 .. (k + l) PROVE all[j] = (a \o b)[j]
  <2>1. CASE j <= k
    <3>1. j \in 1 .. k
      BY <2>1
    <3> QED
      BY <1>1, <1>3, <1>4, <2>1, <3>1
  <2>2. CASE ~(j <= k)
    <3>1. j - k \in 1 .. l /\ from + k + (j - k) - 1 = from + j - 1
      BY <2>2
    <3>2. b[j - k] = r[Slot(from + j - 1)]
      BY <1>2, <3>1
    <3> QED
      BY <1>3, <1>4, <2>2, <3>2
  <2> QED
    BY <2>1, <2>2
<1>6. all = a \o b
  BY <1>3, <1>4, <1>5, SeqEqual
<1> QED
  BY <1>6 DEF a, b, all

LEMMA RowParts ==
  ASSUME NEW r \in [0 .. Mask -> Cell], NEW from \in Int, NEW m \in Nat, NEW k \in 1 .. m
  PROVE  /\ SubSeq(Row(r, from, m), 1, k) = Row(r, from, k)
         /\ SubSeq(Row(r, from, m), k + 1, m) = Row(r, from + k, m - k)
<1> DEFINE all == Row(r, from, m)
<1>1. /\ all \in Seq(Cell) /\ Len(all) = m
      /\ \A j \in 1 .. m : all[j] = r[Slot(from + j - 1)] /\ all[j] \in Cell
  BY RowIs, ElementOfSeq
<1> HIDE DEF all
<1>2. SubSeq(all, 1, k) = Row(r, from, k)
  <2> DEFINE a == Row(r, from, k)
  <2>1. /\ a \in Seq(Cell) /\ Len(a) = k
        /\ \A j \in 1 .. k : a[j] = r[Slot(from + j - 1)]
    <3>1. k \in Nat
      OBVIOUS
    <3> QED
      BY <3>1, RowIs
  <2> HIDE DEF a
  <2>2. \A j \in 1 .. k : all[j] \in Cell
    BY <1>1
  <2>3. /\ SubSeq(all, 1, k) \in Seq(Cell) /\ Len(SubSeq(all, 1, k)) = k
        /\ \A j \in 1 .. (k - 1 + 1) : SubSeq(all, 1, k)[j] = all[1 + j - 1]
    BY <2>2, SubSeqProperties
  <2>4. \A j \in 1 .. k : SubSeq(all, 1, k)[j] = a[j]
    BY <1>1, <2>1, <2>3
  <2>5. SubSeq(all, 1, k) = a
    BY <2>1, <2>3, <2>4, SeqEqual
  <2> QED
    BY <2>5 DEF a
<1>3. SubSeq(all, k + 1, m) = Row(r, from + k, m - k)
  <2> DEFINE b == Row(r, from + k, m - k)
  <2>1. /\ b \in Seq(Cell) /\ Len(b) = m - k
        /\ \A j \in 1 .. (m - k) : b[j] = r[Slot(from + k + j - 1)]
    <3>1. from + k \in Int /\ m - k \in Nat
      OBVIOUS
    <3> QED
      BY <3>1, RowIs
  <2> HIDE DEF b
  <2>2. \A j \in (k + 1) .. m : all[j] \in Cell
    BY <1>1
  <2>3. /\ SubSeq(all, k + 1, m) \in Seq(Cell)
        /\ Len(SubSeq(all, k + 1, m)) = IF k + 1 <= m THEN m - (k + 1) + 1 ELSE 0
        /\ \A j \in 1 .. (m - (k + 1) + 1) : SubSeq(all, k + 1, m)[j] = all[(k + 1) + j - 1]
    BY <2>2, SubSeqProperties
  <2>4. Len(SubSeq(all, k + 1, m)) = m - k
    BY <2>3
  <2>5. ASSUME NEW j \in 1 .. (m - k) PROVE SubSeq(all, k + 1, m)[j] = b[j]
    <3>1. /\ j \in 1 .. (m - (k + 1) + 1) /\ (k + 1) + j - 1 \in 1 .. m
          /\ from + ((k + 1) + j - 1) - 1 = from + k + j - 1
      OBVIOUS
    <3> QED
      BY <1>1, <2>1, <2>3, <3>1
  <2>6. SubSeq(all, k + 1, m) = b
    BY <2>1, <2>3, <2>4, <2>5, SeqEqual
  <2> QED
    BY <2>6 DEF b
<1> QED
  BY <1>2, <1>3 DEF all

(* Where a row starts is the same place before and after a turn of u32.      *)
LEMMA RowWraps ==
  ASSUME NEW r, NEW h \in U32, NEW k \in 0 .. (W - 1), NEW l \in Nat
  PROVE  Row(r, Wrap(h + k), l) = Row(r, h + k, l)
<1> DEFINE x == h + k
           y == Wrap(h + k)
<1>1. /\ x \in Int /\ y \in Int
      /\ y = x \/ y + W = x
  <2>1. Wrap(h + k) = (IF h + k < W THEN h + k ELSE h + k - W) /\ h \in Int /\ k \in Int
    BY MovedIs, RingAssumption DEF U32
  <2> QED
    BY <2>1, RingAssumption
<1> HIDE DEF x, y
<1>2. ASSUME NEW j \in 0 .. (l - 1) PROVE Slot(y + j) = Slot(x + j)
  <2>1. CASE y = x
    BY <2>1
  <2>2. CASE y + W = x
    <3>1. y + j \in Int /\ (y + j) + W = x + j
      BY <1>1, <2>2, RingAssumption
    <3>2. Slot((y + j) + W) = Slot(y + j)
      BY <3>1, SlotTurn DEF Slot
    <3> QED
      BY <3>1, <3>2
  <2> QED
    BY <1>1, <2>1, <2>2
<1>3. Row(r, y, l) = Row(r, x, l)
  BY <1>1, <1>2, RowSame
<1> QED
  BY <1>3 DEF x, y
(* What a thread's step can change of the FIFO *)

OfferOf(p) == [items |-> tbl[p], whole |-> loc[p].fixed]
AskOf(c)   == IF Holding(c) THEN [n |-> 0, whole |-> FALSE]
                            ELSE [n |-> loc[c].asked, whole |-> loc[c].fixed]
HandOf(c)  == IF Holding(c) THEN Row(ring, loc[c].head, loc[c].n) ELSE << >>

LEMMA Mapped ==
  /\ Contents = Row(ring, cons.head, Dist(prod.tail, cons.head))
  /\ Offers = [p \in Producers |-> OfferOf(p)]
  /\ Asks = [c \in Consumers |-> AskOf(c)]
  /\ Hands = [c \in Consumers |-> HandOf(c)]
BY DEF Contents, Offers, Asks, Hands, Stored, Row, Slot, Dist, OfferOf, AskOf, HandOf

LEMMA MappedThen ==
  /\ Contents' = Row(ring', cons'.head, Dist(prod'.tail, cons'.head))
  /\ Offers' = [p \in Producers |-> OfferOf(p)']
  /\ Asks' = [c \in Consumers |-> AskOf(c)']
  /\ Hands' = [c \in Consumers |-> HandOf(c)']
BY DEF Contents, Offers, Asks, Hands, Stored, Row, Slot, Dist, OfferOf, AskOf, HandOf, Holding

LEMMA SameContents ==
  ASSUME ring' = ring, prod'.tail = prod.tail, cons'.head = cons.head
  PROVE  Contents' = Contents
BY Mapped, MappedThen

LEMMA OfferMoves ==
  ASSUME NEW p \in Producers, OnlyMoves(p)
  PROVE  Offers' = [Offers EXCEPT ![p] = OfferOf(p)'] /\ Asks' = Asks
<1>1. \A q \in Producers \ {p} : OfferOf(q)' = OfferOf(q)
  BY Roles DEF OnlyMoves, OfferOf
<1>2. \A c \in Consumers : AskOf(c)' = AskOf(c)
  BY Roles DEF OnlyMoves, AskOf, Holding
<1> QED  BY <1>1, <1>2, Mapped, MappedThen

LEMMA AskMoves ==
  ASSUME NEW c \in Consumers, OnlyMoves(c)
  PROVE  Offers' = Offers /\ Asks' = [Asks EXCEPT ![c] = AskOf(c)']
<1>1. \A p \in Producers : OfferOf(p)' = OfferOf(p)
  BY Roles DEF OnlyMoves, OfferOf
<1>2. \A d \in Consumers \ {c} : AskOf(d)' = AskOf(d)
  BY Roles DEF OnlyMoves, AskOf, Holding
<1> QED  BY <1>1, <1>2, Mapped, MappedThen

LEMMA HandKept ==
  ASSUME NEW t \in Threads, OnlyMoves(t), ring' = ring
  PROVE  /\ t \in Consumers => Hands' = [Hands EXCEPT ![t] = HandOf(t)']
         /\ t \notin Consumers => Hands' = Hands
<1>1. \A d \in Consumers \ {t} : HandOf(d)' = HandOf(d)
  BY Roles DEF OnlyMoves, HandOf, Holding
<1> QED  BY <1>1, Mapped, MappedThen

(* A step that shows the FIFO nothing.                                       *)
LEMMA Hidden ==
  ASSUME NEW t \in Threads, OnlyMoves(t),
         ring' = ring, prod'.tail = prod.tail, cons'.head = cons.head,
         t \in Producers => OfferOf(t)' = OfferOf(t),
         t \in Consumers => AskOf(t)' = AskOf(t) /\ HandOf(t)' = HandOf(t)
  PROVE  UNCHANGED F!fifoVars
<1>1. \A p \in Producers : OfferOf(p)' = OfferOf(p)
  BY Roles DEF OnlyMoves, OfferOf
<1>2. \A c \in Consumers : AskOf(c)' = AskOf(c) /\ HandOf(c)' = HandOf(c)
  BY Roles DEF OnlyMoves, AskOf, HandOf, Holding
<1>3. Offers' = Offers /\ Asks' = Asks /\ Hands' = Hands
  BY <1>1, <1>2, Mapped, MappedThen
<1> QED  BY <1>3, SameContents DEF F!fifoVars

-----------------------------------------------------------------------------
(* What the refinement needs besides IInv                                    *)

(* A call leaves nothing behind, a fixed one moves all it was asked for.     *)
Called(t) ==
    /\ ~Calling(t) => loc[t].asked = 0 /\ loc[t].fixed = FALSE /\ tbl[t] = << >>
    /\ Calling(t) => loc[t].asked # 0
    /\ pc[t] \in {"cas", "copy", "publish"} /\ loc[t].fixed => loc[t].n = loc[t].asked

(* The slots of a producer that waits for its turn hold its pointers.        *)
Copied(p) ==
    pc[p] = "publish" => \A j \in 0 .. (loc[p].n - 1) : ring[Slot(loc[p].head + j)] = tbl[p][j + 1]

FifoInv == (\A t \in Threads : Called(t)) /\ (\A p \in Producers : Copied(p))

(* The steps of a call, one by one.                                          *)
LEMMA CallDoes ==
  ASSUME IInv, NEW t \in Threads, NEW h, Call(t, h)
  PROVE  /\ OnlyMoves(t) /\ SameCounters /\ ring' = ring
         /\ pc[t] = "idle" /\ pc'[t] = "ldtail"
         /\ \E k \in FixedCounts \cup BurstCounts, f \in BOOLEAN :
              /\ loc'[t].asked = k /\ loc'[t].fixed = f
              /\ t \in Producers =>
                   tbl'[t] = [j \in 1 .. k |-> <<t, (serial[t] + j - 1) % Serials>>]
<1>1. /\ OnlyMoves(t) /\ SameCounters /\ ring' = ring
      /\ pc[t] = "idle" /\ pc'[t] = "ldtail"
  BY DEF Call, Goto, SameCounters, OnlyMoves, IInv, TypeOK
<1>2. PICK k \in FixedCounts \cup BurstCounts, f \in BOOLEAN :
         /\ loc' = [loc EXCEPT ![t].asked = k, ![t].fixed = f, ![t].head = h]
         /\ tbl' = [tbl EXCEPT ![t] =
                      IF t \in Producers
                      THEN [j \in 1 .. k |-> <<t, (serial[t] + j - 1) % Serials>>]
                      ELSE << >>]
  BY DEF Call
<1>3. /\ loc'[t].asked = k /\ loc'[t].fixed = f
      /\ t \in Producers => tbl'[t] = [j \in 1 .. k |-> <<t, (serial[t] + j - 1) % Serials>>]
  BY <1>2 DEF IInv, TypeOK
<1> QED  BY <1>1, <1>3, Zenon

LEMMA ReturnDoes ==
  ASSUME IInv, NEW t \in Threads, Return(t)
  PROVE  OnlyMoves(t) /\ pc'[t] = "idle" /\ loc'[t] = NoCall /\ tbl'[t] = << >>
BY Returned DEF Return, IInv, TypeOK

LEMMA LoadTailDoes ==
  ASSUME IInv, NEW t \in Threads, NEW room, LoadTail(t, room)
  PROVE  /\ OnlyMoves(t) /\ SameCounters /\ ring' = ring /\ pc[t] = "ldtail"
         /\ \/ Return(t)
            \/ /\ pc'[t] = "cas" /\ tbl'[t] = tbl[t]
               /\ loc'[t].asked = loc[t].asked /\ loc'[t].fixed = loc[t].fixed
               /\ loc'[t].n = Fit(t, room) /\ Fit(t, room) # 0
<1>1. CASE Return(t)
  BY <1>1, ReturnDoes DEF LoadTail, SameCounters
<1>2. CASE ~Return(t)
  BY <1>2 DEF LoadTail, Goto, SameCounters, OnlyMoves, IInv, TypeOK
<1> QED  BY <1>1, <1>2

LEMMA RetryDoes ==
  ASSUME IInv, NEW t \in Threads, NEW single, NEW h, Retry(t, single, h)
  PROVE  /\ OnlyMoves(t) /\ SameCounters /\ ring' = ring
         /\ pc[t] = "cas" /\ pc'[t] = "ldtail" /\ tbl'[t] = tbl[t]
         /\ loc'[t].asked = loc[t].asked /\ loc'[t].fixed = loc[t].fixed
BY DEF Retry, Goto, SameCounters, OnlyMoves, IInv, TypeOK

LEMMA ReserveDoes ==
  ASSUME IInv, NEW t \in Threads,
         (t \in Producers /\ EnqReserve(t)) \/ (t \in Consumers /\ DeqReserve(t))
  PROVE  /\ OnlyMoves(t) /\ ring' = ring /\ prod'.tail = prod.tail
         /\ t \in Producers => cons'.head = cons.head
         /\ pc[t] = "cas" /\ pc'[t] = "copy" /\ tbl'[t] = tbl[t] /\ loc'[t] = loc[t]
BY Roles DEF EnqReserve, DeqReserve, Goto, OnlyMoves, IInv, TypeOK

LEMMA EnqCopyDoes ==
  ASSUME IInv, NEW p \in Producers, EnqCopy(p)
  PROVE  /\ OnlyMoves(p) /\ SameCounters /\ ring' = EnqueuePtrs(p)
         /\ pc[p] = "copy" /\ pc'[p] = "publish" /\ tbl'[p] = tbl[p]
         /\ loc'[p].asked = loc[p].asked /\ loc'[p].fixed = loc[p].fixed
         /\ loc'[p].n = loc[p].n /\ loc'[p].head = loc[p].head
BY Roles DEF EnqCopy, Goto, SameCounters, OnlyMoves, IInv, TypeOK

LEMMA DeqCopyDoes ==
  ASSUME IInv, NEW c \in Consumers, DeqCopy(c)
  PROVE  /\ OnlyMoves(c) /\ SameCounters /\ ring' = ring
         /\ pc[c] = "copy" /\ pc'[c] = "publish" /\ loc'[c] = loc[c]
BY Roles DEF DeqCopy, Goto, SameCounters, OnlyMoves, IInv, TypeOK

LEMMA PublishDoes ==
  ASSUME IInv, NEW t \in Threads,
         (t \in Producers /\ EnqPublish(t)) \/ (t \in Consumers /\ DeqPublish(t))
  PROVE  /\ Return(t) /\ OnlyMoves(t) /\ ring' = ring /\ pc[t] = "publish"
         /\ cons'.head = cons.head /\ prod'.head = prod.head
         /\ t \in Consumers => prod'.tail = prod.tail
         /\ t \in Producers => prod'.tail = Wrap(loc[t].head + loc[t].n)
<1>1. Return(t)  BY DEF EnqPublish, DeqPublish
<1> QED  BY <1>1, ReturnDoes, Roles DEF EnqPublish, DeqPublish, IInv, TypeOK

LEMMA ReadingDoes ==
  ASSUME IInv, NEW t \in Observers, Read(t) \/ ReadReturn(t)
  PROVE  /\ t \in Threads /\ OnlyMoves(t) /\ SameCounters /\ ring' = ring /\ tbl' = tbl
         /\ pc[t] \in {"idle", "read"} /\ pc'[t] \in {"idle", "read"}
         /\ \/ loc'[t] = NoCall
            \/ loc'[t].asked = loc[t].asked /\ loc'[t].fixed = loc[t].fixed
<1>1. t \in Threads /\ seen = [u \in Threads |-> seen[u]]  BY DEF Threads, IInv, Locals
<1>2. CASE Read(t)
  BY <1>1, <1>2 DEF Read, Goto, SameCounters, OnlyMoves, IInv, TypeOK
<1>3. CASE ReadReturn(t)
  BY <1>1, <1>3 DEF ReadReturn, Goto, SameCounters, OnlyMoves, IInv, TypeOK
<1> QED  BY <1>2, <1>3

-----------------------------------------------------------------------------
LEMMA CalledStep ==
  ASSUME IInv, NEW t \in Threads, Called(t), [Next]_vars
  PROVE  Called(t)'
<1>1. ASSUME NEW u \in Threads \ {t}, OnlyMoves(u) PROVE Called(t)'
  BY <1>1 DEF Called, OnlyMoves, Calling
<1>2. CASE Return(t)
  BY <1>2, ReturnDoes DEF Called, Calling, NoCall
<1>3. ASSUME NEW h, Call(t, h) PROVE Called(t)'
  <2>1. PICK k \in FixedCounts \cup BurstCounts : loc'[t].asked = k
    BY <1>3, CallDoes
  <2>2. k # 0  BY RingAssumption
  <2> QED  BY <1>3, <2>1, <2>2, CallDoes DEF Called, Calling
<1>4. ASSUME NEW room, LoadTail(t, room), ~Return(t) PROVE Called(t)'
  <2>1. loc[t].fixed => Fit(t, room) = loc[t].asked
    BY <1>4, LoadTailDoes DEF Fit
  <2> QED  BY <1>4, <2>1, LoadTailDoes DEF Called, Calling
<1>5. ASSUME NEW single, NEW h, Retry(t, single, h) PROVE Called(t)'
  BY <1>5, RetryDoes DEF Called, Calling
<1>6. ASSUME NEW p \in Producers, Enqueue(p) PROVE Called(t)'
  <2>0. p \in Threads  BY Roles
  <2>1. CASE p # t
    <3>1. OnlyMoves(p)
      BY <1>6, <2>0, CallDoes, LoadTailDoes, ReserveDoes, RetryDoes, EnqCopyDoes, PublishDoes
      DEF Enqueue
    <3> QED  BY <1>1, <2>0, <2>1, <3>1
  <2>2. CASE p = t
    <3>1. CASE EnqReserve(t)  BY <2>2, <3>1, ReserveDoes DEF Called, Calling
    <3>2. CASE EnqCopy(t)  BY <2>2, <3>2, EnqCopyDoes DEF Called, Calling
    <3>3. CASE EnqPublish(t)  BY <1>2, <2>2, <3>3, PublishDoes
    <3> QED  BY <1>2, <1>3, <1>4, <1>5, <1>6, <2>2, <3>1, <3>2, <3>3 DEF Enqueue
  <2> QED  BY <2>1, <2>2
<1>7. ASSUME NEW c \in Consumers, Dequeue(c) PROVE Called(t)'
  <2>0. c \in Threads  BY Roles
  <2>1. CASE c # t
    <3>1. OnlyMoves(c)
      BY <1>7, <2>0, CallDoes, LoadTailDoes, ReserveDoes, RetryDoes, DeqCopyDoes, PublishDoes
      DEF Dequeue
    <3> QED  BY <1>1, <2>0, <2>1, <3>1
  <2>2. CASE c = t
    <3>1. CASE DeqReserve(t)  BY <2>2, <3>1, ReserveDoes DEF Called, Calling
    <3>2. CASE DeqCopy(t)  BY <2>2, <3>2, DeqCopyDoes DEF Called, Calling
    <3>3. CASE DeqPublish(t)  BY <1>2, <2>2, <3>3, PublishDoes
    <3> QED  BY <1>2, <1>3, <1>4, <1>5, <1>7, <2>2, <3>1, <3>2, <3>3 DEF Dequeue
  <2> QED  BY <2>1, <2>2
<1>8. ASSUME NEW o \in Observers, Read(o) \/ ReadReturn(o) PROVE Called(t)'
  <2>1. CASE o # t  BY <1>1, <1>8, <2>1, ReadingDoes
  <2>2. CASE o = t  BY <1>8, <2>2, ReadingDoes DEF Called, Calling, NoCall
  <2> QED  BY <2>1, <2>2
<1>9. ASSUME NEW count \in WaterMarks, SetWaterMark(count) PROVE Called(t)'
  BY <1>9 DEF SetWaterMark, Called, Calling
<1>10. CASE UNCHANGED vars  BY <1>10 DEF vars, Called, Calling
<1> QED  BY <1>6, <1>7, <1>8, <1>9, <1>10 DEF Next

(* The copy of an enqueue writes its own slots and no other.                 *)
LEMMA CopyWrites ==
  ASSUME IInv, NEW p \in Producers, EnqCopy(p)
  PROVE  /\ \A j \in 0 .. (loc[p].n - 1) : ring'[Slot(loc[p].head + j)] = tbl[p][j + 1]
         /\ \A s \in 0 .. Mask \ Slots(p) : ring'[s] = ring[s]
<1>0. p \in Threads /\ ring' = EnqueuePtrs(p) /\ Holding(p)
  BY Roles, EnqCopyDoes DEF Holding
<1> DEFINE h == loc[p].head  n == loc[p].n
<1>1. h \in Nat /\ n \in Nat /\ n <= Mask
  <2>1. /\ h \in Nat /\ n \in Nat /\ Off(h) \in Nat /\ Off(h) + n <= Mask
    BY <1>0, HeldFits, Numbers
  <2>2. Mask \in Nat  BY Numbers
  <2> HIDE DEF h, n
  <2> QED  BY <2>1, <2>2, SMT
<1> HIDE DEF h, n
<1>2. ASSUME NEW j \in 0 .. (n - 1) PROVE (Slot(h + j) - h) % Size = j
  <2>1. /\ h + j \in Int /\ j \in 0 .. Mask
    BY <1>1, Numbers, SMT
  <2>2. /\ h + j = Size * ((h + j) \div Size) + Slot(h + j)
        /\ (h + j) \div Size \in Int /\ Slot(h + j) \in Int
    BY <2>1, Division DEF Slot
  <2>3. Slot(h + j) - h = Size * (-((h + j) \div Size)) + j /\ -((h + j) \div Size) \in Int
    BY <1>1, <2>1, <2>2, Numbers, SMT
  <2> QED  BY <2>1, <2>3, SlotOf
<1>3. ASSUME NEW s \in 0 .. Mask PROVE s = Slot(h + ((s - h) % Size))
  <2> DEFINE k == (s - h) % Size  q == (s - h) \div Size
  <2>1. s - h \in Int /\ s \in Int  BY <1>1
  <2>2. s - h = Size * q + k /\ q \in Int /\ k \in Int  BY <2>1, Division
  <2> HIDE DEF k, q
  <2>3. h + k = Size * (-q) + s /\ -q \in Int
    BY <1>1, <2>1, <2>2, Numbers, SMT
  <2>4. Slot(h + k) = s  BY <2>3, SlotOf DEF Slot
  <2> QED  BY <2>4 DEF k
<1>4. ASSUME NEW j \in 0 .. (n - 1) PROVE ring'[Slot(h + j)] = tbl[p][j + 1]
  <2>1. h + j \in Int  BY <1>1
  <2>2. Slot(h + j) \in 0 .. Mask  BY <2>1, SlotRange
  <2>3. (Slot(h + j) - h) % Size = j /\ j < n  BY <1>1, <1>2
  <2> QED  BY <1>0, <2>2, <2>3 DEF EnqueuePtrs, h, n
<1>5. ASSUME NEW s \in 0 .. Mask, s \notin Slots(p) PROVE ring'[s] = ring[s]
  <2> DEFINE k == (s - h) % Size
  <2>1. s - h \in Int  BY <1>1
  <2>2. k \in 0 .. Mask  BY <2>1, Division
  <2>3. s = Slot(h + k)  BY <1>3
  <2> HIDE DEF k
  <2>4. ~(k < n)
    <3> SUFFICES ASSUME k < n PROVE FALSE  OBVIOUS
    <3>1. k \in 0 .. (n - 1)  BY <1>1, <2>2, Numbers
    <3> QED  BY <1>5, <2>3, <3>1 DEF Slots, Slot, h, n
  <2> QED  BY <1>0, <2>4 DEF EnqueuePtrs, h, n, k
<1> QED  BY <1>4, <1>5 DEF h, n

LEMMA HeldSlot ==
  ASSUME IInv, NEW t \in Threads, Holding(t), NEW j \in 0 .. (loc[t].n - 1)
  PROVE  Slot(loc[t].head + j) \in Slots(t) /\ Slot(loc[t].head + j) \in 0 .. Mask
<1>1. loc[t].head + j \in Int
  <2>1. loc[t].head \in Nat  BY HeldFits, Numbers
  <2> QED  BY <2>1
<1> QED  BY <1>1, SlotRange DEF Slots, Slot

(* So the pieces of the others stay.                                         *)
LEMMA CopySpares ==
  ASSUME IInv, NEW p \in Producers, EnqCopy(p), NEW u \in Threads \ {p}, Holding(u),
         NEW j \in 0 .. (loc[u].n - 1)
  PROVE  ring'[Slot(loc[u].head + j)] = ring[Slot(loc[u].head + j)]
<1>1. p \in Threads /\ Holding(p)  BY Roles, EnqCopyDoes DEF Holding
<1>2. Slot(loc[u].head + j) \in Slots(u) /\ Slot(loc[u].head + j) \in 0 .. Mask
  BY HeldSlot
<1>3. Slot(loc[u].head + j) \notin Slots(p)
  BY <1>1, <1>2, HeldApart DEF SlotsExclusive
<1> QED  BY <1>2, <1>3, CopyWrites

LEMMA CopiedStep ==
  ASSUME IInv, NEW p \in Producers, Copied(p), [Next]_vars
  PROVE  Copied(p)'
<1>0. p \in Threads /\ p \notin Consumers  BY Roles
<1>1. ASSUME NEW u \in Threads \ {p}, OnlyMoves(u), ring' = ring PROVE Copied(p)'
  BY <1>0, <1>1 DEF Copied, OnlyMoves
<1>2. CASE ring' = ring /\ pc'[p] # "publish"  BY <1>2 DEF Copied
<1>3. ASSUME NEW q \in Producers, EnqCopy(q) PROVE Copied(p)'
  <2>1. q \in Threads /\ OnlyMoves(q)  BY <1>3, Roles, EnqCopyDoes
  <2>2. CASE q = p
    <3>1. /\ \A j \in 0 .. (loc[p].n - 1) : ring'[Slot(loc[p].head + j)] = tbl[p][j + 1]
          /\ loc'[p].n = loc[p].n /\ loc'[p].head = loc[p].head /\ tbl'[p] = tbl[p]
      BY <1>3, <2>2, CopyWrites, EnqCopyDoes
    <3> QED  BY <3>1 DEF Copied
  <2>3. CASE q # p
    <3>1. pc'[p] = pc[p] /\ loc'[p] = loc[p] /\ tbl'[p] = tbl[p]
      BY <1>0, <2>1, <2>3 DEF OnlyMoves
    <3>2. ASSUME pc[p] = "publish", NEW j \in 0 .. (loc[p].n - 1)
          PROVE  ring'[Slot(loc[p].head + j)] = tbl[p][j + 1]
      <4>1. ring[Slot(loc[p].head + j)] = tbl[p][j + 1]  BY <3>2 DEF Copied
      <4>2. Holding(p) /\ p \in Threads \ {q}  BY <1>0, <2>3, <3>2 DEF Holding
      <4> QED  BY <1>3, <3>2, <4>1, <4>2, CopySpares
    <3> QED  BY <3>1, <3>2 DEF Copied
  <2> QED  BY <2>2, <2>3
<1>4. ASSUME NEW q \in Producers, Enqueue(q), ~EnqCopy(q) PROVE Copied(p)'
  <2>1. q \in Threads /\ OnlyMoves(q) /\ ring' = ring /\ pc'[q] # "publish"
    BY <1>4, Roles, CallDoes, LoadTailDoes, ReserveDoes, RetryDoes, PublishDoes, ReturnDoes
    DEF Enqueue
  <2> QED  BY <1>1, <1>2, <2>1
<1>5. ASSUME NEW c \in Consumers, Dequeue(c) PROVE Copied(p)'
  <2>1. c \in Threads \ {p} /\ OnlyMoves(c) /\ ring' = ring
    BY <1>0, <1>5, Roles, CallDoes, LoadTailDoes, ReserveDoes, RetryDoes, DeqCopyDoes, PublishDoes
    DEF Dequeue
  <2> QED  BY <1>1, <2>1
<1>6. ASSUME NEW o \in Observers, Read(o) \/ ReadReturn(o) PROVE Copied(p)'
  BY <1>1, <1>2, <1>6, ReadingDoes
<1>7. ASSUME NEW count \in WaterMarks, SetWaterMark(count) PROVE Copied(p)'
  BY <1>7 DEF SetWaterMark, Copied
<1>8. CASE UNCHANGED vars  BY <1>8 DEF vars, Copied
<1> QED  BY <1>3, <1>4, <1>5, <1>6, <1>7, <1>8 DEF Next

LEMMA FifoInvStep == ASSUME IInv, FifoInv, [Next]_vars PROVE FifoInv'
BY CalledStep, CopiedStep DEF FifoInv

-----------------------------------------------------------------------------
(* The steps of an enqueue *)

LEMMA EnqCallOffers ==
  ASSUME IInv, FifoInv, NEW p \in Producers, Call(p, prod.head)
  PROVE  F!Offer(p)
<1>0. p \in Threads /\ p \notin Consumers /\ OnlyMoves(p)
  BY Roles, CallDoes
<1>1. PICK k \in FixedCounts \cup BurstCounts, f \in BOOLEAN :
        /\ loc'[p].fixed = f
        /\ tbl'[p] = [j \in 1 .. k |-> <<p, (serial[p] + j - 1) % Serials>>]
  BY <1>0, CallDoes
<1>2. pc[p] = "idle" /\ tbl[p] = << >> /\ loc[p].fixed = FALSE
  BY <1>0, CallDoes DEF FifoInv, Called, Calling
<1>3. tbl'[p] \in Seq(Item) /\ tbl'[p] # << >>
  <2> DEFINE g == [j \in 1 .. k |-> <<p, (serial[p] + j - 1) % Serials>>]
  <2>1. k \in Nat /\ k >= 1  BY RingAssumption
  <2>2. ASSUME NEW j \in 1 .. k PROVE <<p, (serial[p] + j - 1) % Serials>> \in Item
    <3>1. serial[p] + j - 1 \in Int  BY DEF IInv, TypeOK
    <3>2. (serial[p] + j - 1) % Serials \in 0 .. (Serials - 1)  BY <3>1, Numbers
    <3> QED  BY <3>2 DEF Item
  <2>3. g \in [1 .. k -> Item]  BY <2>2
  <2>4. g \in Seq(Item)  BY <2>1, <2>3, SeqDef
  <2>5. Len(g) = k  BY <2>1, <2>3, <2>4, LenProperties
  <2>6. tbl'[p] = g  BY <1>1
  <2> HIDE DEF g
  <2>7. g # << >>  BY <2>1, <2>5, EmptySeq
  <2> QED  BY <2>4, <2>6, <2>7
<1>4. Offers[p] = F!NoOffer
  BY <1>2, Mapped DEF OfferOf, F!NoOffer
<1>5. Offers' = [Offers EXCEPT ![p] = OfferOf(p)'] /\ Asks' = Asks
  BY <1>0, OfferMoves
<1>6. Offers'[p] = OfferOf(p)'
  BY <1>5, Mapped
<1>7. OfferOf(p)' \in [items : Seq(Item) \ {<< >>}, whole : BOOLEAN]
  BY <1>1, <1>3 DEF OfferOf
<1>8. Contents' = Contents /\ Hands' = Hands
  BY <1>0, SameContents, HandKept, CallDoes DEF SameCounters
<1> QED  BY <1>4, <1>5, <1>6, <1>7, <1>8 DEF F!Offer

LEMMA EnqRefused ==
  ASSUME IInv, FifoInv, NEW p \in Producers, LoadTail(p, Free(p)), Return(p)
  PROVE  F!Refuse(p)
<1>0. /\ p \in Threads /\ p \notin Consumers /\ OnlyMoves(p)
      /\ pc[p] = "ldtail" /\ loc'[p] = NoCall /\ tbl'[p] = << >>
  BY Roles, LoadTailDoes, ReturnDoes
<1>1. Offers[p] # F!NoOffer
  <2>1. tbl[p] # << >>
    <3>1. Len(tbl[p]) # 0
      BY <1>0 DEF IInv, Locals, LocalsOf, FifoInv, Called, Calling
    <3> QED  BY <3>1, EmptySeq
  <2>2. Offers[p].items = tbl[p]  BY Mapped DEF OfferOf
  <2> QED  BY <2>1, <2>2 DEF F!NoOffer
<1>2. Offers' = [Offers EXCEPT ![p] = F!NoOffer] /\ Asks' = Asks
  <2>1. OfferOf(p)' = F!NoOffer  BY <1>0 DEF OfferOf, F!NoOffer, NoCall
  <2> QED  BY <1>0, <2>1, OfferMoves
<1>3. Contents' = Contents /\ Hands' = Hands
  BY <1>0, SameContents, HandKept, LoadTailDoes DEF SameCounters
<1> QED  BY <1>1, <1>2, <1>3 DEF F!Refuse

LEMMA EnqHidden ==
  ASSUME IInv, NEW p \in Producers,
         \/ LoadTail(p, Free(p)) /\ ~Return(p)
         \/ EnqReserve(p) \/ Retry(p, SingleProducer, prod.head)
  PROVE  UNCHANGED F!fifoVars
<1>0. p \in Threads /\ p \notin Consumers  BY Roles
<1>1. /\ OnlyMoves(p) /\ ring' = ring /\ prod'.tail = prod.tail /\ cons'.head = cons.head
      /\ tbl'[p] = tbl[p] /\ loc'[p].fixed = loc[p].fixed
  BY <1>0, LoadTailDoes, ReserveDoes, RetryDoes DEF SameCounters
<1>2. OfferOf(p)' = OfferOf(p)  BY <1>1 DEF OfferOf
<1> QED  BY <1>0, <1>1, <1>2, Hidden

(* The copy goes to slots that are neither in the queue nor being read.      *)
LEMMA EnqCopyHidden ==
  ASSUME IInv, NEW p \in Producers, EnqCopy(p)
  PROVE  UNCHANGED F!fifoVars
<1>0. /\ p \in Threads /\ p \notin Consumers /\ OnlyMoves(p) /\ Holding(p)
      /\ prod'.tail = prod.tail /\ cons'.head = cons.head
      /\ tbl'[p] = tbl[p] /\ loc'[p].fixed = loc[p].fixed
  BY Roles, EnqCopyDoes DEF SameCounters, Holding
<1>1. OfferOf(p)' = OfferOf(p)  BY <1>0 DEF OfferOf
<1>2. Offers' = Offers /\ Asks' = Asks
  BY <1>0, <1>1, OfferMoves, Mapped
<1>3. Contents' = Contents
  <2> DEFINE d == Dist(prod.tail, cons.head)
             h == loc[p].head  n == loc[p].n
  <2>1. /\ cons.head \in U32 /\ cons.head \in Nat /\ d \in Nat
        /\ Off(cons.head) \in Nat /\ Off(prod.tail) \in Nat /\ Off(cons.head) + d = Off(prod.tail)
    <3>1. /\ cons.head \in U32 /\ prod.tail \in U32
          /\ Off(cons.head) \in Nat /\ Off(prod.tail) \in Nat
      BY CounterTypes DEF IInv
    <3>2. d = Off(prod.tail) - Off(cons.head) /\ Off(cons.head) <= Off(prod.tail)
      BY HeadsApart DEF IInv, Ordered
    <3>3. cons.head \in Nat  BY <3>1, Numbers
    <3> HIDE DEF d
    <3> QED  BY <3>1, <3>2, <3>3, SMT
  <2>2. /\ h \in U32 /\ cons.tail \in U32 /\ cons.tail \in Nat /\ n \in Nat
        /\ Off(h) \in Nat /\ Off(h) + n <= Mask /\ Off(prod.tail) <= Off(h)
    <3>1. Off(prod.tail) <= Off(h)  BY <1>0 DEF IInv, ThreadOK, Piece
    <3> QED  BY <1>0, <3>1, HeldFits, Numbers
  <2>3. ASSUME NEW j \in 0 .. (d - 1)
        PROVE  ring'[Slot(cons.head + j)] = ring[Slot(cons.head + j)]
    <3> HIDE DEF d, h, n
    <3>1. cons.head + j \in Int  BY <2>1
    <3>2. Slot(cons.head + j) \in 0 .. Mask  BY <3>1, SlotRange
    <3>3. ASSUME NEW i \in 0 .. (n - 1), Slot(cons.head + j) = (h + i) % Size PROVE FALSE
      <4> DEFINE x == cons.tail + (Off(cons.head) + j)
                 y == cons.tail + (Off(h) + i)
      <4>1. (cons.head + j) % Size = x % Size  BY <2>1, <2>2, SlotFrom DEF Off
      <4>2. (h + i) % Size = y % Size  BY <2>2, SlotFrom DEF Off
      <4>3. x \in Int /\ y \in Int /\ x < y /\ y - x < Size /\ x - y < Size
        <5>1. Mask = Size - 1 /\ Size \in Nat  BY Numbers DEF Mask
        <5> QED  BY <2>1, <2>2, <5>1, SMT
      <4> HIDE DEF x, y
      <4>4. x = y  BY <3>3, <4>1, <4>2, <4>3, SlotInjective DEF Slot
      <4> QED  BY <4>3, <4>4
    <3>4. Slot(cons.head + j) \notin Slots(p)
      BY <3>3 DEF Slots, h, n
    <3> QED  BY <3>2, <3>4, CopyWrites
  <2>4. Row(ring', cons.head, d) = Row(ring, cons.head, d)
    <3> HIDE DEF d, h, n
    <3>1. cons.head \in Int /\ d \in Nat  BY <2>1
    <3>2. \A j \in 0 .. (d - 1) : ring'[Slot(cons.head + j)] = ring[Slot(cons.head + j)]
      BY <2>3
    <3> QED  BY <3>1, <3>2, RowSame
  <2> QED  BY <1>0, <2>4, Mapped, MappedThen
<1>4. ASSUME NEW c \in Consumers PROVE HandOf(c)' = HandOf(c)
  <2>0. c \in Threads \ {p}  BY <1>0, Roles
  <2>1. pc'[c] = pc[c] /\ loc'[c] = loc[c]  BY <1>0, <2>0 DEF OnlyMoves
  <2>2. ASSUME Holding(c) PROVE Row(ring', loc[c].head, loc[c].n) = Row(ring, loc[c].head, loc[c].n)
    <3>1. \A j \in 0 .. (loc[c].n - 1) :
             ring'[Slot(loc[c].head + j)] = ring[Slot(loc[c].head + j)]
      BY <2>0, <2>2, CopySpares
    <3>2. loc[c].head \in Int /\ loc[c].n \in Nat
      <4>1. loc[c].head \in U32 /\ loc[c].n \in Nat  BY <2>0, Ends DEF IInv
      <4>2. loc[c].head \in Nat  BY <4>1, Numbers
      <4> QED  BY <4>1, <4>2
    <3> QED  BY <3>1, <3>2, RowSame
  <2> QED  BY <2>1, <2>2 DEF HandOf, Holding
<1>5. Hands' = Hands  BY <1>4, Mapped, MappedThen
<1> QED  BY <1>2, <1>3, <1>5 DEF F!fifoVars

(* The publication appends what was copied, in one piece.                    *)
LEMMA EnqPublishes ==
  ASSUME IInv, FifoInv, NEW p \in Producers, EnqPublish(p)
  PROVE  F!Admit(p)
<1>0. /\ p \in Threads /\ p \notin Consumers /\ OnlyMoves(p) /\ Return(p) /\ Holding(p)
      /\ pc[p] = "publish" /\ ring' = ring /\ cons'.head = cons.head
      /\ prod'.tail = Wrap(loc[p].head + loc[p].n)
      /\ loc'[p] = NoCall /\ tbl'[p] = << >>
  BY Roles, PublishDoes, ReturnDoes DEF Holding
<1> DEFINE d == Dist(prod.tail, cons.head)
           k == loc[p].n
<1>1. prod.tail = loc[p].head
  BY <1>0 DEF EnqPublish, IInv, ThreadOK, Alone, Knows
<1>2. /\ prod.tail \in U32 /\ cons.head \in U32 /\ cons.head \in Int /\ d \in Nat
      /\ k \in Nat /\ k >= 1 /\ k <= loc[p].asked /\ loc[p].asked \in Nat
      /\ d + k <= Mask
  <2>1. /\ prod.tail \in U32 /\ cons.head \in U32 /\ cons.head \in Nat
        /\ Off(cons.head) \in Nat /\ Off(prod.tail) \in Nat /\ Off(prod.tail) + k <= Mask
        /\ k \in Nat
    <3>1. /\ prod.tail \in U32 /\ cons.head \in U32
          /\ Off(cons.head) \in Nat /\ Off(prod.tail) \in Nat
      BY CounterTypes DEF IInv
    <3>2. k \in Nat /\ Off(prod.tail) + k <= Mask
      BY <1>0, <1>1, HeldFits
    <3>3. cons.head \in Nat  BY <3>1, Numbers
    <3> QED  BY <3>1, <3>2, <3>3
  <2>2. d = Off(prod.tail) - Off(cons.head) /\ Off(cons.head) <= Off(prod.tail)
    BY HeadsApart DEF IInv, Ordered
  <2>3. k \in 1 .. loc[p].asked /\ loc[p].asked \in Nat /\ Mask \in Nat
    BY <1>0, Ends, Numbers DEF IInv, Locals, LocalsOf
  <2> HIDE DEF d, k
  <2> QED  BY <2>1, <2>2, <2>3, SMT
<1>3. /\ tbl[p] \in Seq(Cell) /\ Len(tbl[p]) = loc[p].asked
      /\ ring \in [0 .. Mask -> Cell]
      /\ loc[p].fixed => k = loc[p].asked
      /\ \A j \in 0 .. (k - 1) : ring[Slot(prod.tail + j)] = tbl[p][j + 1]
  <2>1. loc[p].fixed => k = loc[p].asked
    BY <1>0 DEF FifoInv, Called
  <2>2. \A j \in 0 .. (k - 1) : ring[Slot(prod.tail + j)] = tbl[p][j + 1]
    BY <1>0, <1>1 DEF FifoInv, Copied
  <2>3. tbl[p] \in Seq(Cell) /\ ring \in [0 .. Mask -> Cell]
    BY <1>0 DEF IInv, TypeOK, Cell
  <2>4. Len(tbl[p]) = loc[p].asked
    BY <1>0 DEF IInv, Locals, LocalsOf, Calling
  <2> QED  BY <2>1, <2>2, <2>3, <2>4
<1>4. Dist(prod'.tail, cons.head) = d + k
  <2>1. d + k < W
    <3>1. Mask < W /\ W \in Nat /\ Mask \in Nat  BY Numbers
    <3> HIDE DEF d, k
    <3> QED  BY <1>2, <3>1
  <2>2. Dist(Wrap(prod.tail + k), cons.head) = d + k
    BY <1>2, <2>1, LeadMoves
  <2> QED  BY <1>0, <1>1, <2>2
<1>5. Row(ring, cons.head + d, k) = SubSeq(tbl[p], 1, k)
  <2> DEFINE a == Row(ring, cons.head + d, k)
             b == SubSeq(tbl[p], 1, k)
  <2>1. /\ a \in Seq(Cell) /\ Len(a) = k
        /\ \A j \in 1 .. k : a[j] = ring[Slot(cons.head + d + j - 1)]
    <3>1. cons.head + d \in Int  BY <1>2
    <3> QED  BY <1>2, <1>3, <3>1, RowIs
  <2>2. /\ b \in Seq(Cell) /\ Len(b) = k /\ \A j \in 1 .. k : b[j] = tbl[p][j]
    <3> HIDE DEF k
    <3>1. k \in 1 .. Len(tbl[p])  BY <1>2, <1>3
    <3>2. \A j \in 1 .. k : tbl[p][j] \in Cell
      <4>1. \A j \in 1 .. Len(tbl[p]) : tbl[p][j] \in Cell  BY <1>3, ElementOfSeq
      <4> QED  BY <1>2, <1>3, <4>1
    <3>3. /\ b \in Seq(Cell) /\ Len(b) = k
          /\ \A j \in 1 .. (k - 1 + 1) : b[j] = tbl[p][1 + j - 1]
      BY <1>2, <3>1, <3>2, SubSeqProperties
    <3>4. ASSUME NEW j \in 1 .. k PROVE b[j] = tbl[p][j]
      <4>1. j \in 1 .. (k - 1 + 1) /\ 1 + j - 1 = j  BY <1>2
      <4> QED  BY <3>3, <4>1
    <3> QED  BY <3>3, <3>4
  <2> HIDE DEF a, b
  <2>3. ASSUME NEW j \in 1 .. k PROVE a[j] = b[j]
    <3>1. Slot(prod.tail + (j - 1)) = Slot(cons.head + (d + (j - 1)))
      <4>1. j - 1 \in Int  OBVIOUS
      <4> QED  BY <1>2, <4>1, SlotFrom DEF Slot
    <3>2. j - 1 \in 0 .. (k - 1) /\ (j - 1) + 1 = j
          /\ cons.head + d + j - 1 = cons.head + (d + (j - 1))
      <4> HIDE DEF k, d
      <4> QED  BY <1>2
    <3>3. ring[Slot(prod.tail + (j - 1))] = tbl[p][(j - 1) + 1]
      BY <1>3, <3>2
    <3> QED  BY <2>1, <2>2, <3>1, <3>2, <3>3
  <2>4. a = b  BY <2>1, <2>2, <2>3, SeqEqual
  <2> QED  BY <2>4 DEF a, b
<1>6. Contents' = Contents \o SubSeq(tbl[p], 1, k)
  <2>1. Contents' = Row(ring, cons.head, d + k)
    BY <1>0, <1>4, MappedThen
  <2>2. Row(ring, cons.head, d + k) = Row(ring, cons.head, d) \o Row(ring, cons.head + d, k)
    <3> HIDE DEF d, k
    <3> QED  BY <1>2, <1>3, RowConcat, Zenon
  <2> QED  BY <1>5, <2>1, <2>2, Mapped
<1>7. Len(Contents) = d
  BY <1>2, <1>3, RowIs, Mapped
<1>8. Offers[p].items = tbl[p] /\ Offers[p].whole = loc[p].fixed
  BY Mapped DEF OfferOf
<1>9. \E l \in 1 .. Len(Offers[p].items) :
          /\ Offers[p].whole => l = Len(Offers[p].items)
          /\ Len(Contents) + l <= Size - 1
          /\ Contents' = Contents \o SubSeq(Offers[p].items, 1, l)
  <2>1. k \in 1 .. Len(Offers[p].items)
    <3> HIDE DEF k
    <3> QED  BY <1>2, <1>3, <1>8
  <2>2. Len(Contents) + k <= Size - 1
    BY <1>2, <1>7 DEF Mask
  <2> QED  BY <1>3, <1>6, <1>8, <2>1, <2>2
<1>10. Offers' = [Offers EXCEPT ![p] = F!NoOffer] /\ Asks' = Asks
  <2>1. OfferOf(p)' = F!NoOffer  BY <1>0 DEF OfferOf, F!NoOffer, NoCall
  <2> QED  BY <1>0, <2>1, OfferMoves
<1>11. Hands' = Hands  BY <1>0, HandKept
<1> QED  BY <1>9, <1>10, <1>11 DEF F!Admit

-----------------------------------------------------------------------------
(* The steps of a dequeue *)

LEMMA DeqCallAsks ==
  ASSUME IInv, FifoInv, NEW c \in Consumers, Call(c, cons.head)
  PROVE  F!Ask(c)
<1>0. c \in Threads /\ OnlyMoves(c) /\ pc[c] = "idle" /\ pc'[c] = "ldtail"
  BY Roles, CallDoes
<1>1. PICK k \in FixedCounts \cup BurstCounts, f \in BOOLEAN :
        loc'[c].asked = k /\ loc'[c].fixed = f
  BY <1>0, CallDoes
<1>2. k \in Nat \ {0}  BY RingAssumption
<1>3. Offers' = Offers /\ Asks' = [Asks EXCEPT ![c] = AskOf(c)']
  BY <1>0, AskMoves
<1>4. AskOf(c)' = [n |-> k, whole |-> f]
  BY <1>0, <1>1 DEF AskOf, Holding
<1>5. Asks'[c] = AskOf(c)' /\ AskOf(c)' \in [n : Nat \ {0}, whole : BOOLEAN]
  BY <1>2, <1>3, <1>4, Mapped
<1>6. HandOf(c)' = << >> /\ HandOf(c) = << >>
  BY <1>0 DEF HandOf, Holding
<1>7. Contents' = Contents /\ Hands' = Hands /\ Hands[c] = << >>
  BY <1>0, <1>6, SameContents, HandKept, CallDoes, Mapped DEF SameCounters
<1>8. Asks[c] = F!NoAsk
  BY <1>0, Mapped DEF FifoInv, Called, Calling, AskOf, Holding, F!NoAsk
<1> QED  BY <1>3, <1>5, <1>7, <1>8 DEF F!Ask

LEMMA DeqDeclined ==
  ASSUME IInv, FifoInv, NEW c \in Consumers, LoadTail(c, Entries(c)), Return(c)
  PROVE  F!Decline(c)
<1>0. /\ c \in Threads /\ OnlyMoves(c)
      /\ pc[c] = "ldtail" /\ pc'[c] = "idle" /\ loc'[c] = NoCall
  BY Roles, LoadTailDoes, ReturnDoes
<1>1. AskOf(c)' = F!NoAsk /\ HandOf(c)' = << >> /\ HandOf(c) = << >>
  BY <1>0 DEF AskOf, HandOf, Holding, F!NoAsk, NoCall
<1>2. Asks[c] # F!NoAsk
  <2>1. loc[c].asked # 0  BY <1>0 DEF FifoInv, Called, Calling
  <2>2. Asks[c].n = loc[c].asked  BY <1>0, Mapped DEF AskOf, Holding
  <2> QED  BY <2>1, <2>2 DEF F!NoAsk
<1>3. Offers' = Offers /\ Asks' = [Asks EXCEPT ![c] = F!NoAsk]
  BY <1>0, <1>1, AskMoves
<1>4. Contents' = Contents /\ Hands' = Hands
  BY <1>0, <1>1, SameContents, HandKept, LoadTailDoes, Mapped DEF SameCounters
<1> QED  BY <1>2, <1>3, <1>4 DEF F!Decline

LEMMA DeqHidden ==
  ASSUME IInv, NEW c \in Consumers,
         \/ LoadTail(c, Entries(c)) /\ ~Return(c)
         \/ Retry(c, SingleConsumer, cons.head) \/ DeqCopy(c)
  PROVE  UNCHANGED F!fifoVars
<1>0. c \in Threads /\ c \notin Producers  BY Roles
<1>1. CASE DeqCopy(c)
  <2>1. /\ OnlyMoves(c) /\ SameCounters /\ ring' = ring /\ loc'[c] = loc[c]
        /\ Holding(c) /\ Holding(c)'
    BY <1>0, <1>1, DeqCopyDoes DEF Holding
  <2>2. AskOf(c)' = AskOf(c) /\ HandOf(c)' = HandOf(c)  BY <2>1 DEF AskOf, HandOf
  <2> QED  BY <1>0, <2>1, <2>2, Hidden DEF SameCounters
<1>2. CASE ~DeqCopy(c)
  <2>1. /\ OnlyMoves(c) /\ SameCounters /\ ring' = ring
        /\ loc'[c].asked = loc[c].asked /\ loc'[c].fixed = loc[c].fixed
        /\ ~Holding(c) /\ ~Holding(c)'
    BY <1>0, <1>2, LoadTailDoes, RetryDoes DEF Holding
  <2>2. AskOf(c)' = AskOf(c) /\ HandOf(c)' = HandOf(c)  BY <2>1 DEF AskOf, HandOf
  <2> QED  BY <1>0, <2>1, <2>2, Hidden DEF SameCounters
<1> QED  BY <1>1, <1>2

(* The reservation takes the pointers from the front of the queue.           *)
LEMMA DeqReserves ==
  ASSUME IInv, FifoInv, NEW c \in Consumers, DeqReserve(c)
  PROVE  F!Take(c)
<1>0. /\ c \in Threads /\ OnlyMoves(c) /\ ring' = ring /\ prod'.tail = prod.tail
      /\ pc[c] = "cas" /\ pc'[c] = "copy" /\ loc'[c] = loc[c]
  <2>1. c \in Threads  BY Roles
  <2>2. prod' = prod  BY DEF DeqReserve
  <2> QED  BY <2>1, <2>2, ReserveDoes
<1> DEFINE d == Dist(prod.tail, cons.head)
           k == loc[c].n
<1>1. loc[c].head = cons.head
  BY <1>0 DEF DeqReserve, IInv, ThreadOK, Alone, Knows, Deciding
<1>2. cons'.head = Wrap(cons.head + k)
  BY <1>1 DEF DeqReserve, IInv, TypeOK
<1>3. /\ prod.tail \in U32 /\ cons.head \in U32 /\ cons.head \in Int /\ d \in Nat /\ d < W
      /\ k \in 1 .. d /\ k \in 0 .. (W - 1) /\ d - k \in Nat
      /\ k <= loc[c].asked /\ ring \in [0 .. Mask -> Cell]
  <2>1. prod.tail \in U32 /\ cons.head \in U32 /\ ring \in [0 .. Mask -> Cell]
    BY DEF IInv, TypeOK, Cell
  <2>2. d \in 0 .. (W - 1) /\ cons.head \in Nat /\ W \in Nat  BY <2>1, DistIs, Numbers
  <2>3. loc[c].room <= d
    BY <1>0, <1>1 DEF IInv, ThreadOK, Fits
  <2>4. k \in 1 .. loc[c].asked /\ k <= loc[c].room
    BY <1>0 DEF IInv, Locals, LocalsOf
  <2>5. loc[c].room \in Nat /\ loc[c].asked \in Nat  BY <1>0, Ends DEF IInv
  <2> HIDE DEF d, k
  <2> QED  BY <2>1, <2>2, <2>3, <2>4, <2>5
<1>4. Dist(prod.tail, cons'.head) = d - k
  <2>1. k \in Nat /\ k <= d
    <3> HIDE DEF d, k
    <3> QED  BY <1>3
  <2> QED  BY <1>2, <1>3, <2>1, TrailMoves
<1>5. /\ SubSeq(Contents, 1, k) = Row(ring, cons.head, k)
      /\ SubSeq(Contents, k + 1, d) = Row(ring, cons.head + k, d - k)
      /\ Len(Contents) = d
  BY <1>3, RowParts, RowIs, Mapped
<1>6. Contents' = SubSeq(Contents, k + 1, Len(Contents))
  <2>1. Contents' = Row(ring, Wrap(cons.head + k), d - k)
    BY <1>0, <1>2, <1>4, MappedThen
  <2> QED  BY <1>3, <1>5, <2>1, RowWraps
<1>7. HandOf(c)' = SubSeq(Contents, 1, k)
  BY <1>0, <1>1, <1>5 DEF HandOf, Holding
<1>8. Asks[c].n = loc[c].asked /\ Asks[c].whole = loc[c].fixed
  BY <1>0, Mapped DEF AskOf, Holding
<1>9. loc[c].fixed => k = loc[c].asked
  BY <1>0 DEF FifoInv, Called
<1>10. Hands' = [Hands EXCEPT ![c] = SubSeq(Contents, 1, k)]
  BY <1>0, <1>7, HandKept
<1>11. \E l \in 1 .. Len(Contents) :
         /\ l <= Asks[c].n
         /\ Asks[c].whole => l = Asks[c].n
         /\ Hands' = [Hands EXCEPT ![c] = SubSeq(Contents, 1, l)]
         /\ Contents' = SubSeq(Contents, l + 1, Len(Contents))
  <2>1. k \in 1 .. Len(Contents)  BY <1>3, <1>5
  <2> QED  BY <1>3, <1>6, <1>8, <1>9, <1>10, <2>1
<1>12. Offers' = Offers /\ Asks' = [Asks EXCEPT ![c] = F!NoAsk]
  <2>1. AskOf(c)' = F!NoAsk  BY <1>0 DEF AskOf, Holding, F!NoAsk
  <2> QED  BY <1>0, <2>1, AskMoves
<1> QED  BY <1>11, <1>12 DEF F!Take

LEMMA DeqPublishes ==
  ASSUME IInv, FifoInv, NEW c \in Consumers, DeqPublish(c)
  PROVE  F!Deliver(c)
<1>0. /\ c \in Threads /\ OnlyMoves(c) /\ pc[c] = "publish" /\ pc'[c] = "idle" /\ Holding(c)
      /\ ring' = ring /\ prod'.tail = prod.tail /\ cons'.head = cons.head
      /\ loc'[c] = NoCall
  BY Roles, PublishDoes, ReturnDoes DEF Holding
<1>1. Hands[c] # << >>
  <2>1. loc[c].head \in U32 /\ loc[c].n \in Nat /\ ring \in [0 .. Mask -> Cell]
    BY <1>0, HeldFits DEF IInv, TypeOK, Cell
  <2>2. loc[c].n \in 1 .. loc[c].asked  BY <1>0 DEF IInv, Locals, LocalsOf
  <2>3. loc[c].head \in Int
    <3>1. loc[c].head \in Nat  BY <2>1, Numbers
    <3> QED  BY <3>1
  <2>4. /\ Row(ring, loc[c].head, loc[c].n) \in Seq(Cell)
        /\ Len(Row(ring, loc[c].head, loc[c].n)) = loc[c].n
    BY <2>1, <2>3, RowIs
  <2>5. Row(ring, loc[c].head, loc[c].n) # << >>
    <3>1. loc[c].n # 0  BY <2>2
    <3> QED  BY <2>4, <3>1, EmptySeq
  <2> QED  BY <1>0, <2>5, Mapped DEF HandOf
<1>2. HandOf(c)' = << >> /\ AskOf(c)' = AskOf(c)
  BY <1>0 DEF HandOf, AskOf, Holding, NoCall
<1>3. Offers' = Offers /\ Asks' = Asks  BY <1>0, <1>2, AskMoves, Mapped
<1>4. Contents' = Contents /\ Hands' = [Hands EXCEPT ![c] = << >>]
  BY <1>0, <1>2, SameContents, HandKept
<1> QED  BY <1>1, <1>3, <1>4 DEF F!Deliver

-----------------------------------------------------------------------------
(* The refinement *)

LEMMA ReadingHidden ==
  ASSUME IInv, FifoInv, NEW t \in Observers, Read(t) \/ ReadReturn(t)
  PROVE  UNCHANGED F!fifoVars
<1>1. /\ t \in Threads /\ OnlyMoves(t) /\ SameCounters /\ ring' = ring /\ tbl' = tbl
      /\ ~Holding(t) /\ ~Holding(t)' /\ ~Calling(t)
  BY ReadingDoes DEF Holding, Calling
<1>2. loc'[t].asked = loc[t].asked /\ loc'[t].fixed = loc[t].fixed
  <2>1. loc[t].asked = 0 /\ loc[t].fixed = FALSE  BY <1>1 DEF FifoInv, Called
  <2>2. NoCall.asked = 0 /\ NoCall.fixed = FALSE  BY DEF NoCall
  <2> QED  BY <2>1, <2>2, ReadingDoes
<1>3. OfferOf(t)' = OfferOf(t) /\ AskOf(t)' = AskOf(t) /\ HandOf(t)' = HandOf(t)
  BY <1>1, <1>2 DEF OfferOf, AskOf, HandOf
<1> QED  BY <1>1, <1>3, Hidden DEF SameCounters

LEMMA FifoStarts == ASSUME Init PROVE FifoInv /\ F!FifoInit
<1>0. /\ \A t \in Threads : pc[t] = "idle" /\ tbl[t] = << >> /\ loc[t] = NoCall
      /\ prod.tail = 0 /\ cons.head = 0
  BY DEF Init
<1>1. FifoInv
  BY <1>0, Roles DEF FifoInv, Called, Copied, Calling, NoCall
<1>2. Contents = << >>
  <2>1. Dist(0, 0) = 0 /\ 0 \in Int /\ 0 \in Nat  BY Numbers, DistSelf
  <2>2. ring \in [0 .. Mask -> Cell]  BY InitTypes DEF TypeOK, Cell
  <2>3. Row(ring, 0, 0) \in Seq(Cell) /\ Len(Row(ring, 0, 0)) = 0
    BY <2>1, <2>2, RowIs
  <2> QED  BY <1>0, <2>1, <2>3, Mapped, EmptySeq
<1>3. NoCall.asked = 0 /\ NoCall.fixed = FALSE  BY DEF NoCall
<1>4. ASSUME NEW p \in Producers PROVE OfferOf(p) = F!NoOffer
  <2>1. tbl[p] = << >> /\ loc[p] = NoCall  BY <1>0, Roles
  <2> QED  BY <1>3, <2>1 DEF OfferOf, F!NoOffer
<1>5. ASSUME NEW c \in Consumers PROVE AskOf(c) = F!NoAsk /\ HandOf(c) = << >>
  <2>1. pc[c] = "idle" /\ loc[c] = NoCall  BY <1>0, Roles
  <2> QED  BY <1>3, <2>1 DEF AskOf, HandOf, Holding, F!NoAsk
<1> QED  BY <1>0, <1>1, <1>2, <1>4, <1>5, Mapped DEF F!FifoInit

LEMMA FifoSteps == ASSUME IInv, FifoInv, [Next]_vars PROVE [F!FifoNext]_(F!fifoVars)
<1>1. ASSUME NEW p \in Producers, Enqueue(p) PROVE [F!FifoNext]_(F!fifoVars)
  BY <1>1, EnqCallOffers, EnqRefused, EnqHidden, EnqCopyHidden, EnqPublishes
  DEF Enqueue, F!FifoNext
<1>2. ASSUME NEW c \in Consumers, Dequeue(c) PROVE [F!FifoNext]_(F!fifoVars)
  BY <1>2, DeqCallAsks, DeqDeclined, DeqHidden, DeqReserves, DeqPublishes
  DEF Dequeue, F!FifoNext
<1>3. ASSUME NEW o \in Observers, Read(o) \/ ReadReturn(o) PROVE [F!FifoNext]_(F!fifoVars)
  BY <1>3, ReadingHidden
<1>4. ASSUME NEW count \in WaterMarks, SetWaterMark(count) PROVE [F!FifoNext]_(F!fifoVars)
  <2>1. /\ prod'.tail = prod.tail /\ cons' = cons /\ ring' = ring
        /\ pc' = pc /\ loc' = loc /\ tbl' = tbl
    BY <1>4 DEF SetWaterMark, IInv, TypeOK
  <2> QED
    BY <2>1, Mapped, MappedThen DEF F!fifoVars, OfferOf, AskOf, HandOf, Holding
<1>5. CASE UNCHANGED vars
  BY <1>5, Mapped, MappedThen DEF vars, F!fifoVars, OfferOf, AskOf, HandOf, Holding
<1> QED  BY <1>1, <1>2, <1>3, <1>4, <1>5 DEF Next

(* The ring is the bounded FIFO of ring_queue.h:95-101 to its callers, with  *)
(* Size - 1 usable slots, for each choice of the flags: every step of a CPU  *)
(* is one step of that FIFO, or none.  A fixed call moves all of its         *)
(* pointers or none, a call's pointers stay side by side, and each comes out *)
(* once, in the order of the publications.                                   *)
THEOREM Refinement == Spec => ImplementsFifo
<1>1. Init => FifoInv /\ F!FifoInit
  BY FifoStarts
<1>2. IInv /\ FifoInv /\ [Next]_vars => FifoInv' /\ [F!FifoNext]_(F!fifoVars)
  BY FifoInvStep, FifoSteps
<1> QED  BY <1>1, <1>2, RingInvariant, PTL DEF Spec, ImplementsFifo, F!FifoSpec
=============================================================================
