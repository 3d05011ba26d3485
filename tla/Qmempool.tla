------------------------------ MODULE Qmempool ------------------------------
(* mm/qmempool.c, include/linux/qmempool.h: a cache of memory elements in    *)
(* front of a slab allocator, one local queue for each CPU and one shared    *)
(* queue, which moves elements in bulks.                                     *)
(*                                                                           *)
(* This module composes alf_queues, which it takes for what AlfQueue shows   *)
(* them to be: an enqueue reserves its slots at one instant, if all its      *)
(* items fit, and publishes them at a later one; a dequeue takes items at    *)
(* one instant and releases their slots at a later one.  The local queues    *)
(* are used by their own CPU only, with bottom halves off, so that a call on *)
(* one is a single step, together with what the CPU does before it next      *)
(* touches the shared queue.  The order of the elements in a queue makes no  *)
(* difference here, so that a queue is a set.                                *)
EXTENDS Integers, FiniteSets

CONSTANTS
    Cpus,
    Elems,                  \* the slab's elements, numbered
    LocalSize, SharedSize,  \* localq_sz and sharedq_sz of qmempool_create
    Bulk,                   \* QMEMPOOL_BULK
    Multiplier,             \* QMEMPOOL_REFILL_MULTIPLIER
    Preallocs,              \* prealloc counts of qmempool_create
    SlabFails               \* the slab may return NULL although it has elements

(* The tests of qmempool_create.                                             *)
ASSUME PoolAssumption ==
    /\ Bulk \in Nat \ {0} /\ Multiplier \in Nat \ {0}
    /\ LocalSize \in Nat /\ LocalSize >= Bulk
    /\ SharedSize \in Nat /\ SharedSize >= Bulk * Multiplier
    /\ Preallocs \subseteq 0 .. SharedSize
    /\ SlabFails \in BOOLEAN
    /\ Elems \subseteq Nat /\ IsFiniteSet(Elems)

VARIABLES
    slab,    \* elements the slab allocator has
    used,    \* elements that users of the pool have
    local,   \* localq of every CPU
    shared,  \* sharedq: items, and the slots being filled and drained
    pc,      \* where each CPU is; "bug": it hit a BUG
    got,     \* elem and elems[] of its call
    turn,    \* i of the loops over Multiplier
    alive    \* between qmempool_create and qmempool_destroy

vars == <<slab, used, local, shared, pc, got, turn, alive>>

NoItems == [items |-> {}, filling |-> 0, draining |-> 0]
Size(S) == Cardinality(S)

(* At most k elements of a set.  All that are in the same place are alike,   *)
(* so that it is enough to follow one choice, the lowest numbers.            *)
Some(k, S) == {x \in S : Size({y \in S : y < x}) < k}

(* qmempool_create, up to the elements it preallocates.                      *)
Created(n) ==
    /\ slab'   = slab \ Some(n, slab)
    /\ shared' = [NoItems EXCEPT !.items = Some(n, slab)]
    /\ alive'  = TRUE

Init ==
    /\ slab = Elems /\ used = {}
    /\ local  = [c \in Cpus |-> {}]
    /\ shared = NoItems
    /\ pc     = [c \in Cpus |-> "idle"]
    /\ got    = [c \in Cpus |-> {}]
    /\ turn   = [c \in Cpus |-> 0]
    /\ alive  = FALSE

Idle == \A c \in Cpus : pc[c] = "idle"

(* qmempool_create; one that runs out of elements frees those it has.        *)
Create ==
    /\ ~alive /\ Idle
    /\ \E n \in Preallocs : n <= Size(slab) /\ Created(n)
    /\ UNCHANGED <<used, local, pc, got, turn>>

(* qmempool_destroy, once nobody calls: all queues are emptied to the slab.  *)
Destroy ==
    /\ alive /\ Idle
    /\ slab' = slab \cup shared.items \cup UNION {local[c] : c \in Cpus}
    /\ local'  = [c \in Cpus |-> {}]
    /\ shared' = NoItems
    /\ alive'  = FALSE
    /\ UNCHANGED <<used, pc, got, turn>>

-----------------------------------------------------------------------------
(* The queues *)

Goto(c, label) == pc' = [pc EXCEPT ![c] = label]
Holds(c, S)    == got' = [got EXCEPT ![c] = S]
Turn(c, i)     == turn' = [turn EXCEPT ![c] = i]
Done(c)        == Goto(c, "idle") /\ Holds(c, {}) /\ Turn(c, 0)

(* alf_sp_enqueue on the local queue *)
LocalFits(c, n) == Size(local[c]) + n <= LocalSize

(* alf_mp_enqueue: a count of n slots, all or none.  A count of 0 or -1      *)
(* (as u32) is answered by 0 like one that does not fit.                     *)
SharedFits_Ever(n) == n > 0         \* FAULTY: does not look at the room
SharedFits(n) ==
    /\ n > 0
    /\ Size(shared.items) + shared.filling + shared.draining + n <= SharedSize
Reserve(n) == shared' = [shared EXCEPT !.filling = @ + n]
Publish(S) == shared' = [shared EXCEPT !.filling = @ - Size(S), !.items = @ \cup S]

(* alf_mc_dequeue: at most Bulk items, then their slots.                     *)
Taken_Multiple == Some(Bulk * Multiplier, shared.items) \* FAULTY: as much as a refill brings
Taken == Some(Bulk, shared.items)
Take  == shared' = [shared EXCEPT !.items = @ \ Taken, !.draining = @ + Size(Taken)]
Release(n) == shared' = [shared EXCEPT !.draining = @ - n]

-----------------------------------------------------------------------------
(* main_qmempool_alloc *)

AllocLocal(c) ==
    /\ alive /\ pc[c] = "idle"
    /\ \/ /\ local[c] # {}
          /\ used'  = used \cup Some(1, local[c])
          /\ local' = [local EXCEPT ![c] = @ \ Some(1, @)]
          /\ UNCHANGED pc
       \/ /\ local[c] = {}
          /\ Goto(c, "take")
          /\ UNCHANGED <<used, local>>
    /\ UNCHANGED <<slab, shared, got, turn, alive>>

(* __qmempool_alloc_from_sharedq *)
AllocTake(c) ==
    /\ pc[c] = "take"
    /\ \/ shared.items # {} /\ Take /\ Goto(c, "fill")
       \/ shared.items = {} /\ UNCHANGED shared /\ Goto(c, "slab")
    /\ Holds(c, Taken)
    /\ UNCHANGED <<slab, used, local, turn, alive>>

Surplus_All(c) == got[c]            \* FAULTY: the element handed out as well
Surplus(c)     == got[c] \ Some(1, got[c])

AllocFill(c) ==
    /\ pc[c] = "fill"
    /\ Release(Size(got[c]))
    /\ local' = [local EXCEPT ![c] = @ \cup Surplus(c)]
    /\ used'  = used \cup Some(1, got[c])
    /\ Goto(c, IF LocalFits(c, Size(Surplus(c))) THEN "idle" ELSE "localbug")
    /\ Holds(c, {})
    /\ UNCHANGED <<slab, turn, alive>>

(* __qmempool_alloc_from_slab: got is elem, later with elems.               *)
AllocSlab(c) ==
    /\ pc[c] = "slab"
    /\ \/ /\ slab # {}
          /\ Holds(c, Some(1, slab))
          /\ slab' = slab \ Some(1, slab)
          /\ Goto(c, "refill")
          /\ UNCHANGED turn
       \/ /\ slab = {} \/ SlabFails
          /\ Done(c)
          /\ UNCHANGED slab
    /\ UNCHANGED <<used, local, shared, alive>>

(* j elements before the slab returns NULL, or a bulk of them.               *)
RefillGet(c) ==
    /\ pc[c] = "refill"
    /\ \E j \in 0 .. Bulk :
         /\ j <= Size(slab)
         /\ j < Bulk => j = Size(slab) \/ SlabFails
         /\ slab' = slab \ Some(j, slab)
         /\ Holds(c, got[c] \cup Some(j, slab))
         /\ Goto(c, IF j = Bulk THEN "bulk" ELSE "partial")
    /\ UNCHANGED <<used, local, shared, turn, alive>>

RefillBulk(c) ==
    /\ pc[c] = "bulk"
    /\ \/ SharedFits(Bulk) /\ Reserve(Bulk) /\ Goto(c, "publish")
       \/ ~SharedFits(Bulk) /\ UNCHANGED shared /\ Goto(c, "bug")
    /\ UNCHANGED <<slab, used, local, got, turn, alive>>

RefillPublish(c) ==
    /\ pc[c] = "publish"
    /\ Publish(Surplus(c))
    /\ \/ /\ turn[c] + 1 < Multiplier
          /\ Turn(c, turn[c] + 1) /\ Goto(c, "refill")
          /\ Holds(c, Some(1, got[c]))
          /\ UNCHANGED used
       \/ /\ turn[c] + 1 = Multiplier
          /\ used' = used \cup Some(1, got[c])
          /\ Done(c)
    /\ UNCHANGED <<slab, local, alive>>

(* alf_mp_enqueue(elems, j-1): the last of the j elements is forgotten, and  *)
(* with j at most 1 the enqueue returns 0 and the code dies.  got is elem    *)
(* and the j elements.                                                       *)
RefillPartial(c) ==
    /\ pc[c] = "partial"
    /\ LET n == Size(got[c]) - 2
       IN  \/ /\ SharedFits(n) /\ Reserve(n)
              /\ Holds(c, Some(n + 1, got[c])) /\ Turn(c, Multiplier - 1)
              /\ Goto(c, "publish")
           \/ /\ ~SharedFits(n) /\ Goto(c, "bug")
              /\ UNCHANGED <<shared, got, turn>>
    /\ UNCHANGED <<slab, used, local, alive>>

-----------------------------------------------------------------------------
(* main_qmempool_free *)

FreeLocal(c) ==
    /\ alive /\ pc[c] = "idle" /\ used # {}
    /\ used' = used \ Some(1, used)
    /\ \/ /\ LocalFits(c, 1)
          /\ local' = [local EXCEPT ![c] = @ \cup Some(1, used)]
          /\ UNCHANGED <<pc, got>>
       \/ /\ ~LocalFits(c, 1)
          /\ Holds(c, Some(1, used) \cup Some(Bulk - 1, local[c]))
          /\ local' = [local EXCEPT ![c] = @ \ Some(Bulk - 1, @)]
          /\ Goto(c, IF local[c] = {} THEN "localbug" ELSE "free")
    /\ UNCHANGED <<slab, shared, turn, alive>>

(* __qmempool_free_to_sharedq *)
FreeShared(c) ==
    /\ pc[c] = "free"
    /\ \/ SharedFits(Size(got[c])) /\ Reserve(Size(got[c])) /\ Goto(c, "store")
       \/ ~SharedFits(Size(got[c])) /\ UNCHANGED shared /\ Goto(c, "slabfree")
    /\ UNCHANGED <<slab, used, local, got, turn, alive>>

FreePublish(c) ==
    /\ pc[c] = "store"
    /\ Publish(got[c])
    /\ Done(c)
    /\ UNCHANGED <<slab, used, local, alive>>

(* __qmempool_free_to_slab, which also makes room for Multiplier bulks.      *)
FreeSlab_Forgets(c) ==              \* FAULTY: elems is overwritten before it is freed
    /\ pc[c] = "slabfree"
    /\ Holds(c, {}) /\ Goto(c, "room")
    /\ UNCHANGED <<slab, used, local, shared, turn, alive>>

FreeSlab(c) ==
    /\ pc[c] = "slabfree"
    /\ slab' = slab \cup got[c]
    /\ Holds(c, {}) /\ Goto(c, "room")
    /\ UNCHANGED <<used, local, shared, turn, alive>>

RoomTake(c) ==
    /\ pc[c] = "room"
    /\ Take /\ Holds(c, Taken)
    /\ Goto(c, "roomfree")
    /\ UNCHANGED <<slab, used, local, turn, alive>>

RoomFree(c) ==
    /\ pc[c] = "roomfree"
    /\ Release(Size(got[c]))
    /\ slab' = slab \cup got[c]
    /\ \/ turn[c] + 1 < Multiplier /\ Turn(c, turn[c] + 1) /\ Goto(c, "room")
                                   /\ Holds(c, {})
       \/ turn[c] + 1 = Multiplier /\ Done(c)
    /\ UNCHANGED <<used, local, alive>>

-----------------------------------------------------------------------------
Alloc(c) == AllocLocal(c) \/ AllocTake(c) \/ AllocFill(c) \/ AllocSlab(c)
Refill(c) == RefillGet(c) \/ RefillBulk(c) \/ RefillPublish(c) \/ RefillPartial(c)
FreeElem(c) == FreeLocal(c) \/ FreeShared(c) \/ FreePublish(c)
MakeRoom(c) == FreeSlab(c) \/ RoomTake(c) \/ RoomFree(c)

(* A BUG stops the machine.                                                  *)
Next ==
    /\ \A c \in Cpus : pc[c] \notin {"bug", "localbug"}
    /\ \/ Create \/ Destroy
       \/ \E c \in Cpus : Alloc(c) \/ Refill(c) \/ FreeElem(c) \/ MakeRoom(c)

Spec == Init /\ [][Next]_vars

-----------------------------------------------------------------------------
(* Properties *)

TypeOK ==
    /\ slab \subseteq Elems /\ used \subseteq Elems
    /\ \A c \in Cpus : local[c] \subseteq Elems /\ Size(local[c]) <= LocalSize
    /\ shared.items \subseteq Elems /\ shared.filling \in Nat /\ shared.draining \in Nat
    /\ Size(shared.items) + shared.filling + shared.draining <= SharedSize
    /\ \A c \in Cpus : got[c] \subseteq Elems /\ Size(got[c]) <= Bulk + 1
    /\ turn \in [Cpus -> 0 .. (Multiplier - 1)]
    /\ alive \in BOOLEAN

(* Where an element is: in the slab, with a user, in a queue or in a call.   *)
Places(x) ==
    {p \in {"slab", "used", "sharedq"} \X {"all"} :
        x \in CASE p[1] = "slab" -> slab [] p[1] = "used" -> used [] OTHER -> shared.items}
    \cup {p \in {"localq", "call"} \X Cpus :
        x \in IF p[1] = "localq" THEN local[p[2]] ELSE got[p[2]]}

(* No element is ever in two places: nobody gets one that another has, and   *)
(* none is freed to the slab while the pool still hands it out.              *)
OnePlace == \A x \in Elems : Size(Places(x)) <= 1

(* The pool loses no element, whatever becomes full or empty, except the one *)
(* that a refill forgets when the slab gives it less than a bulk.            *)
NothingForgotten ==
    [][\A x \in Elems : Places(x) # {} /\ Places(x)' = {}
          => \E c \in Cpus : pc[c] = "partial" /\ pc'[c] = "publish"]_vars

(* "Refill localq, should be empty, must succeed" (qmempool.c:230) and       *)
(* "dequeing from a full localq should always be possible" (:301).           *)
LocalqNeverDies == \A c \in Cpus : pc[c] # "localbug"
=============================================================================
