--------------------------- MODULE QmempoolProofs ---------------------------
(* Proofs about Qmempool, for any number of CPUs and elements and any sizes  *)
(* that qmempool_create accepts.  The inductive invariant has two halves:    *)
(* the places of the elements are disjoint, and the counts by which the      *)
(* queues decide are those of the elements on their way, so that the room    *)
(* that a call has reserved is there when it uses it.                        *)
EXTENDS Qmempool, FiniteSetTheorems, TLAPS

-----------------------------------------------------------------------------
(* Some(k, S): the k lowest numbers of S                                     *)

LEMMA SomeSubset == \A k, S : Some(k, S) \subseteq S
BY DEF Some

(* A finite set of numbers has a least and a greatest one: take the element  *)
(* with the smallest set of lower (higher) ones.                             *)
LEMMA FiniteMin ==
    ASSUME NEW S \in SUBSET Nat, IsFiniteSet(S), S # {}
    PROVE  \E m \in S : \A x \in S : m <= x
<1> DEFINE Below(x) == {y \in S : y < x}
           T == {Below(x) : x \in S}
<1>1. T \subseteq FiniteSubsetsOf(S)
  BY FS_Subset, FS_FiniteSubsetsOfFinite
<1>2. T # {}  OBVIOUS
<1>3. PICK B \in T : \A C \in T : ~ (<<C, B>> \in StrictSubsetOrdering(S))
  <2> HIDE DEF T
  <2> QED  BY <1>1, <1>2, FS_StrictSubsetOrderingWellFounded, WFMin
<1>4. PICK m \in S : B = Below(m)  OBVIOUS
<1>5. \A x \in S : m <= x
  <2> SUFFICES ASSUME NEW x \in S, x < m PROVE FALSE  OBVIOUS
  <2>0. S \subseteq Nat /\ x \in Nat /\ m \in Nat /\ Below(x) \in T  OBVIOUS
  <2> HIDE DEF T
  <2>1. Below(x) \subseteq Below(m)
    <3> SUFFICES ASSUME NEW y \in S, y < x PROVE y < m  OBVIOUS
    <3> QED  BY <2>0
  <2>2. x \in Below(m) /\ x \notin Below(x)  BY <2>0
  <2>3. <<Below(x), Below(m)>> \in StrictSubsetOrdering(S)
    BY <2>1, <2>2 DEF StrictSubsetOrdering
  <2> QED  BY <1>3, <1>4, <2>0, <2>3
<1> QED  BY <1>5

LEMMA FiniteMax ==
    ASSUME NEW S \in SUBSET Nat, IsFiniteSet(S), S # {}
    PROVE  \E m \in S : \A x \in S : x <= m
<1> DEFINE Above(x) == {y \in S : y > x}
           T == {Above(x) : x \in S}
<1>1. T \subseteq FiniteSubsetsOf(S)
  BY FS_Subset, FS_FiniteSubsetsOfFinite
<1>2. T # {}  OBVIOUS
<1>3. PICK B \in T : \A C \in T : ~ (<<C, B>> \in StrictSubsetOrdering(S))
  <2> HIDE DEF T
  <2> QED  BY <1>1, <1>2, FS_StrictSubsetOrderingWellFounded, WFMin
<1>4. PICK m \in S : B = Above(m)  OBVIOUS
<1>5. \A x \in S : x <= m
  <2> SUFFICES ASSUME NEW x \in S, x > m PROVE FALSE  OBVIOUS
  <2>0. S \subseteq Nat /\ x \in Nat /\ m \in Nat /\ Above(x) \in T  OBVIOUS
  <2> HIDE DEF T
  <2>1. Above(x) \subseteq Above(m)
    <3> SUFFICES ASSUME NEW y \in S, y > x PROVE y > m  OBVIOUS
    <3> QED  BY <2>0
  <2>2. x \in Above(m) /\ x \notin Above(x)  BY <2>0
  <2>3. <<Above(x), Above(m)>> \in StrictSubsetOrdering(S)
    BY <2>1, <2>2 DEF StrictSubsetOrdering
  <2> QED  BY <1>3, <1>4, <2>0, <2>3
<1> QED  BY <1>5

LEMMA SomeAtMost ==
    ASSUME NEW S \in SUBSET Nat, IsFiniteSet(S), NEW k \in Nat
    PROVE  Size(Some(k, S)) \in Nat /\ Size(Some(k, S)) <= k
<1> DEFINE T == Some(k, S)
           Below(x) == {y \in S : y < x}
<1>1. T \subseteq S /\ IsFiniteSet(T)  BY SomeSubset, FS_Subset
<1>2. Size(T) \in Nat  BY <1>1, FS_CardinalityType DEF Size
<1>3. CASE T = {}  BY <1>3, FS_EmptySet DEF Size
<1>4. CASE T # {}
  <2>1. PICK m \in T : \A x \in T : x <= m
    <3> HIDE DEF T
    <3> QED  BY <1>1, <1>4, FiniteMax
  <2>2. IsFiniteSet(Below(m)) /\ Cardinality(Below(m)) \in Nat
    BY FS_Subset, FS_CardinalityType
  <2>3. Cardinality(Below(m)) < k  BY <2>1 DEF Some, Size
  <2>4. T \ {m} \subseteq Below(m)
    <3> SUFFICES ASSUME NEW x \in T, x # m PROVE x \in Below(m)  OBVIOUS
    <3>1. x \in S /\ x \in Nat /\ m \in Nat /\ x <= m  BY <1>1, <2>1
    <3> QED  BY <3>1
  <2>5. Cardinality(T \ {m}) <= Cardinality(Below(m))
    BY <2>2, <2>4, FS_Subset
  <2>6. Cardinality(T \ {m}) = Cardinality(T) - 1  BY <1>1, <2>1, FS_RemoveElement
  <2> HIDE DEF T, Below
  <2> QED  BY <1>2, <2>2, <2>3, <2>5, <2>6 DEF Size, T
<1> QED  BY <1>2, <1>3, <1>4

LEMMA SomeSize ==
    ASSUME NEW S \in SUBSET Nat, IsFiniteSet(S), NEW k \in Nat
    PROVE  /\ Some(k, S) \subseteq S /\ IsFiniteSet(Some(k, S))
           /\ Size(S) \in Nat
           /\ Size(Some(k, S)) = IF k <= Size(S) THEN k ELSE Size(S)
<1> DEFINE T == Some(k, S)
           R == S \ T
           Below(x) == {y \in S : y < x}
<1>1. T \subseteq S /\ IsFiniteSet(T) /\ IsFiniteSet(R)
  BY SomeSubset, FS_Subset, FS_Difference
<1>2. Size(T) \in Nat /\ Size(S) \in Nat /\ Size(T) <= Size(S)
  BY <1>1, FS_CardinalityType, FS_Subset DEF Size
<1>3. Size(T) <= k  BY SomeAtMost
<1>4. CASE R = {}
  <2>1. T = S  BY <1>1, <1>4
  <2> HIDE DEF T
  <2> QED  BY <1>1, <1>2, <1>3, <2>1 DEF T
<1>5. CASE R # {}
  <2>1. PICK m \in R : \A x \in R : m <= x
    <3>1. R \in SUBSET Nat  OBVIOUS
    <3> HIDE DEF R
    <3> QED  BY <1>1, <1>5, <3>1, FiniteMin
  <2>2. Below(m) \subseteq T
    <3> SUFFICES ASSUME NEW x \in S, x < m, x \notin T PROVE FALSE  OBVIOUS
    <3>1. x \in R /\ x \in Nat /\ m \in Nat  OBVIOUS
    <3> HIDE DEF R, T
    <3> QED  BY <2>1, <3>1
  <2>3. Cardinality(Below(m)) \in Nat /\ Cardinality(Below(m)) <= Size(T)
    BY <1>1, <2>2, FS_Subset, FS_CardinalityType DEF Size
  <2>4. ~ (Cardinality(Below(m)) < k)  BY <2>1 DEF Some, Size
  <2> HIDE DEF T, Below, R
  <2> QED  BY <1>1, <1>2, <1>3, <2>3, <2>4 DEF T
<1> QED  BY <1>4, <1>5

(* Sizes of sets of elements add up.                                         *)
LEMMA SizeNat ==
    ASSUME NEW A \in SUBSET Elems
    PROVE  A \in SUBSET Nat /\ IsFiniteSet(A) /\ Size(A) \in Nat
BY PoolAssumption, FS_Subset, FS_CardinalityType DEF PoolAssumption, Size

LEMMA SizeEmpty == Size({}) = 0 /\ \A A \in SUBSET Elems : Size(A) = 0 <=> A = {}
BY SizeNat, FS_EmptySet DEF Size

LEMMA SizeCup ==
    ASSUME NEW A \in SUBSET Elems, NEW B \in SUBSET Elems, A \cap B = {}
    PROVE  Size(A \cup B) = Size(A) + Size(B)
<1>1. IsFiniteSet(A) /\ IsFiniteSet(B) /\ Size(A) \in Nat /\ Size(B) \in Nat  BY SizeNat
<1>2. Cardinality(A \cup B) = Cardinality(A) + Cardinality(B) - Cardinality(A \cap B)
  BY <1>1, FS_Union
<1>3. Cardinality(A \cap B) = 0  BY FS_EmptySet
<1> QED  BY <1>1, <1>2, <1>3 DEF Size

LEMMA SizeMinus ==
    ASSUME NEW A \in SUBSET Elems, NEW B \in SUBSET A
    PROVE  Size(A \ B) = Size(A) - Size(B)
<1>1. IsFiniteSet(A) /\ Size(A) \in Nat /\ Size(B) \in Nat /\ A \cap B = B  BY SizeNat
<1> QED  BY <1>1, FS_Difference DEF Size

LEMMA SomeOf ==
    ASSUME NEW A \in SUBSET Elems, NEW k \in Nat
    PROVE  /\ Some(k, A) \subseteq A
           /\ Size(Some(k, A)) \in Nat
           /\ Size(Some(k, A)) = IF k <= Size(A) THEN k ELSE Size(A)
BY SizeNat, SomeSize

-----------------------------------------------------------------------------
(* The inductive invariant                                                   *)

Labels == {"idle", "take", "fill", "slab", "refill", "bulk", "publish", "partial",
           "free", "store", "slabfree", "room", "roomfree", "bug"}

Types ==
    /\ slab \in SUBSET Elems /\ used \in SUBSET Elems
    /\ local \in [Cpus -> SUBSET Elems] /\ got \in [Cpus -> SUBSET Elems]
    /\ shared \in [items : SUBSET Elems, filling : Nat, draining : Nat]
    /\ pc \in [Cpus -> Labels]
    /\ turn \in [Cpus -> 0 .. (Multiplier - 1)]
    /\ alive \in BOOLEAN

(* No two places have an element in common.                                  *)
Apart ==
    /\ slab \cap used = {} /\ slab \cap shared.items = {} /\ used \cap shared.items = {}
    /\ \A c \in Cpus :
         /\ local[c] \cap slab = {} /\ local[c] \cap used = {}
         /\ local[c] \cap shared.items = {}
         /\ got[c] \cap slab = {} /\ got[c] \cap used = {} /\ got[c] \cap shared.items = {}
    /\ \A c, d \in Cpus :
         /\ local[c] \cap got[d] = {}
         /\ c # d => local[c] \cap local[d] = {} /\ got[c] \cap got[d] = {}

(* What a call has in its hands, and that a refill from sharedq finds localq *)
(* empty.                                                                    *)
Hands ==
    \A c \in Cpus :
        /\ pc[c] \in {"idle", "take", "slab", "room"} => got[c] = {}
        /\ pc[c] \in {"take", "fill"} => local[c] = {}
        /\ pc[c] \in {"fill", "publish"} => got[c] # {}
        /\ pc[c] \in {"fill", "partial", "free", "store", "slabfree", "roomfree"}
              => Size(got[c]) <= Bulk
        /\ pc[c] = "refill" => Size(got[c]) = 1
        /\ pc[c] = "bulk" => Size(got[c]) = Bulk + 1
        /\ pc[c] \in {"publish", "bug"} => Size(got[c]) <= Bulk + 1
        /\ Size(local[c]) <= LocalSize

(* The elements for which slots of sharedq are reserved, and those whose     *)
(* slots are not yet released.                                               *)
Fill  == [c \in Cpus |-> CASE pc[c] = "publish" -> Surplus(c)
                           [] pc[c] = "store"   -> got[c]
                           [] OTHER             -> {}]
Drain == [c \in Cpus |-> IF pc[c] \in {"fill", "roomfree"} THEN got[c] ELSE {}]
All(f) == UNION {f[c] : c \in Cpus}

Slots ==
    /\ shared.filling  = Size(All(Fill))
    /\ shared.draining = Size(All(Drain))
    /\ Size(shared.items) + shared.filling + shared.draining <= SharedSize

IInv == Types /\ Apart /\ Hands /\ Slots

-----------------------------------------------------------------------------
(* One CPU's change of what it fills or drains                               *)

LEMMA AllMoves ==
    ASSUME NEW f \in [Cpus -> SUBSET Elems], NEW g \in [Cpus -> SUBSET Elems],
           NEW c \in Cpus,
           \A d \in Cpus \ {c} : g[d] = f[d],
           \A d, e \in Cpus : d # e => f[d] \cap f[e] = {},
           \A d \in Cpus \ {c} : g[c] \cap f[d] = {}
    PROVE  Size(All(g)) = Size(All(f)) - Size(f[c]) + Size(g[c])
<1> DEFINE rest == UNION {f[d] : d \in Cpus \ {c}}
<1>1. rest \in SUBSET Elems /\ f[c] \in SUBSET Elems /\ g[c] \in SUBSET Elems  OBVIOUS
<1>2. All(f) = rest \cup f[c] /\ All(g) = rest \cup g[c]  BY DEF All
<1>3. rest \cap f[c] = {} /\ rest \cap g[c] = {}  OBVIOUS
<1> HIDE DEF rest
<1>4. Size(All(f)) = Size(rest) + Size(f[c])  BY <1>1, <1>2, <1>3, SizeCup
<1>5. Size(All(g)) = Size(rest) + Size(g[c])  BY <1>1, <1>2, <1>3, SizeCup
<1>6. Size(rest) \in Nat /\ Size(f[c]) \in Nat /\ Size(g[c]) \in Nat  BY <1>1, SizeNat
<1> QED  BY <1>4, <1>5, <1>6

(* A step of CPU c, which changes its own call only.                         *)
Own(c) ==
    \A d \in Cpus \ {c} : got'[d] = got[d] /\ pc'[d] = pc[d] /\ local'[d] = local[d]

LEMMA SlotsMove ==
    ASSUME IInv, NEW c \in Cpus, Own(c), Types', Apart'
    PROVE  /\ Size(All(Fill')) = Size(All(Fill)) - Size(Fill[c]) + Size(Fill'[c])
           /\ Size(All(Drain')) = Size(All(Drain)) - Size(Drain[c]) + Size(Drain'[c])
<1>1. /\ Fill \in [Cpus -> SUBSET Elems] /\ \A d \in Cpus : Fill[d] \subseteq got[d]
      /\ Drain \in [Cpus -> SUBSET Elems] /\ \A d \in Cpus : Drain[d] \subseteq got[d]
  BY SomeSubset DEF IInv, Types, Fill, Drain, Surplus
<1>2. /\ Fill' \in [Cpus -> SUBSET Elems] /\ \A d \in Cpus : Fill'[d] \subseteq got'[d]
      /\ Drain' \in [Cpus -> SUBSET Elems] /\ \A d \in Cpus : Drain'[d] \subseteq got'[d]
  BY SomeSubset DEF Types, Fill, Drain, Surplus
<1>3. \A d \in Cpus \ {c} : Fill'[d] = Fill[d] /\ Drain'[d] = Drain[d]
  BY DEF Own, Fill, Drain, Surplus
<1>4. \A d, e \in Cpus : d # e => got[d] \cap got[e] = {} /\ got'[d] \cap got'[e] = {}
  BY DEF IInv, Apart
<1>5. Size(All(Fill')) = Size(All(Fill)) - Size(Fill[c]) + Size(Fill'[c])
  <2>1. \A d, e \in Cpus : d # e => Fill[d] \cap Fill[e] = {}  BY <1>1, <1>4
  <2>2. \A d \in Cpus \ {c} : Fill'[c] \cap Fill[d] = {}  BY <1>2, <1>3, <1>4
  <2> QED  BY <1>1, <1>2, <1>3, <2>1, <2>2, AllMoves
<1>6. Size(All(Drain')) = Size(All(Drain)) - Size(Drain[c]) + Size(Drain'[c])
  <2>1. \A d, e \in Cpus : d # e => Drain[d] \cap Drain[e] = {}  BY <1>1, <1>4
  <2>2. \A d \in Cpus \ {c} : Drain'[c] \cap Drain[d] = {}  BY <1>2, <1>3, <1>4
  <2> QED  BY <1>1, <1>2, <1>3, <2>1, <2>2, AllMoves
<1> QED  BY <1>5, <1>6

-----------------------------------------------------------------------------
(* Every step keeps the invariant: first those between the calls ...         *)

LEMMA Constants ==
    /\ Bulk \in Nat /\ Bulk >= 1 /\ Multiplier \in Nat /\ Multiplier >= 1
    /\ LocalSize \in Nat /\ LocalSize >= Bulk /\ SharedSize \in Nat
BY PoolAssumption DEF PoolAssumption

LEMMA InitIInv == Init => IInv
<1> SUFFICES ASSUME Init PROVE IInv  OBVIOUS
<1>1. Types
  <2>1. 0 \in 0 .. (Multiplier - 1)  BY Constants
  <2> QED  BY <2>1 DEF Init, Types, NoItems, Labels
<1>2. Apart  BY DEF Init, Apart, NoItems
<1>3. Hands  BY SizeEmpty, PoolAssumption DEF Init, Hands, PoolAssumption
<1>4. Slots
  <2>1. All(Fill) = {} /\ All(Drain) = {}  BY DEF Init, All, Fill, Drain
  <2> QED  BY <2>1, SizeEmpty, PoolAssumption DEF Init, Slots, NoItems, PoolAssumption
<1> QED  BY <1>1, <1>2, <1>3, <1>4 DEF IInv

LEMMA IdleSlots ==
    ASSUME IInv, Idle
    PROVE  All(Fill) = {} /\ All(Drain) = {} /\ shared.filling = 0 /\ shared.draining = 0
<1>1. All(Fill) = {} /\ All(Drain) = {}  BY DEF Idle, All, Fill, Drain
<1> QED  BY <1>1, SizeEmpty DEF IInv, Slots

LEMMA CreateIInv == IInv /\ Create => IInv'
<1> SUFFICES ASSUME IInv, Create PROVE IInv'  OBVIOUS
<1>1. PICK n \in Preallocs : n <= Size(slab) /\ Created(n)  BY DEF Create
<1> USE DEF IInv, Create
<1>2. n \in Nat /\ n <= SharedSize /\ SharedSize \in Nat
  BY PoolAssumption DEF PoolAssumption
<1>3. /\ Some(n, slab) \subseteq slab /\ Size(Some(n, slab)) \in Nat
      /\ Size(Some(n, slab)) <= SharedSize
  BY <1>1, <1>2, SomeOf DEF Types
<1>4. /\ slab' = slab \ Some(n, slab) /\ alive' = TRUE
      /\ shared' = [items |-> Some(n, slab), filling |-> 0, draining |-> 0]
  BY <1>1 DEF Created, NoItems
<1>5. Types'  BY <1>3, <1>4 DEF Types
<1>6. Apart'  BY <1>3, <1>4 DEF Apart, Types
<1>7. Hands'  BY DEF Hands
<1>8. Slots'
  <2>1. All(Fill)' = {} /\ All(Drain)' = {}  BY IdleSlots DEF All, Fill, Drain, Surplus
  <2> QED  BY <1>2, <1>3, <1>4, <2>1, SizeEmpty DEF Slots
<1> QED  BY <1>5, <1>6, <1>7, <1>8

LEMMA DestroyIInv == IInv /\ Destroy => IInv'
<1> SUFFICES ASSUME IInv, Destroy PROVE IInv'  OBVIOUS
<1> USE DEF IInv, Destroy
<1>1. \A c \in Cpus : got[c] = {}  BY DEF Idle, Hands
<1>2. Types'
  <2>1. NoItems \in [items : SUBSET Elems, filling : Nat, draining : Nat]  BY DEF NoItems
  <2>2. slab' \in SUBSET Elems
    <3>1. shared.items \in SUBSET Elems /\ \A c \in Cpus : local[c] \in SUBSET Elems
      BY DEF Types
    <3> QED  BY <3>1 DEF Types
  <2>3. local' \in [Cpus -> SUBSET Elems]  OBVIOUS
  <2> QED  BY <2>1, <2>2, <2>3 DEF Types
<1>3. Apart'  BY <1>1 DEF Apart, NoItems
<1>4. Hands'  BY SizeEmpty, PoolAssumption DEF Hands, PoolAssumption
<1>5. Slots'
  <2>1. All(Fill)' = {} /\ All(Drain)' = {}  BY IdleSlots DEF All, Fill, Drain, Surplus
  <2> QED  BY <2>1, SizeEmpty, PoolAssumption DEF Slots, NoItems, PoolAssumption
<1> QED  BY <1>2, <1>3, <1>4, <1>5

-----------------------------------------------------------------------------
(* ... then those of main_qmempool_alloc ...                                 *)

LEMMA AllocLocalIInv ==
    ASSUME IInv, NEW c \in Cpus, AllocLocal(c)
    PROVE  IInv'
<1> USE DEF IInv, AllocLocal, Goto
<1>1. Some(1, local[c]) \subseteq local[c] /\ local[c] \subseteq Elems
  BY SomeSubset DEF Types
<1>2. Types'  BY <1>1 DEF Types, Labels
<1>3. Apart'
  <2>1. CASE local[c] # {}  BY <1>1, <2>1 DEF Apart, Types
  <2>2. CASE local[c] = {}  BY <2>2 DEF Apart
  <2> QED  BY <2>1, <2>2
<1>4. Hands'
  <2>1. Size(local'[c]) <= LocalSize
    <3>1. CASE local[c] # {}
      <4>1. local'[c] = local[c] \ Some(1, local[c])  BY <3>1 DEF Types
      <4>2. Size(local'[c]) <= Size(local[c])
        BY <1>1, <4>1, SizeMinus, SizeNat
      <4> QED  BY <1>1, <4>1, <4>2, Constants, SizeNat DEF Hands
    <3>2. CASE local[c] = {}  BY <3>2 DEF Hands
    <3> QED  BY <3>1, <3>2
  <2>2. \A d \in Cpus \ {c} : local'[d] = local[d]  BY DEF Types
  <2> QED  BY <2>1, <2>2 DEF Hands, Types
<1>5. Slots'
  <2>1. Fill' = Fill /\ Drain' = Drain  BY DEF Fill, Drain, Surplus, Types
  <2> QED  BY <2>1 DEF Slots
<1> QED  BY <1>2, <1>3, <1>4, <1>5

LEMMA TakenIs ==
    ASSUME IInv
    PROVE  /\ Taken \subseteq shared.items /\ Taken \in SUBSET Elems
           /\ Size(Taken) \in Nat /\ Size(Taken) <= Bulk
           /\ shared.items # {} => Taken # {}
           /\ Size(shared.items \ Taken) = Size(shared.items) - Size(Taken)
<1>1. shared.items \in SUBSET Elems  BY DEF IInv, Types
<1>2. Taken \subseteq shared.items  BY SomeSubset DEF Taken
<1>3. /\ Size(Taken) \in Nat /\ Size(shared.items) \in Nat
      /\ Size(Taken) = IF Bulk <= Size(shared.items) THEN Bulk ELSE Size(shared.items)
  BY <1>1, Constants, SomeOf, SizeNat DEF Taken
<1>4. shared.items # {} => Taken # {}
  BY <1>1, <1>2, <1>3, Constants, SizeEmpty
<1> QED  BY <1>1, <1>2, <1>3, <1>4, Constants, SizeMinus

LEMMA AllocTakeIInv ==
    ASSUME IInv, NEW c \in Cpus, AllocTake(c)
    PROVE  IInv'
<1> USE DEF IInv, AllocTake, Goto, Holds, Take
<1>0. /\ Taken \subseteq shared.items /\ Taken \in SUBSET Elems
      /\ Size(Taken) \in Nat /\ Size(Taken) <= Bulk
      /\ shared.items # {} => Taken # {}
      /\ Size(shared.items \ Taken) = Size(shared.items) - Size(Taken)
  BY TakenIs
<1>1. Types'
  <2>1. shared' \in [items : SUBSET Elems, filling : Nat, draining : Nat]
    <3>1. shared.draining + Size(Taken) \in Nat /\ shared.items \ Taken \in SUBSET Elems
      BY <1>0 DEF Types
    <3>2. \/ shared' = [shared EXCEPT !.items = shared.items \ Taken,
                                     !.draining = shared.draining + Size(Taken)]
          \/ shared' = shared
      OBVIOUS
    <3> HIDE DEF AllocTake, Take
    <3> QED  BY <3>1, <3>2 DEF Types
  <2>2. pc' \in [Cpus -> Labels] /\ got' \in [Cpus -> SUBSET Elems]
    BY <1>0 DEF Types, Labels
  <2> QED  BY <2>1, <2>2 DEF Types
<1>2. got' = [got EXCEPT ![c] = Taken] /\ shared'.items = shared.items \ Taken
  BY <1>0 DEF Types
<1>3. Apart'  BY <1>0, <1>2 DEF Apart, Types
<1>4. Hands'  BY <1>0, <1>2 DEF Hands, Types
<1>5. Own(c)  BY DEF Own, Types
<1>6. Fill[c] = {} /\ Fill'[c] = {} /\ Drain[c] = {}  BY DEF Fill, Drain, Types
<1>7. Slots'
  <2>1. CASE shared.items # {}
    <3>1. Drain'[c] = Taken  BY <1>2, <2>1 DEF Drain, Types
    <3>2. /\ shared'.filling = shared.filling
          /\ shared'.draining = shared.draining + Size(Taken)
      BY <2>1 DEF Types
    <3>3. All(Fill)' = All(Fill') /\ All(Drain)' = All(Drain')  BY DEF All
    <3> QED
      BY <1>0, <1>1, <1>2, <1>3, <1>5, <1>6, <3>1, <3>2, <3>3, SlotsMove, SizeEmpty, SizeNat
         DEF Slots, Types
  <2>2. CASE shared.items = {}
    <3>1. Fill' = Fill /\ Drain' = Drain  BY <2>2 DEF Fill, Drain, Surplus, Types
    <3> QED  BY <2>2, <3>1 DEF Slots
  <2> QED  BY <2>1, <2>2
<1> QED  BY <1>1, <1>3, <1>4, <1>7

LEMMA Covered ==
    ASSUME IInv, NEW c \in Cpus
    PROVE  /\ Fill[c] \in SUBSET Elems /\ Drain[c] \in SUBSET Elems
           /\ Size(Fill[c]) \in Nat /\ Size(Fill[c]) <= shared.filling
           /\ Size(Drain[c]) \in Nat /\ Size(Drain[c]) <= shared.draining
<1>1. \A d \in Cpus : Fill[d] \in SUBSET Elems /\ Drain[d] \in SUBSET Elems
  BY SomeSubset DEF IInv, Types, Fill, Drain, Surplus
<1>2. /\ All(Fill) \in SUBSET Elems /\ Fill[c] \subseteq All(Fill)
      /\ All(Drain) \in SUBSET Elems /\ Drain[c] \subseteq All(Drain)
  BY <1>1 DEF All
<1>3. Size(Fill[c]) <= Size(All(Fill)) /\ Size(Drain[c]) <= Size(All(Drain))
  BY <1>2, SizeNat, FS_Subset DEF Size
<1> QED  BY <1>1, <1>3, SizeNat DEF IInv, Slots

(* Of what a call has, the element it hands out and the others.              *)
LEMMA SurplusIs ==
    ASSUME IInv, NEW c \in Cpus
    PROVE  /\ got[c] \in SUBSET Elems
           /\ Some(1, got[c]) \subseteq got[c] /\ Surplus(c) \subseteq got[c]
           /\ Some(1, got[c]) \cap Surplus(c) = {}
           /\ Size(got[c]) \in Nat /\ Size(Surplus(c)) \in Nat
           /\ got[c] # {} => Size(Surplus(c)) = Size(got[c]) - 1
           /\ got[c] # {} => Size(Some(1, got[c])) = 1
<1>1. got[c] \in SUBSET Elems /\ Some(1, got[c]) \subseteq got[c]
  BY SomeSubset DEF IInv, Types
<1>2. Surplus(c) = got[c] \ Some(1, got[c])  BY DEF Surplus
<1>3. Size(Surplus(c)) = Size(got[c]) - Size(Some(1, got[c]))  BY <1>1, <1>2, SizeMinus
<1>4. /\ Size(got[c]) \in Nat /\ Size(Surplus(c)) \in Nat
      /\ got[c] # {} => Size(got[c]) # 0
  BY <1>1, <1>2, SizeNat, SizeEmpty
<1>5. /\ Size(Some(1, got[c])) \in Nat
      /\ Size(Some(1, got[c])) = IF 1 <= Size(got[c]) THEN 1 ELSE Size(got[c])
  BY <1>1, SomeOf
<1> QED  BY <1>1, <1>2, <1>3, <1>4, <1>5

LEMMA AllocFillIInv ==
    ASSUME IInv, NEW c \in Cpus, AllocFill(c)
    PROVE  IInv'
<1> USE DEF IInv, AllocFill, Holds, Release
<1>0. /\ got[c] \in SUBSET Elems
      /\ Some(1, got[c]) \subseteq got[c] /\ Surplus(c) \subseteq got[c]
      /\ Some(1, got[c]) \cap Surplus(c) = {}
      /\ Size(got[c]) \in Nat /\ Size(Surplus(c)) \in Nat
      /\ Size(Surplus(c)) = Size(got[c]) - 1 /\ Size(got[c]) <= Bulk
  BY SurplusIs DEF Hands
<1>1. local[c] = {} /\ LocalFits(c, Size(Surplus(c)))
  BY <1>0, SizeEmpty, Constants DEF Hands, LocalFits
<1>2. /\ pc' = [pc EXCEPT ![c] = "idle"] /\ got' = [got EXCEPT ![c] = {}]
      /\ local' = [local EXCEPT ![c] = Surplus(c)]
      /\ used' = used \cup Some(1, got[c])
      /\ shared' = [shared EXCEPT !.draining = @ - Size(got[c])]
  BY <1>1 DEF Goto, Types
<1>3. Drain[c] = got[c] /\ Size(got[c]) <= shared.draining
  <2>1. Drain[c] = got[c]  BY DEF Drain
  <2> QED  BY <2>1, Covered
<1>4. Types'
  <2>1. shared' \in [items : SUBSET Elems, filling : Nat, draining : Nat]
    BY <1>0, <1>2, <1>3 DEF Types
  <2> QED  BY <1>0, <1>2, <2>1 DEF Types, Labels
<1>5. Apart'
  <2>1. shared'.items = shared.items  BY <1>2 DEF Types
  <2> QED  BY <1>0, <1>2, <2>1 DEF Apart, Types
<1>6. Hands'
  <2>1. local'[c] = Surplus(c)  BY <1>2 DEF Types
  <2>2. Size(Surplus(c)) <= LocalSize  BY <1>0, Constants
  <2>3. pc'[c] = "idle" /\ got'[c] = {}  BY <1>2 DEF Types
  <2>4. \A d \in Cpus \ {c} : pc'[d] = pc[d] /\ got'[d] = got[d] /\ local'[d] = local[d]
    BY <1>2 DEF Types
  <2> QED  BY <2>1, <2>2, <2>3, <2>4, SizeEmpty DEF Hands
<1>7. Slots'
  <2>1. Own(c)  BY <1>2 DEF Own, Types
  <2>2. Fill[c] = {} /\ Fill'[c] = {} /\ Drain'[c] = {}  BY <1>2 DEF Fill, Drain, Types
  <2>3. /\ shared'.filling = shared.filling /\ shared'.items = shared.items
        /\ shared'.draining = shared.draining - Size(got[c])
    BY <1>2 DEF Types
  <2>4. All(Fill)' = All(Fill') /\ All(Drain)' = All(Drain')  BY DEF All
  <2> QED
    BY <1>0, <1>3, <1>4, <1>5, <2>1, <2>2, <2>3, <2>4, SlotsMove, SizeEmpty, SizeNat, Constants
       DEF Slots, Types
<1> QED  BY <1>4, <1>5, <1>6, <1>7

LEMMA AllocSlabIInv ==
    ASSUME IInv, NEW c \in Cpus, AllocSlab(c)
    PROVE  IInv'
<1> USE DEF IInv, AllocSlab, Goto, Holds
<1>1. CASE slab # {} /\ got' = [got EXCEPT ![c] = Some(1, slab)]
           /\ slab' = slab \ Some(1, slab) /\ pc' = [pc EXCEPT ![c] = "refill"]
           /\ UNCHANGED turn
  <2>1. Some(1, slab) \subseteq slab /\ Size(Some(1, slab)) = 1
    <3>1. Size(slab) \in Nat /\ Size(slab) # 0  BY <1>1, SizeNat, SizeEmpty DEF Types
    <3> QED  BY <3>1, SomeOf DEF Types
  <2>2. Types'  BY <1>1, <2>1 DEF Types, Labels
  <2>3. Apart'  BY <1>1, <2>1 DEF Apart, Types
  <2>4. Hands'  BY <1>1, <2>1 DEF Hands, Types
  <2>5. Slots'
    <3>1. Fill' = Fill /\ Drain' = Drain  BY <1>1 DEF Fill, Drain, Surplus, Types
    <3> QED  BY <3>1 DEF Slots
  <2> QED  BY <2>2, <2>3, <2>4, <2>5
<1>2. CASE Done(c) /\ UNCHANGED slab
  <2> USE DEF Done, Turn
  <2>1. Types'
    <3>1. 0 \in 0 .. (Multiplier - 1)  BY Constants
    <3> QED  BY <1>2, <3>1 DEF Types, Labels
  <2>2. Apart'  BY <1>2 DEF Apart, Types
  <2>3. Hands'  BY <1>2 DEF Hands, Types
  <2>4. Slots'
    <3>1. Fill' = Fill /\ Drain' = Drain  BY <1>2 DEF Fill, Drain, Surplus, Types
    <3> QED  BY <3>1 DEF Slots
  <2> QED  BY <2>1, <2>2, <2>3, <2>4
<1> QED  BY <1>1, <1>2

-----------------------------------------------------------------------------
(* ... of the refill from the slab ...                                       *)

LEMMA RefillGetIInv ==
    ASSUME IInv, NEW c \in Cpus, RefillGet(c)
    PROVE  IInv'
<1> USE DEF IInv
<1>1. PICK j \in 0 .. Bulk :
        /\ j <= Size(slab)
        /\ slab' = slab \ Some(j, slab)
        /\ got' = [got EXCEPT ![c] = got[c] \cup Some(j, slab)]
        /\ pc' = [pc EXCEPT ![c] = IF j = Bulk THEN "bulk" ELSE "partial"]
  BY DEF RefillGet, Holds, Goto
<1>2. pc[c] = "refill" /\ UNCHANGED <<used, local, shared, turn, alive>>
  BY DEF RefillGet
<1>3. Some(j, slab) \subseteq slab /\ Size(Some(j, slab)) = j /\ j \in Nat /\ j <= Bulk
  BY <1>1, SomeOf, Constants DEF Types
<1>4. Size(got'[c]) = j + 1
  <2>1. Size(got[c] \cup Some(j, slab)) = Size(got[c]) + Size(Some(j, slab))
    BY <1>3, SizeCup DEF Types, Apart
  <2> QED  BY <1>1, <1>2, <1>3, <2>1 DEF Types, Hands
<1>5. Types'  BY <1>1, <1>2, <1>3 DEF Types, Labels
<1>6. Apart'  BY <1>1, <1>2, <1>3 DEF Apart, Types
<1>7. Hands'
  <2>1. j # Bulk => j + 1 <= Bulk  BY <1>3, Constants
  <2> QED  BY <1>1, <1>2, <1>3, <1>4, <2>1 DEF Hands, Types
<1>8. Slots'
  <2>1. Fill' = Fill /\ Drain' = Drain  BY <1>1, <1>2 DEF Fill, Drain, Surplus, Types
  <2> QED  BY <1>2, <2>1 DEF Slots
<1> QED  BY <1>5, <1>6, <1>7, <1>8

LEMMA RefillBulkIInv ==
    ASSUME IInv, NEW c \in Cpus, RefillBulk(c)
    PROVE  IInv'
<1> USE DEF IInv, RefillBulk, Goto, Reserve
<1>0. /\ Size(got[c]) = Bulk + 1 /\ got[c] # {} /\ Size(Surplus(c)) = Bulk
  <2>1. Size(got[c]) = Bulk + 1  BY DEF Hands
  <2>2. got[c] # {}  BY <2>1, SizeEmpty, Constants
  <2> QED  BY <2>1, <2>2, SurplusIs, Constants
<1>1. Types'
  <2>1. shared' \in [items : SUBSET Elems, filling : Nat, draining : Nat]
    BY Constants DEF Types
  <2> QED  BY <2>1 DEF Types, Labels
<1>2. Apart'  BY DEF Apart, Types
<1>3. Hands'  BY <1>0, Constants DEF Hands, Types
<1>4. Own(c)  BY DEF Own, Types
<1>5. Fill[c] = {} /\ Drain[c] = {} /\ Drain'[c] = {}  BY DEF Fill, Drain, Types
<1>6. All(Fill)' = All(Fill') /\ All(Drain)' = All(Drain')  BY DEF All
<1>7. Slots'
  <2>1. CASE SharedFits(Bulk) /\ pc' = [pc EXCEPT ![c] = "publish"]
    <3>1. Fill'[c] = Surplus(c)  BY <2>1 DEF Fill, Surplus, Types
    <3>2. /\ shared'.filling = shared.filling + Bulk /\ shared'.items = shared.items
          /\ shared'.draining = shared.draining
      BY <2>1 DEF Types, SharedFits
    <3> QED
      BY <1>0, <1>1, <1>2, <1>4, <1>5, <1>6, <2>1, <3>1, <3>2, SlotsMove, SizeEmpty, SizeNat,
         Constants
         DEF Slots, Types, SharedFits
  <2>2. CASE pc' = [pc EXCEPT ![c] = "bug"] /\ UNCHANGED shared
    <3>1. Fill' = Fill /\ Drain' = Drain  BY <2>2 DEF Fill, Drain, Surplus, Types
    <3> QED  BY <2>2, <3>1 DEF Slots
  <2> QED  BY <2>1, <2>2
<1> QED  BY <1>1, <1>2, <1>3, <1>7

LEMMA RefillPublishIInv ==
    ASSUME IInv, NEW c \in Cpus, RefillPublish(c)
    PROVE  IInv'
<1> USE DEF IInv
<1>0. /\ got[c] \in SUBSET Elems
      /\ Some(1, got[c]) \subseteq got[c] /\ Surplus(c) \subseteq got[c]
      /\ Some(1, got[c]) \cap Surplus(c) = {}
      /\ Size(Surplus(c)) \in Nat /\ Size(Some(1, got[c])) = 1
  BY SurplusIs DEF Hands, RefillPublish
<1>1. /\ pc[c] = "publish" /\ UNCHANGED <<slab, local, alive>>
      /\ shared' = [shared EXCEPT !.filling = shared.filling - Size(Surplus(c)),
                                  !.items = shared.items \cup Surplus(c)]
  BY DEF RefillPublish, Publish
<1>2. \/ /\ turn' = [turn EXCEPT ![c] = turn[c] + 1] /\ turn[c] + 1 < Multiplier
         /\ pc' = [pc EXCEPT ![c] = "refill"]
         /\ got' = [got EXCEPT ![c] = Some(1, got[c])] /\ used' = used
      \/ /\ turn' = [turn EXCEPT ![c] = 0]
         /\ pc' = [pc EXCEPT ![c] = "idle"]
         /\ got' = [got EXCEPT ![c] = {}] /\ used' = used \cup Some(1, got[c])
  BY DEF RefillPublish, Done, Turn, Goto, Holds
<1>3. Fill[c] = Surplus(c) /\ Size(Surplus(c)) <= shared.filling
  <2>1. Fill[c] = Surplus(c)  BY <1>1 DEF Fill
  <2> QED  BY <2>1, Covered
<1>4. /\ shared'.filling = shared.filling - Size(Surplus(c))
      /\ shared'.items = shared.items \cup Surplus(c)
      /\ shared'.draining = shared.draining
  BY <1>1 DEF Types
<1>5. Types'
  <2>1. shared' \in [items : SUBSET Elems, filling : Nat, draining : Nat]
    <3>1. /\ shared.filling - Size(Surplus(c)) \in Nat
          /\ shared.items \cup Surplus(c) \in SUBSET Elems
      BY <1>0, <1>3 DEF Types
    <3> QED  BY <1>1, <3>1 DEF Types
  <2>2. turn' \in [Cpus -> 0 .. (Multiplier - 1)]  BY <1>2, Constants DEF Types
  <2>3. pc' \in [Cpus -> Labels] /\ got' \in [Cpus -> SUBSET Elems] /\ used' \in SUBSET Elems
    BY <1>0, <1>2 DEF Types, Labels
  <2> QED  BY <1>1, <2>1, <2>2, <2>3 DEF Types
<1>6. Apart'
  <2>1. \A d \in Cpus \ {c} : got'[d] = got[d]  BY <1>2 DEF Types
  <2>2. \/ got'[c] = Some(1, got[c]) /\ used' = used
        \/ got'[c] = {} /\ used' = used \cup Some(1, got[c])
    BY <1>2 DEF Types
  <2> QED  BY <1>0, <1>1, <1>4, <2>1, <2>2 DEF Apart
<1>7. Hands'  BY <1>0, <1>1, <1>2 DEF Hands, Types
<1>8. Slots'
  <2>1. Own(c)  BY <1>1, <1>2 DEF Own, Types
  <2>2. Fill'[c] = {} /\ Drain[c] = {} /\ Drain'[c] = {}
    BY <1>1, <1>2 DEF Fill, Drain, Types
  <2>3. Size(shared.items \cup Surplus(c)) = Size(shared.items) + Size(Surplus(c))
    BY <1>0, SizeCup DEF Apart, Types
  <2>4. All(Fill)' = All(Fill') /\ All(Drain)' = All(Drain')  BY DEF All
  <2> QED
    BY <1>0, <1>3, <1>4, <1>5, <1>6, <2>1, <2>2, <2>3, <2>4, SlotsMove, SizeEmpty, SizeNat,
       Constants
       DEF Slots, Types
<1> QED  BY <1>5, <1>6, <1>7, <1>8

LEMMA RefillPartialIInv ==
    ASSUME IInv, NEW c \in Cpus, RefillPartial(c)
    PROVE  IInv'
<1> USE DEF IInv
<1> DEFINE n == Size(got[c]) - 2
<1>0. /\ pc[c] = "partial" /\ UNCHANGED <<slab, used, local, alive>>
      /\ \/ /\ SharedFits(n) /\ shared' = [shared EXCEPT !.filling = shared.filling + n]
            /\ got' = [got EXCEPT ![c] = Some(n + 1, got[c])]
            /\ turn' = [turn EXCEPT ![c] = Multiplier - 1]
            /\ pc' = [pc EXCEPT ![c] = "publish"]
         \/ /\ pc' = [pc EXCEPT ![c] = "bug"] /\ UNCHANGED <<shared, got, turn>>
  BY DEF RefillPartial, Reserve, Holds, Turn, Goto
<1>1. got[c] \in SUBSET Elems /\ Size(got[c]) \in Nat /\ Size(got[c]) <= Bulk
  BY <1>0, SizeNat DEF Types, Hands
<1>2. CASE /\ SharedFits(n) /\ shared' = [shared EXCEPT !.filling = shared.filling + n]
           /\ got' = [got EXCEPT ![c] = Some(n + 1, got[c])]
           /\ turn' = [turn EXCEPT ![c] = Multiplier - 1]
           /\ pc' = [pc EXCEPT ![c] = "publish"]
  <2>1. n \in Nat /\ n + 1 \in Nat /\ n > 0 /\ n + 1 <= Size(got[c])
    BY <1>1, <1>2 DEF SharedFits
  <2>2. Some(n + 1, got[c]) \subseteq got[c] /\ Size(Some(n + 1, got[c])) = n + 1
    BY <1>1, <2>1, SomeOf
  <2> HIDE DEF n
  <2>3. Types'
    <3>1. shared' \in [items : SUBSET Elems, filling : Nat, draining : Nat]
      BY <1>2, <2>1 DEF Types
    <3> QED  BY <1>0, <1>1, <1>2, <2>2, <3>1, Constants DEF Types, Labels
  <2>4. Apart'
    <3>1. shared'.items = shared.items  BY <1>2 DEF Types
    <3> QED  BY <1>0, <1>2, <2>2, <3>1 DEF Apart, Types
  <2>5. got'[c] # {}  BY <1>1, <1>2, <2>1, <2>2, SizeEmpty DEF Types
  <2>6. Hands'
    <3>1. Size(got'[c]) <= Bulk + 1  BY <1>1, <1>2, <2>1, <2>2, Constants DEF Types
    <3> QED  BY <1>0, <1>2, <2>5, <3>1 DEF Hands, Types
  <2>7. Slots'
    <3>1. Own(c)  BY <1>0, <1>2 DEF Own, Types
    <3>2. Fill[c] = {} /\ Drain[c] = {} /\ Drain'[c] = {}
      BY <1>0, <1>2 DEF Fill, Drain, Types
    <3>3. Fill'[c] = got'[c] \ Some(1, got'[c]) /\ got'[c] = Some(n + 1, got[c])
      BY <1>2 DEF Fill, Surplus, Types
    <3>4. Size(Fill'[c]) = n
      <4>1. got'[c] \in SUBSET Elems /\ Size(got'[c]) = n + 1  BY <1>1, <2>2, <3>3
      <4>2. Some(1, got'[c]) \subseteq got'[c] /\ Size(Some(1, got'[c])) = 1
        BY <2>1, <4>1, SomeOf
      <4> QED  BY <2>1, <3>3, <4>1, <4>2, SizeMinus
    <3>5. /\ shared'.filling = shared.filling + n /\ shared'.items = shared.items
          /\ shared'.draining = shared.draining
      BY <1>2 DEF Types
    <3>6. All(Fill)' = All(Fill') /\ All(Drain)' = All(Drain')  BY DEF All
    <3> QED
      BY <1>2, <2>1, <2>3, <2>4, <3>1, <3>2, <3>4, <3>5, <3>6, SlotsMove, SizeEmpty, SizeNat,
         Constants
         DEF Slots, Types, SharedFits
  <2> QED  BY <2>3, <2>4, <2>6, <2>7
<1>3. CASE pc' = [pc EXCEPT ![c] = "bug"] /\ UNCHANGED <<shared, got, turn>>
  <2>1. Types'  BY <1>0, <1>3 DEF Types, Labels
  <2>2. Apart'  BY <1>0, <1>3 DEF Apart
  <2>3. Hands'  BY <1>0, <1>1, <1>3, Constants DEF Hands, Types
  <2>4. Slots'
    <3>1. Fill' = Fill /\ Drain' = Drain  BY <1>0, <1>3 DEF Fill, Drain, Surplus, Types
    <3> QED  BY <1>3, <3>1 DEF Slots
  <2> QED  BY <2>1, <2>2, <2>3, <2>4
<1> QED  BY <1>0, <1>2, <1>3

-----------------------------------------------------------------------------
(* ... and those of main_qmempool_free.                                      *)

LEMMA FreeLocalIInv ==
    ASSUME IInv, NEW c \in Cpus, FreeLocal(c)
    PROVE  IInv'
<1> USE DEF IInv
<1> DEFINE x == Some(1, used)
           b == Some(Bulk - 1, local[c])
<1>0. /\ pc[c] = "idle" /\ used' = used \ x /\ UNCHANGED <<slab, shared, turn, alive>>
      /\ \/ /\ LocalFits(c, 1) /\ local' = [local EXCEPT ![c] = local[c] \cup x]
            /\ UNCHANGED <<pc, got>>
         \/ /\ ~LocalFits(c, 1) /\ got' = [got EXCEPT ![c] = x \cup b]
            /\ local' = [local EXCEPT ![c] = local[c] \ b]
            /\ pc' = [pc EXCEPT ![c] = IF local[c] = {} THEN "localbug" ELSE "free"]
  BY DEF FreeLocal, Holds, Goto
<1>1. /\ x \subseteq used /\ x \in SUBSET Elems /\ Size(x) \in Nat /\ Size(x) <= 1
      /\ local[c] \in SUBSET Elems /\ Size(local[c]) \in Nat
      /\ b \subseteq local[c] /\ Size(b) \in Nat /\ Size(b) <= Bulk - 1
  <2>1. Bulk - 1 \in Nat  BY Constants
  <2>2. used \in SUBSET Elems /\ local[c] \in SUBSET Elems  BY DEF Types
  <2>3. Size(used) \in Nat /\ Size(local[c]) \in Nat  BY <2>2, SizeNat
  <2>4. x \subseteq used /\ Size(x) \in Nat /\ Size(x) <= 1  BY <2>2, <2>3, SomeOf
  <2>5. b \subseteq local[c] /\ Size(b) \in Nat /\ Size(b) <= Bulk - 1
    BY <2>1, <2>2, <2>3, SomeOf
  <2> QED  BY <2>2, <2>3, <2>4, <2>5
<1>2. x \cap local[c] = {} /\ x \cap b = {}  BY <1>1 DEF Apart
<1> HIDE DEF x, b
<1>3. CASE LocalFits(c, 1) /\ local' = [local EXCEPT ![c] = local[c] \cup x]
           /\ UNCHANGED <<pc, got>>
  <2>1. Types'  BY <1>0, <1>1, <1>3 DEF Types
  <2>2. Apart'  BY <1>0, <1>1, <1>3 DEF Apart, Types
  <2>3. Size(local'[c]) <= LocalSize
    <3>1. Size(local[c] \cup x) = Size(local[c]) + Size(x)  BY <1>1, <1>2, SizeCup
    <3> QED  BY <1>1, <1>3, <3>1, Constants DEF LocalFits, Types
  <2>4. Hands'  BY <1>0, <1>3, <2>3 DEF Hands, Types
  <2>5. Slots'
    <3>1. Fill' = Fill /\ Drain' = Drain  BY <1>3 DEF Fill, Drain, Surplus
    <3> QED  BY <1>0, <3>1 DEF Slots
  <2> QED  BY <2>1, <2>2, <2>4, <2>5
<1>4. CASE /\ ~LocalFits(c, 1) /\ got' = [got EXCEPT ![c] = x \cup b]
           /\ local' = [local EXCEPT ![c] = local[c] \ b]
           /\ pc' = [pc EXCEPT ![c] = IF local[c] = {} THEN "localbug" ELSE "free"]
  <2>1. local[c] # {}  BY <1>1, <1>4, Constants, SizeEmpty DEF LocalFits
  <2>2. pc' = [pc EXCEPT ![c] = "free"]  BY <1>4, <2>1
  <2>3. Types'  BY <1>0, <1>1, <1>4, <2>2 DEF Types, Labels
  <2>4. Apart'
    <3>1. /\ got'[c] = x \cup b /\ local'[c] = local[c] \ b
          /\ \A d \in Cpus \ {c} : got'[d] = got[d] /\ local'[d] = local[d]
      BY <1>4 DEF Types
    <3> QED  BY <1>0, <1>1, <1>2, <3>1 DEF Apart
  <2>5. Hands'
    <3>1. Size(x \cup b) = Size(x) + Size(b)  BY <1>1, <1>2, SizeCup
    <3>2. Size(local[c] \ b) <= LocalSize  BY <1>1, Constants, SizeMinus DEF Hands
    <3>3. Size(x \cup b) <= Bulk  BY <1>1, <3>1, Constants
    <3> QED  BY <1>4, <2>2, <3>2, <3>3 DEF Hands, Types
  <2>6. Slots'
    <3>1. Fill' = Fill /\ Drain' = Drain  BY <1>0, <1>4, <2>2 DEF Fill, Drain, Surplus, Types
    <3> QED  BY <1>0, <3>1 DEF Slots
  <2> QED  BY <2>3, <2>4, <2>5, <2>6
<1> QED  BY <1>0, <1>3, <1>4

LEMMA FreeSharedIInv ==
    ASSUME IInv, NEW c \in Cpus, FreeShared(c)
    PROVE  IInv'
<1> USE DEF IInv, FreeShared, Goto, Reserve
<1>0. got[c] \in SUBSET Elems /\ Size(got[c]) \in Nat /\ Size(got[c]) <= Bulk
  BY SizeNat DEF Types, Hands
<1>1. Types'
  <2>1. shared' \in [items : SUBSET Elems, filling : Nat, draining : Nat]
    BY <1>0 DEF Types
  <2> QED  BY <2>1 DEF Types, Labels
<1>2. Apart'  BY DEF Apart, Types
<1>3. Hands'  BY <1>0 DEF Hands, Types
<1>4. Own(c)  BY DEF Own, Types
<1>5. Fill[c] = {} /\ Drain[c] = {} /\ Drain'[c] = {}  BY DEF Fill, Drain, Types
<1>6. All(Fill)' = All(Fill') /\ All(Drain)' = All(Drain')  BY DEF All
<1>7. Slots'
  <2>1. CASE SharedFits(Size(got[c])) /\ pc' = [pc EXCEPT ![c] = "store"]
    <3>1. Fill'[c] = got[c]  BY <2>1 DEF Fill, Types
    <3>2. /\ shared'.filling = shared.filling + Size(got[c]) /\ shared'.items = shared.items
          /\ shared'.draining = shared.draining
      BY <2>1 DEF Types, SharedFits
    <3> QED
      BY <1>0, <1>1, <1>2, <1>4, <1>5, <1>6, <2>1, <3>1, <3>2, SlotsMove, SizeEmpty, SizeNat,
         Constants
         DEF Slots, Types, SharedFits
  <2>2. CASE pc' = [pc EXCEPT ![c] = "slabfree"] /\ UNCHANGED shared
    <3>1. Fill' = Fill /\ Drain' = Drain  BY <2>2 DEF Fill, Drain, Surplus, Types
    <3> QED  BY <2>2, <3>1 DEF Slots
  <2> QED  BY <2>1, <2>2
<1> QED  BY <1>1, <1>2, <1>3, <1>7

LEMMA FreePublishIInv ==
    ASSUME IInv, NEW c \in Cpus, FreePublish(c)
    PROVE  IInv'
<1> USE DEF IInv
<1>0. /\ pc[c] = "store" /\ UNCHANGED <<slab, used, local, alive>>
      /\ shared' = [shared EXCEPT !.filling = shared.filling - Size(got[c]),
                                  !.items = shared.items \cup got[c]]
      /\ pc' = [pc EXCEPT ![c] = "idle"] /\ got' = [got EXCEPT ![c] = {}]
      /\ turn' = [turn EXCEPT ![c] = 0]
  BY DEF FreePublish, Publish, Done, Goto, Holds, Turn
<1>1. got[c] \in SUBSET Elems /\ Size(got[c]) \in Nat  BY SizeNat DEF Types
<1>2. Fill[c] = got[c] /\ Size(got[c]) <= shared.filling
  <2>1. Fill[c] = got[c]  BY <1>0 DEF Fill
  <2> QED  BY <2>1, Covered
<1>3. /\ shared'.filling = shared.filling - Size(got[c])
      /\ shared'.items = shared.items \cup got[c]
      /\ shared'.draining = shared.draining
  BY <1>0 DEF Types
<1>4. Types'
  <2>1. shared' \in [items : SUBSET Elems, filling : Nat, draining : Nat]
    <3>1. shared.filling - Size(got[c]) \in Nat /\ shared.items \cup got[c] \in SUBSET Elems
      BY <1>1, <1>2 DEF Types
    <3> QED  BY <1>0, <3>1 DEF Types
  <2> QED  BY <1>0, <2>1, Constants DEF Types, Labels
<1>5. Apart'  BY <1>0, <1>3 DEF Apart, Types
<1>6. Hands'  BY <1>0 DEF Hands, Types
<1>7. Slots'
  <2>1. Own(c)  BY <1>0 DEF Own, Types
  <2>2. Fill'[c] = {} /\ Drain[c] = {} /\ Drain'[c] = {}  BY <1>0 DEF Fill, Drain, Types
  <2>3. Size(shared.items \cup got[c]) = Size(shared.items) + Size(got[c])
    BY <1>1, SizeCup DEF Apart, Types
  <2>4. All(Fill)' = All(Fill') /\ All(Drain)' = All(Drain')  BY DEF All
  <2> QED
    BY <1>1, <1>2, <1>3, <1>4, <1>5, <2>1, <2>2, <2>3, <2>4, SlotsMove, SizeEmpty, SizeNat,
       Constants
       DEF Slots, Types
<1> QED  BY <1>4, <1>5, <1>6, <1>7

LEMMA FreeSlabIInv ==
    ASSUME IInv, NEW c \in Cpus, FreeSlab(c)
    PROVE  IInv'
<1> USE DEF IInv, FreeSlab, Goto, Holds
<1>1. Types'  BY DEF Types, Labels
<1>2. Apart'  BY DEF Apart, Types
<1>3. Hands'  BY DEF Hands, Types
<1>4. Slots'
  <2>1. Fill' = Fill /\ Drain' = Drain  BY DEF Fill, Drain, Surplus, Types
  <2> QED  BY <2>1 DEF Slots
<1> QED  BY <1>1, <1>2, <1>3, <1>4

LEMMA RoomTakeIInv ==
    ASSUME IInv, NEW c \in Cpus, RoomTake(c)
    PROVE  IInv'
<1> USE DEF IInv
<1>0. /\ pc[c] = "room" /\ UNCHANGED <<slab, used, local, turn, alive>>
      /\ shared' = [shared EXCEPT !.items = shared.items \ Taken,
                                  !.draining = shared.draining + Size(Taken)]
      /\ got' = [got EXCEPT ![c] = Taken] /\ pc' = [pc EXCEPT ![c] = "roomfree"]
  BY DEF RoomTake, Take, Holds, Goto
<1>1. /\ Taken \subseteq shared.items /\ Taken \in SUBSET Elems
      /\ Size(Taken) \in Nat /\ Size(Taken) <= Bulk
      /\ Size(shared.items \ Taken) = Size(shared.items) - Size(Taken)
  BY TakenIs
<1>2. /\ shared'.filling = shared.filling /\ shared'.items = shared.items \ Taken
      /\ shared'.draining = shared.draining + Size(Taken)
  BY <1>0 DEF Types
<1>3. Types'
  <2>1. shared' \in [items : SUBSET Elems, filling : Nat, draining : Nat]
    <3>1. shared.draining + Size(Taken) \in Nat /\ shared.items \ Taken \in SUBSET Elems
      BY <1>1 DEF Types
    <3> QED  BY <1>0, <3>1 DEF Types
  <2> QED  BY <1>0, <1>1, <2>1 DEF Types, Labels
<1>4. Apart'  BY <1>0, <1>1, <1>2 DEF Apart, Types
<1>5. Hands'  BY <1>0, <1>1 DEF Hands, Types
<1>6. Slots'
  <2>1. Own(c)  BY <1>0 DEF Own, Types
  <2>2. Fill[c] = {} /\ Fill'[c] = {} /\ Drain[c] = {} /\ Drain'[c] = Taken
    BY <1>0 DEF Fill, Drain, Types
  <2>3. All(Fill)' = All(Fill') /\ All(Drain)' = All(Drain')  BY DEF All
  <2>4. /\ Size(All(Fill')) = Size(All(Fill)) - Size(Fill[c]) + Size(Fill'[c])
        /\ Size(All(Drain')) = Size(All(Drain)) - Size(Drain[c]) + Size(Drain'[c])
    BY <1>3, <1>4, <2>1, SlotsMove
  <2>5. Size(All(Fill)) \in Nat /\ Size(All(Drain)) \in Nat /\ Size(shared.items) \in Nat
    BY SizeNat DEF Types, Slots
  <2>6. Size(All(Fill')) = Size(All(Fill)) /\ Size(All(Drain')) = Size(All(Drain)) + Size(Taken)
    <3>1. Size({}) = 0  BY SizeEmpty
    <3> QED  BY <1>1, <2>2, <2>4, <2>5, <3>1
  <2>7. Size(shared'.items) + shared'.filling + shared'.draining <= SharedSize
    <3>1. Size(shared'.items) = Size(shared.items) - Size(Taken)  BY <1>1, <1>2
    <3> QED  BY <1>1, <1>2, <2>5, <3>1, Constants DEF Slots
  <2> QED  BY <1>2, <2>3, <2>6, <2>7 DEF Slots
<1> QED  BY <1>3, <1>4, <1>5, <1>6

LEMMA RoomFreeIInv ==
    ASSUME IInv, NEW c \in Cpus, RoomFree(c)
    PROVE  IInv'
<1> USE DEF IInv
<1>0. /\ pc[c] = "roomfree" /\ UNCHANGED <<used, local, alive>>
      /\ shared' = [shared EXCEPT !.draining = shared.draining - Size(got[c])]
      /\ slab' = slab \cup got[c] /\ got' = [got EXCEPT ![c] = {}]
      /\ \/ /\ turn[c] + 1 < Multiplier /\ turn' = [turn EXCEPT ![c] = turn[c] + 1]
            /\ pc' = [pc EXCEPT ![c] = "room"]
         \/ turn' = [turn EXCEPT ![c] = 0] /\ pc' = [pc EXCEPT ![c] = "idle"]
  BY DEF RoomFree, Release, Done, Goto, Holds, Turn
<1>1. got[c] \in SUBSET Elems /\ Size(got[c]) \in Nat  BY SizeNat DEF Types
<1>2. Drain[c] = got[c] /\ Size(got[c]) <= shared.draining
  <2>1. Drain[c] = got[c]  BY <1>0 DEF Drain
  <2> QED  BY <2>1, Covered
<1>3. /\ shared'.filling = shared.filling /\ shared'.items = shared.items
      /\ shared'.draining = shared.draining - Size(got[c])
  BY <1>0 DEF Types
<1>4. Types'
  <2>1. shared' \in [items : SUBSET Elems, filling : Nat, draining : Nat]
    BY <1>0, <1>1, <1>2 DEF Types
  <2>2. turn' \in [Cpus -> 0 .. (Multiplier - 1)]  BY <1>0, Constants DEF Types
  <2> QED  BY <1>0, <1>1, <2>1, <2>2 DEF Types, Labels
<1>5. Apart'  BY <1>0, <1>3 DEF Apart, Types
<1>6. Hands'  BY <1>0 DEF Hands, Types
<1>7. Slots'
  <2>1. Own(c)  BY <1>0 DEF Own, Types
  <2>2. Fill[c] = {} /\ Fill'[c] = {} /\ Drain'[c] = {}  BY <1>0 DEF Fill, Drain, Types
  <2>3. All(Fill)' = All(Fill') /\ All(Drain)' = All(Drain')  BY DEF All
  <2> QED
    BY <1>1, <1>2, <1>3, <1>4, <1>5, <2>1, <2>2, <2>3, SlotsMove, SizeEmpty, SizeNat, Constants
       DEF Slots, Types
<1> QED  BY <1>4, <1>5, <1>6, <1>7

LEMMA StutterIInv == IInv /\ UNCHANGED vars => IInv'
BY DEF IInv, vars, Types, Apart, Hands, Slots, Fill, Drain, All, Surplus

LEMMA NextIInv == IInv /\ [Next]_vars => IInv'
BY CreateIInv, DestroyIInv, AllocLocalIInv, AllocTakeIInv, AllocFillIInv, AllocSlabIInv,
   RefillGetIInv, RefillBulkIInv, RefillPublishIInv, RefillPartialIInv,
   FreeLocalIInv, FreeSharedIInv, FreePublishIInv, FreeSlabIInv, RoomTakeIInv, RoomFreeIInv,
   StutterIInv
   DEF Next, Alloc, Refill, FreeElem, MakeRoom

-----------------------------------------------------------------------------
(* No step but one loses an element                                          *)

Somewhere(x) ==
    \/ x \in slab \/ x \in used \/ x \in shared.items
    \/ \E c \in Cpus : x \in local[c] \/ x \in got[c]

Kept == \A x \in Elems : Somewhere(x) => Somewhere(x)'

LEMMA PlacesMean == \A x : Places(x) # {} <=> Somewhere(x)
<1> SUFFICES ASSUME NEW x PROVE Places(x) # {} <=> Somewhere(x)  OBVIOUS
<1>1. ASSUME Somewhere(x) PROVE Places(x) # {}
  <2>1. CASE x \in slab  BY <2>1, <<"slab", "all">> \in Places(x) DEF Places
  <2>2. CASE x \in used  BY <2>2, <<"used", "all">> \in Places(x) DEF Places
  <2>3. CASE x \in shared.items  BY <2>3, <<"sharedq", "all">> \in Places(x) DEF Places
  <2>4. ASSUME NEW c \in Cpus, x \in local[c] PROVE Places(x) # {}
    BY <2>4, <<"localq", c>> \in Places(x) DEF Places
  <2>5. ASSUME NEW c \in Cpus, x \in got[c] PROVE Places(x) # {}
    BY <2>5, <<"call", c>> \in Places(x) DEF Places
  <2> QED  BY <1>1, <2>1, <2>2, <2>3, <2>4, <2>5 DEF Somewhere
<1>2. ASSUME NEW p \in Places(x) PROVE Somewhere(x)
  BY DEF Places, Somewhere
<1> QED  BY <1>1, <1>2

(* Between qmempool_destroy and qmempool_create there is no call, and        *)
(* nothing that the creation could overwrite.                                *)
Dead == ~alive => Idle /\ shared.items = {}

LEMMA DeadStays == (Init => Dead) /\ (Dead /\ [Next]_vars => Dead')
<1>1. Init => Dead  BY DEF Init, Dead, Idle, NoItems
<1>2. ASSUME Dead, UNCHANGED vars PROVE Dead'  BY <1>2 DEF vars, Dead, Idle
<1>3. ASSUME Create PROVE Dead'
  <2>1. alive' = TRUE  BY <1>3 DEF Create, Created
  <2> QED  BY <2>1 DEF Dead
<1>4. ASSUME Destroy PROVE Dead'  BY <1>4 DEF Destroy, Dead, Idle, NoItems
<1>5. ASSUME NEW c \in Cpus, Alloc(c) \/ Refill(c) \/ FreeElem(c) \/ MakeRoom(c)
      PROVE  alive' = alive /\ (alive \/ pc[c] # "idle")
  BY <1>5 DEF Alloc, AllocLocal, AllocTake, AllocFill, AllocSlab,
              Refill, RefillGet, RefillBulk, RefillPublish, RefillPartial,
              FreeElem, FreeLocal, FreeShared, FreePublish,
              MakeRoom, FreeSlab, RoomTake, RoomFree
<1>6. ASSUME Dead, NEW c \in Cpus, Alloc(c) \/ Refill(c) \/ FreeElem(c) \/ MakeRoom(c)
      PROVE  Dead'
  BY <1>5, <1>6 DEF Dead, Idle
<1> QED  BY <1>1, <1>2, <1>3, <1>4, <1>6 DEF Next

LEMMA PoolKept == IInv /\ Dead /\ (Create \/ Destroy) => Kept
<1>1. ASSUME IInv, Dead, Create PROVE Kept
  <2>1. PICK n \in Preallocs : Created(n)  BY <1>1 DEF Create
  <2>2. shared.items = {} /\ UNCHANGED <<used, local, got>>  BY <1>1 DEF Create, Dead
  <2>3. slab' = slab \ Some(n, slab) /\ shared'.items = Some(n, slab)
    BY <2>1 DEF Created, NoItems
  <2> QED  BY <2>2, <2>3 DEF Kept, Somewhere
<1>2. ASSUME IInv, Destroy PROVE Kept
  BY <1>2 DEF IInv, Destroy, Kept, Somewhere
<1> QED  BY <1>1, <1>2

LEMMA AllocKept ==
    ASSUME IInv, NEW c \in Cpus, Alloc(c)
    PROVE  Kept
<1> USE DEF IInv, Kept, Somewhere, Types, Goto, Holds
<1>1. CASE AllocLocal(c)  BY <1>1 DEF AllocLocal
<1>2. CASE AllocTake(c)
  <2>1. got[c] = {}  BY <1>2 DEF AllocTake, Hands
  <2>2. /\ UNCHANGED <<slab, used, local>> /\ got' = [got EXCEPT ![c] = Taken]
        /\ shared'.items = shared.items \ Taken \/ shared'.items = shared.items
    BY <1>2 DEF AllocTake, Take
  <2> QED  BY <2>1, <2>2
<1>3. CASE AllocFill(c)
  <2>1. /\ UNCHANGED slab /\ got' = [got EXCEPT ![c] = {}]
        /\ local' = [local EXCEPT ![c] = local[c] \cup Surplus(c)]
        /\ used' = used \cup Some(1, got[c]) /\ shared'.items = shared.items
    BY <1>3 DEF AllocFill, Release
  <2> QED  BY <2>1 DEF Surplus
<1>4. CASE AllocSlab(c)
  <2>1. got[c] = {}  BY <1>4 DEF AllocSlab, Hands
  <2>2. /\ UNCHANGED <<used, local, shared>>
        /\ \/ slab' = slab \ Some(1, slab) /\ got' = [got EXCEPT ![c] = Some(1, slab)]
           \/ slab' = slab /\ got' = [got EXCEPT ![c] = {}]
    BY <1>4 DEF AllocSlab, Done
  <2> QED  BY <2>1, <2>2
<1> QED  BY <1>1, <1>2, <1>3, <1>4 DEF Alloc

LEMMA RefillKept ==
    ASSUME IInv, NEW c \in Cpus, Refill(c)
    PROVE  Kept \/ (pc[c] = "partial" /\ pc'[c] = "publish")
<1> USE DEF IInv, Kept, Somewhere, Types, Goto, Holds
<1>1. CASE RefillGet(c)
  <2>1. PICK j \in 0 .. Bulk : /\ slab' = slab \ Some(j, slab)
                               /\ got' = [got EXCEPT ![c] = got[c] \cup Some(j, slab)]
    BY <1>1 DEF RefillGet
  <2> QED  BY <1>1, <2>1 DEF RefillGet
<1>2. CASE RefillBulk(c)  BY <1>2 DEF RefillBulk, Reserve
<1>3. CASE RefillPublish(c)
  <2>1. /\ UNCHANGED <<slab, local>> /\ shared'.items = shared.items \cup Surplus(c)
        /\ \/ got' = [got EXCEPT ![c] = Some(1, got[c])] /\ used' = used
           \/ got' = [got EXCEPT ![c] = {}] /\ used' = used \cup Some(1, got[c])
    BY <1>3 DEF RefillPublish, Publish, Done
  <2> QED  BY <2>1 DEF Surplus
<1>4. CASE RefillPartial(c)
  <2>1. CASE pc' = [pc EXCEPT ![c] = "publish"]  BY <1>4, <2>1 DEF RefillPartial
  <2>2. CASE pc' = [pc EXCEPT ![c] = "bug"] /\ UNCHANGED <<shared, got, turn>>
    BY <1>4, <2>2 DEF RefillPartial
  <2> QED  BY <1>4, <2>1, <2>2 DEF RefillPartial
<1> QED  BY <1>1, <1>2, <1>3, <1>4 DEF Refill

LEMMA FreeKept ==
    ASSUME IInv, NEW c \in Cpus, FreeElem(c)
    PROVE  Kept
<1> USE DEF IInv, Kept, Somewhere, Types, Goto, Holds
<1>1. CASE FreeLocal(c)
  <2>1. got[c] = {}  BY <1>1 DEF FreeLocal, Hands
  <2>2. /\ used' = used \ Some(1, used) /\ UNCHANGED <<slab, shared>>
        /\ \/ local' = [local EXCEPT ![c] = local[c] \cup Some(1, used)] /\ UNCHANGED got
           \/ /\ got' = [got EXCEPT ![c] = Some(1, used) \cup Some(Bulk - 1, local[c])]
              /\ local' = [local EXCEPT ![c] = local[c] \ Some(Bulk - 1, local[c])]
    BY <1>1 DEF FreeLocal
  <2> QED  BY <2>1, <2>2
<1>2. CASE FreeShared(c)  BY <1>2 DEF FreeShared, Reserve
<1>3. CASE FreePublish(c)
  <2>1. /\ UNCHANGED <<slab, used, local>> /\ shared'.items = shared.items \cup got[c]
        /\ got' = [got EXCEPT ![c] = {}]
    BY <1>3 DEF FreePublish, Publish, Done
  <2> QED  BY <2>1
<1> QED  BY <1>1, <1>2, <1>3 DEF FreeElem

LEMMA RoomKept ==
    ASSUME IInv, NEW c \in Cpus, MakeRoom(c)
    PROVE  Kept
<1> USE DEF IInv, Kept, Somewhere, Types, Goto, Holds
<1>1. CASE FreeSlab(c)  BY <1>1 DEF FreeSlab
<1>2. CASE RoomTake(c)
  <2>1. got[c] = {}  BY <1>2 DEF RoomTake, Hands
  <2>2. /\ UNCHANGED <<slab, used, local>> /\ shared'.items = shared.items \ Taken
        /\ got' = [got EXCEPT ![c] = Taken]
    BY <1>2 DEF RoomTake, Take
  <2> QED  BY <2>1, <2>2
<1>3. CASE RoomFree(c)
  <2>1. /\ UNCHANGED <<used, local>> /\ shared'.items = shared.items
        /\ slab' = slab \cup got[c] /\ got' = [got EXCEPT ![c] = {}]
    BY <1>3 DEF RoomFree, Release, Done
  <2> QED  BY <2>1
<1> QED  BY <1>1, <1>2, <1>3 DEF MakeRoom

LEMMA StepForgets ==
    IInv /\ Dead /\ [Next]_vars =>
        \/ Kept
        \/ \E c \in Cpus : pc[c] = "partial" /\ pc'[c] = "publish"
<1>1. UNCHANGED vars => Kept  BY DEF vars, Kept, Somewhere
<1> QED  BY <1>1, PoolKept, AllocKept, RefillKept, FreeKept, RoomKept DEF Next

-----------------------------------------------------------------------------
(* What the invariant says of the properties                                 *)

LEMMA IInvTypes == IInv => TypeOK
<1> SUFFICES ASSUME IInv PROVE TypeOK  OBVIOUS
<1>1. \A c \in Cpus : Size(got[c]) <= Bulk + 1
  <2> SUFFICES ASSUME NEW c \in Cpus PROVE Size(got[c]) <= Bulk + 1  OBVIOUS
  <2>1. Size(got[c]) \in Nat /\ pc[c] \in Labels  BY SizeNat DEF IInv, Types
  <2> QED  BY <2>1, Constants, SizeEmpty DEF IInv, Hands, Labels
<1> QED  BY <1>1 DEF TypeOK, IInv, Types, Hands, Slots

LEMMA IInvOnePlace == IInv => OnePlace
<1> SUFFICES ASSUME IInv, NEW x \in Elems PROVE Size(Places(x)) <= 1
  BY DEF OnePlace
<1>1. \A p, q \in Places(x) : p = q
  <2> DEFINE A == {"slab", "used", "sharedq"} \X {"all"}
             B == {"localq", "call"} \X Cpus
             InA(p) == x \in CASE p[1] = "slab" -> slab [] p[1] = "used" -> used
                               [] OTHER -> shared.items
             InB(p) == x \in IF p[1] = "localq" THEN local[p[2]] ELSE got[p[2]]
  <2>1. \A p \in Places(x) : (p \in A /\ InA(p)) \/ (p \in B /\ InB(p))
    BY DEF Places
  <2>2. \A p, q \in A : InA(p) /\ InA(q) => p = q  BY DEF IInv, Apart
  <2>3. \A p \in A, q \in B : ~ (InA(p) /\ InB(q))  BY DEF IInv, Apart
  <2>4. \A p, q \in B : InB(p) /\ InB(q) => p = q  BY DEF IInv, Apart
  <2> HIDE DEF A, B, InA, InB
  <2> QED  BY <2>1, <2>2, <2>3, <2>4
<1>2. CASE Places(x) = {}  BY <1>2, FS_EmptySet DEF Size
<1>3. CASE Places(x) # {}
  <2>1. PICK p \in Places(x) : TRUE  BY <1>3
  <2>2. Places(x) = {p}  BY <1>1, <2>1
  <2> QED  BY <2>2, FS_Singleton DEF Size
<1> QED  BY <1>2, <1>3

LEMMA IInvLocalq == IInv => LocalqNeverDies
BY DEF IInv, Types, Labels, LocalqNeverDies

LEMMA PoolInvariant == Spec => []IInv
BY InitIInv, NextIInv, PTL DEF Spec

(* The queues never hold more than their sizes, the slots being filled and   *)
(* drained included, and a call never has more than a bulk and one element:  *)
(* elems[] does not overflow.                                                *)
THEOREM TypeCorrect == Spec => []TypeOK
BY PoolInvariant, IInvTypes, PTL

(* No element of the pool is handed out twice, or freed to the slab while    *)
(* the pool still has it, with any number of CPUs.                           *)
THEOREM ElementsInOnePlace == Spec => []OnePlace
BY PoolInvariant, IInvOnePlace, PTL

(* A refill of localq from sharedq, and a flush of a full localq, never meet *)
(* the BUG after "must succeed": these need no more than the tests of        *)
(* qmempool_create.                                                          *)
THEOREM LocalqMustSucceed == Spec => []LocalqNeverDies
BY PoolInvariant, IInvLocalq, PTL

(* The pool forgets an element only in a refill from a slab that runs dry    *)
(* in the middle of a bulk; every other step, those of a full sharedq and    *)
(* the destruction included, keeps all of them.                              *)
THEOREM OnlyPartialRefillForgets == Spec => NothingForgotten
<1> DEFINE A == \A x \in Elems : Places(x) # {} /\ Places(x)' = {}
                   => \E c \in Cpus : pc[c] = "partial" /\ pc'[c] = "publish"
<1>1. IInv /\ Dead /\ [Next]_vars => [A]_vars
  <2> SUFFICES ASSUME IInv, Dead, [Next]_vars PROVE A  OBVIOUS
  <2>1. CASE Kept
    <3>1. \A x : Places(x) # {} <=> Somewhere(x)  BY PlacesMean
    <3>2. (\A x : Places(x) # {} <=> Somewhere(x))'  BY PlacesMean, PTL
    <3> QED  BY <2>1, <3>1, <3>2 DEF Kept
  <2> QED  BY <2>1, StepForgets
<1> QED  BY <1>1, PoolInvariant, DeadStays, PTL DEF Spec, NothingForgotten
=============================================================================
