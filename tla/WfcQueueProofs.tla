--------------------------- MODULE WfcQueueProofs ---------------------------
(* Proofs about WfcQueue, for any queues, nodes and threads.  The invariant  *)
(* IInv does not walk the chain: it says that each node has one pointer to   *)
(* it, and each queue and node one who may write its next.  The rest of the  *)
(* module shows from IInv that there is always a row of nodes for each queue *)
(* and each call about to append (Layout) that the pointers follow, that     *)
(* Chain reads exactly these rows, and what each step makes of them: so no   *)
(* node is in two places or lost, and the queues implement SpliceFifo.       *)
EXTENDS WfcQueue, TLAPS, FiniteSetTheorems, FunctionTheorems, SequenceTheorems,
        NaturalsInduction, WellFoundedInduction

-----------------------------------------------------------------------------
(* The invariant *)

Ptrs == Queues \cup Nodes
Ops  == {"none", "append", "empty", "dequeue", "iterate", "splice"}
Pcs  == {"idle", "xchg", "link", "test", "testtail", "first", "next", "sync",
         "end", "clear", "cas", "move", "take", "check", "taketail"}
LocSet == [op : Ops, q : Queues \cup {Null}, to : Queues \cup {Null},
           first : Nodes \cup {Null}, last : Nodes \cup {Null},
           old : Ptrs \cup {Null}, node : Nodes \cup {Null}, nxt : Nodes \cup {Null},
           visited : Seq(Nodes)]

Types ==
    /\ next \in [Ptrs -> Nodes \cup {Null}]
    /\ tail \in [Queues -> Ptrs] /\ \A q \in Queues : tail[q] \in Nodes \cup {q}
    /\ free \subseteq Nodes
    /\ pc \in [Threads -> Pcs]
    /\ loc \in [Threads -> LocSet]

(* Which call is where, and what it has at hand.                             *)
OpAt(p, op) ==
    /\ p = "idle" <=> op = "none"
    /\ p \in {"xchg", "link"} => op \in {"append", "splice"}
    /\ p \in {"first", "next", "sync"} => op \in {"dequeue", "iterate"}
    /\ p = "end" => op = "iterate"
    /\ p \in {"clear", "cas", "move"} => op = "dequeue"
    /\ p \in {"take", "check", "taketail"} => op = "splice"
    /\ op = "append" => p \in {"xchg", "link"}
Locals(t) ==
    /\ OpAt(pc[t], loc[t].op)
    /\ loc[t].op \in {"none", "append"} <=> loc[t].q = Null
    /\ loc[t].op \in {"append", "splice"} => loc[t].to # Null
    /\ pc[t] \in {"xchg", "link", "taketail"} => loc[t].first # Null
    /\ pc[t] \in {"xchg", "link"} => loc[t].last # Null
    /\ pc[t] = "link" => loc[t].old # Null
    /\ pc[t] \in {"next", "sync", "end", "clear", "cas", "move"} => loc[t].node # Null
    /\ pc[t] = "move" => loc[t].nxt # Null

(* What the table gives: nobody else takes from the queue of a dequeue, and  *)
(* nobody from that of an iteration.                                         *)
Alone == \A t, u \in Threads : t # u /\ loc[t].q = loc[u].q =>
    /\ loc[t].op = "dequeue" => loc[u].op = "empty"
    /\ loc[t].op = "iterate" => loc[u].op \in {"empty", "iterate"}

(* A dequeue knows the first node and, before it moves the head, the second. *)
Attached(t) == pc[t] \in {"next", "clear"} \/ (pc[t] = "move" /\ next[loc[t].q] # Null)
Detached(t) == pc[t] \in {"cas", "sync"}   \/ (pc[t] = "move" /\ next[loc[t].q] = Null)
Dequeues(t) ==
    loc[t].op = "dequeue" =>
        /\ Attached(t) => next[loc[t].q] = loc[t].node
        /\ pc[t] = "move" => next[loc[t].node] = loc[t].nxt

(* Who points to a node: the next of another one that is in use, or a call   *)
(* that has not linked it yet or has taken it off.                           *)
NextOf(y) == IF y \in free THEN Null ELSE next[y]
Brings(t) ==
    IF pc[t] \in {"xchg", "link", "taketail"} THEN loc[t].first
    ELSE IF loc[t].op = "dequeue" /\ Detached(t) THEN loc[t].node ELSE Null
Ways ==
    /\ \A y, z \in Ptrs : NextOf(y) = NextOf(z) /\ NextOf(y) # Null => y = z
    /\ \A t, u \in Threads : Brings(t) = Brings(u) /\ Brings(t) # Null => t = u
    /\ \A y \in Ptrs, t \in Threads : NextOf(y) = Brings(t) => NextOf(y) = Null
    /\ \A y \in Ptrs : NextOf(y) \notin free
    /\ \A t \in Threads : Brings(t) \notin free

(* Where a chain ends: at the tail of a queue, at the last node of a call    *)
(* that appends, where a call is about to link, or at the head of a queue    *)
(* whose nodes a call has taken.                                             *)
EndOf(t) ==
    IF pc[t] = "xchg" THEN loc[t].last
    ELSE IF pc[t] = "link" THEN loc[t].old
    ELSE IF pc[t] = "taketail" \/ (loc[t].op = "dequeue" /\ Detached(t)) THEN loc[t].q
    ELSE Null
IsEnd(y) == y \notin free /\ next[y] = Null
Ends ==
    /\ \A q, r \in Queues : tail[q] = tail[r] => q = r
    /\ \A t, u \in Threads : EndOf(t) = EndOf(u) /\ EndOf(t) # Null => t = u
    /\ \A q \in Queues, t \in Threads : tail[q] # EndOf(t)
    /\ \A q \in Queues : IsEnd(tail[q])
    /\ \A t \in Threads : EndOf(t) # Null => IsEnd(EndOf(t))

Calls == \A t \in Threads : Locals(t) /\ Dequeues(t)

IInv == Types /\ Calls /\ Alone /\ Ways /\ Ends

-----------------------------------------------------------------------------
(* What a step of one thread leaves to the others *)

Only(t) == \A u \in Threads \ {t} : pc'[u] = pc[u] /\ loc'[u] = loc[u]
Others(t) == \A u \in Threads \ {t} :
    pc'[u] = pc[u] /\ loc'[u] = loc[u] /\ Brings(u)' = Brings(u) /\ EndOf(u)' = EndOf(u)

(* What most steps change: no pointer, and nothing that their call brings.   *)
Kept(t) ==
    /\ Others(t) /\ UNCHANGED <<next, tail, free>>
    /\ Brings(t)' = Brings(t) /\ EndOf(t)' = EndOf(t)
    /\ pc[t] # "xchg" /\ pc'[t] # "xchg"

LEMMA NullIsNone == Null \notin Ptrs /\ Queues \cap Nodes = {}
BY WfcAssumption DEF Ptrs

LEMMA LocFields ==
    ASSUME NEW c \in LocSet
    PROVE  /\ c.op \in Ops /\ c.q \in Queues \cup {Null} /\ c.to \in Queues \cup {Null}
           /\ c.first \in Nodes \cup {Null} /\ c.last \in Nodes \cup {Null}
           /\ c.old \in Ptrs \cup {Null} /\ c.node \in Nodes \cup {Null}
           /\ c.nxt \in Nodes \cup {Null} /\ c.visited \in Seq(Nodes)
BY DEF LocSet

LEMMA NoLocalsAre ==
    /\ NoLocals \in LocSet /\ NoLocals.op = "none" /\ NoLocals.q = Null
BY DEF NoLocals, LocSet, Ops

LEMMA Went ==
    ASSUME Types, NEW t \in Threads, NEW p \in Pcs, NEW c \in LocSet, Go(t, p),
           loc' = [loc EXCEPT ![t] = c]
    PROVE  /\ pc' \in [Threads -> Pcs] /\ loc' \in [Threads -> LocSet]
           /\ pc'[t] = p /\ loc'[t] = c /\ Only(t)
BY DEF Types, Go, Only

LEMMA WentOn ==
    ASSUME Types, NEW t \in Threads, NEW p \in Pcs, Go(t, p), UNCHANGED loc
    PROVE  /\ pc' \in [Threads -> Pcs] /\ loc' \in [Threads -> LocSet]
           /\ pc'[t] = p /\ loc'[t] = loc[t] /\ Only(t)
BY DEF Types, Go, Only

LEMMA Returned ==
    ASSUME Types, NEW t \in Threads, Return(t)
    PROVE  /\ pc' \in [Threads -> Pcs] /\ loc' \in [Threads -> LocSet]
           /\ pc'[t] = "idle" /\ loc'[t] = NoLocals /\ Only(t)
<1>1. "idle" \in Pcs  BY DEF Pcs
<1> QED  BY <1>1, NoLocalsAre, Went DEF Return

(* Two calls never wait at the same place, and a dequeue has its queue to    *)
(* itself: so the step of t does not touch what another dequeue knows.       *)
Untouched(t) == \A u \in Threads \ {t} :
    loc[u].op = "dequeue" /\ pc[u] \in {"next", "clear", "move"} =>
        /\ next'[loc[u].q] = next[loc[u].q]
        /\ pc[u] = "move" => next'[loc[u].node] = next[loc[u].node]

LEMMA OthersKept ==
    ASSUME Calls, NEW t \in Threads, Only(t), Untouched(t), NEW u \in Threads \ {t}
    PROVE  /\ Locals(u)' /\ Dequeues(u)'
           /\ Brings(u)' = Brings(u) /\ EndOf(u)' = EndOf(u)
<1>1. pc'[u] = pc[u] /\ loc'[u] = loc[u]  BY DEF Only
<1>2. Locals(u) /\ Dequeues(u)  BY DEF Calls
<1>3. Locals(u)'  BY <1>1, <1>2 DEF Locals
<1>4. loc[u].op = "dequeue" /\ pc[u] \in {"next", "clear", "move"} =>
        /\ next'[loc[u].q] = next[loc[u].q]
        /\ pc[u] = "move" => next'[loc[u].node] = next[loc[u].node]
  BY DEF Untouched
<1>5. Dequeues(u)'  BY <1>1, <1>2, <1>4 DEF Dequeues, Attached
<1>6. loc[u].op = "dequeue" => (Detached(u)' <=> Detached(u))
  BY <1>1, <1>4 DEF Detached
<1>7. Brings(u)' = Brings(u)  BY <1>1, <1>6 DEF Brings
<1>8. EndOf(u)' = EndOf(u)  BY <1>1, <1>6 DEF EndOf
<1> QED  BY <1>3, <1>5, <1>7, <1>8

LEMMA CallsKept ==
    ASSUME Calls, NEW t \in Threads, Only(t), Untouched(t), Locals(t)', Dequeues(t)'
    PROVE  Calls'
<1>1. \A u \in Threads \ {t} : Locals(u)' /\ Dequeues(u)'  BY OthersKept
<1> QED  BY <1>1 DEF Calls, Threads

LEMMA AloneKept ==
    ASSUME IInv, NEW t \in Threads, Only(t),
           \/ loc'[t].op = loc[t].op /\ loc'[t].q = loc[t].q
           \/ loc'[t].op \in {"none", "append"} /\ loc'[t].q = Null
    PROVE  Alone'
<1>1. \A u \in Threads : loc[u].op \in {"dequeue", "iterate"} => loc[u].q # Null
  BY DEF IInv, Calls, Locals
<1>2. \A u \in Threads \ {t} : loc'[u] = loc[u]  BY DEF Only
<1> SUFFICES ASSUME NEW u \in Threads, NEW v \in Threads, u # v, loc'[u].q = loc'[v].q
             PROVE  /\ loc'[u].op = "dequeue" => loc'[v].op = "empty"
                    /\ loc'[u].op = "iterate" => loc'[v].op \in {"empty", "iterate"}
  BY DEF Alone
<1>3. CASE loc'[t].op = loc[t].op /\ loc'[t].q = loc[t].q
  BY <1>2, <1>3 DEF IInv, Alone
<1>4. CASE loc'[t].op \in {"none", "append"} /\ loc'[t].q = Null
  BY <1>1, <1>2, <1>4 DEF IInv, Alone
<1> QED  BY <1>3, <1>4

(* A step that changes neither a pointer nor what its call brings.           *)
LEMMA QuietStep ==
    ASSUME IInv, NEW t \in Threads, Only(t), UNCHANGED <<next, tail, free>>,
           pc' \in [Threads -> Pcs], loc' \in [Threads -> LocSet],
           Locals(t)', Dequeues(t)', Brings(t)' = Brings(t), EndOf(t)' = EndOf(t), Alone',
           pc[t] # "xchg", pc'[t] # "xchg"
    PROVE  IInv' /\ Kept(t)
<1>1. Types'  BY DEF IInv, Types
<1>2. Untouched(t)  BY DEF Untouched
<1>3. Calls'  BY <1>2, CallsKept DEF IInv
<1>4. \A u \in Threads : Brings(u)' = Brings(u) /\ EndOf(u)' = EndOf(u)
  BY <1>2, OthersKept DEF IInv
<1>5. \A y \in Ptrs : NextOf(y)' = NextOf(y)  BY DEF NextOf
<1>6. Ways'  BY <1>4, <1>5 DEF IInv, Ways
<1>7. Ends'  BY <1>4 DEF IInv, Ends, IsEnd
<1>8. Kept(t)  BY <1>4 DEF Kept, Others, Only
<1> QED  BY <1>1, <1>3, <1>6, <1>7, <1>8 DEF IInv

LEMMA ReturnStep ==
    ASSUME IInv, NEW t \in Threads, Return(t), UNCHANGED <<next, tail, free>>,
           Brings(t) = Null, EndOf(t) = Null, pc[t] # "xchg"
    PROVE  IInv' /\ Kept(t)
<1>1. /\ pc' \in [Threads -> Pcs] /\ loc' \in [Threads -> LocSet]
      /\ pc'[t] = "idle" /\ loc'[t] = NoLocals /\ Only(t)
  BY Returned DEF IInv
<1>2. Locals(t)' /\ Dequeues(t)'
  BY <1>1, NoLocalsAre DEF Locals, OpAt, Dequeues
<1>3. Brings(t)' = Null /\ EndOf(t)' = Null
  BY <1>1, NoLocalsAre DEF Brings, EndOf
<1>4. Alone'  BY <1>1, NoLocalsAre, AloneKept
<1> QED  BY <1>1, <1>2, <1>3, <1>4, QuietStep

(* A call that goes on with the same locals.                                 *)
LEMMA GoesStep ==
    ASSUME IInv, NEW t \in Threads, NEW p \in Pcs, Go(t, p),
           UNCHANGED <<next, tail, free, loc>>,
           pc[t] \notin {"xchg", "link", "taketail"}, p \notin {"xchg", "link", "taketail"},
           Locals(t)', Dequeues(t)',
           loc[t].op = "dequeue" => (Detached(t)' <=> Detached(t))
    PROVE  IInv' /\ Kept(t)
<1>1. /\ pc' \in [Threads -> Pcs] /\ loc' \in [Threads -> LocSet]
      /\ pc'[t] = p /\ loc'[t] = loc[t] /\ Only(t)
  BY WentOn DEF IInv
<1>2. Brings(t)' = Brings(t) /\ EndOf(t)' = EndOf(t)
  BY <1>1 DEF Brings, EndOf
<1>3. Alone'  BY <1>1, AloneKept
<1> QED  BY <1>1, <1>2, <1>3, QuietStep

-----------------------------------------------------------------------------
(* The steps that only look *)

LEMMA StartIInv ==
    ASSUME IInv, NEW t \in Threads, NEW op \in {"empty", "dequeue", "iterate", "splice"},
           NEW q \in Queues, NEW to \in Queues \cup {Null}, Start(t, op, q, to),
           op = "splice" => to \in Queues
    PROVE  IInv' /\ Kept(t)
<1> DEFINE c == [NoLocals EXCEPT !.op = op, !.q = q, !.to = to]
<1>1. c \in LocSet /\ c.op = op /\ c.q = q /\ c.to = to
  BY NoLocalsAre DEF LocSet, Ops, NoLocals
<1>2. loc' = [loc EXCEPT ![t] = c] /\ Go(t, "test")  BY DEF Start, Goes
<1> HIDE DEF c
<1>3. "test" \in Pcs  BY DEF Pcs
<1>4. /\ pc' \in [Threads -> Pcs] /\ loc' \in [Threads -> LocSet]
      /\ pc'[t] = "test" /\ loc'[t] = c /\ Only(t)
  BY <1>1, <1>2, <1>3, Went DEF IInv
<1>5. Locals(t)' /\ Dequeues(t)'
  BY <1>1, <1>4, NullIsNone DEF Locals, OpAt, Dequeues, Attached, Ptrs
<1>6. pc[t] = "idle" /\ loc[t].op = "none"  BY DEF Start, IInv, Calls, Locals, OpAt
<1>7. Brings(t)' = Brings(t) /\ EndOf(t)' = EndOf(t)
  BY <1>4, <1>6 DEF Brings, EndOf, Detached
<1>8. Alone'
  <2>1. \A u \in Threads \ {t} : loc'[u] = loc[u]  BY <1>4 DEF Only
  <2>2. \A u \in Threads \ {t} : loc[u].q = q => {op, loc[u].op} \notin Conflicts
    BY DEF Start, MayStart
  <2>3. \A u \in Threads : loc[u].q = q => loc[u].op \in {"empty", "dequeue", "iterate", "splice"}
    <3> SUFFICES ASSUME NEW u \in Threads, loc[u].q = q
                 PROVE  loc[u].op \in {"empty", "dequeue", "iterate", "splice"}
      OBVIOUS
    <3>1. q # Null  BY NullIsNone DEF Ptrs
    <3>2. loc[u].op \notin {"none", "append"}  BY <3>1 DEF IInv, Calls, Locals
    <3>3. loc[u].op \in Ops  BY LocFields DEF IInv, Types
    <3> QED  BY <3>2, <3>3 DEF Ops
  <2>4. \A u \in Threads \ {t} : loc[u].q = q /\ op = "dequeue" => loc[u].op = "empty"
    BY <2>2, <2>3 DEF Conflicts
  <2>5. \A u \in Threads \ {t} : loc[u].q = q /\ loc[u].op = "dequeue" => op = "empty"
    BY <2>2, <2>3 DEF Conflicts
  <2>6. \A u \in Threads \ {t} :
          loc[u].q = q /\ op = "iterate" => loc[u].op \in {"empty", "iterate"}
    BY <2>2, <2>3 DEF Conflicts
  <2>7. \A u \in Threads \ {t} :
          loc[u].q = q /\ loc[u].op = "iterate" => op \in {"empty", "iterate"}
    BY <2>2, <2>3 DEF Conflicts
  <2> QED  BY <1>1, <1>4, <2>1, <2>4, <2>5, <2>6, <2>7 DEF IInv, Alone
<1> QED  BY <1>4, <1>5, <1>6, <1>7, <1>8, QuietStep DEF Start

LEMMA OnEmptyIInv ==
    ASSUME IInv, NEW t \in Threads, pc[t] \in {"test", "testtail"}, OnEmpty(t),
           UNCHANGED <<next, tail, free>>
    PROVE  IInv' /\ Kept(t)
<1>1. Brings(t) = Null /\ EndOf(t) = Null  BY DEF Brings, EndOf, Detached
<1>2. Return(t)  BY DEF OnEmpty, Says
<1> QED  BY <1>1, <1>2, ReturnStep

LEMMA OnNodesIInv ==
    ASSUME IInv, NEW t \in Threads, pc[t] \in {"test", "testtail"}, OnNodes(t),
           UNCHANGED <<next, tail, free>>
    PROVE  IInv' /\ Kept(t)
<1>1. Brings(t) = Null /\ EndOf(t) = Null  BY DEF Brings, EndOf, Detached
<1>2. Locals(t) /\ Dequeues(t)  BY DEF IInv, Calls
<1>3. loc[t].op \in Ops  BY LocFields DEF IInv, Types
<1>4. loc[t].op \in {"empty", "dequeue", "iterate", "splice"}
  BY <1>2, <1>3 DEF Locals, OpAt, Ops
<1>5. CASE loc[t].op = "empty"
  <2>1. Return(t)  BY <1>5 DEF OnNodes, Says
  <2> QED  BY <1>1, <2>1, ReturnStep
<1>6. CASE loc[t].op = "splice"
  <2>1. Go(t, "take") /\ UNCHANGED loc /\ "take" \in Pcs  BY <1>6 DEF OnNodes, Goes, Pcs
  <2>2. pc'[t] = "take" /\ loc'[t] = loc[t]  BY <2>1, WentOn DEF IInv
  <2>3. Locals(t)' /\ Dequeues(t)'
    BY <1>2, <1>6, <2>2 DEF Locals, OpAt, Dequeues
  <2> QED  BY <1>6, <2>1, <2>3, GoesStep
<1>7. CASE loc[t].op \in {"dequeue", "iterate"}
  <2>1. Go(t, "first") /\ UNCHANGED loc /\ "first" \in Pcs  BY <1>7 DEF OnNodes, Goes, Pcs
  <2>2. pc'[t] = "first" /\ loc'[t] = loc[t]  BY <2>1, WentOn DEF IInv
  <2>3. Locals(t)' /\ Dequeues(t)'
    BY <1>2, <1>7, <2>2 DEF Locals, OpAt, Dequeues, Attached
  <2>4. Detached(t)' <=> Detached(t)  BY <2>2 DEF Detached
  <2> QED  BY <2>1, <2>3, <2>4, GoesStep
<1> QED  BY <1>4, <1>5, <1>6, <1>7

LEMMA TestHeadIInv == ASSUME IInv, NEW t \in Threads, TestHead(t) PROVE IInv' /\ Kept(t)
<1>1. CASE next[loc[t].q] = Null
  <2>1. Go(t, "testtail") /\ UNCHANGED loc /\ "testtail" \in Pcs
    BY <1>1 DEF TestHead, Goes, Pcs
  <2>2. pc'[t] = "testtail" /\ loc'[t] = loc[t]  BY <2>1, WentOn DEF IInv
  <2>3. Locals(t) /\ Dequeues(t)  BY DEF IInv, Calls
  <2>4. pc[t] = "test" /\ UNCHANGED <<next, tail, free>>  BY DEF TestHead
  <2>5. Locals(t)' /\ Dequeues(t)'
    BY <2>2, <2>3, <2>4 DEF Locals, OpAt, Dequeues, Attached
  <2>6. Detached(t)' <=> Detached(t)  BY <2>2, <2>4 DEF Detached
  <2> QED  BY <2>1, <2>4, <2>5, <2>6, GoesStep
<1>2. CASE next[loc[t].q] # Null
  BY <1>2, OnNodesIInv DEF TestHead
<1> QED  BY <1>1, <1>2

LEMMA TestTailIInv == ASSUME IInv, NEW t \in Threads, TestTail(t) PROVE IInv' /\ Kept(t)
BY OnEmptyIInv, OnNodesIInv DEF TestTail

LEMMA FirstIInv == ASSUME IInv, NEW t \in Threads, First(t) PROVE IInv' /\ Kept(t)
<1> DEFINE x == next[loc[t].q]
           v == IF loc[t].op = "iterate" THEN <<x>> ELSE << >>
           c == [loc[t] EXCEPT !.node = x, !.visited = v]
<1>1. Locals(t) /\ Dequeues(t) /\ pc[t] = "first"  BY DEF IInv, Calls, First
<1>2. loc[t] \in LocSet  BY DEF IInv, Types
<1>3. loc[t].q \in Queues  BY <1>1, <1>2, LocFields DEF Locals, OpAt
<1>4. x \in Nodes  BY <1>3 DEF IInv, Types, Ptrs, First
<1>5. c \in LocSet /\ c.op = loc[t].op /\ c.q = loc[t].q /\ c.to = loc[t].to /\ c.node = x
  <2>1. v \in Seq(Nodes)  BY <1>4
  <2> HIDE DEF v, x
  <2> QED  BY <1>2, <1>4, <2>1 DEF LocSet
<1>6. loc' = [loc EXCEPT ![t] = c]  BY <1>2 DEF First, IInv, Types, LocSet
<1>7. Go(t, "next") /\ "next" \in Pcs /\ UNCHANGED <<next, tail, free>>  BY DEF First, Goes, Pcs
<1> HIDE DEF c
<1>8. /\ pc' \in [Threads -> Pcs] /\ loc' \in [Threads -> LocSet]
      /\ pc'[t] = "next" /\ loc'[t] = c /\ Only(t)
  BY <1>5, <1>6, <1>7, Went DEF IInv
<1>9. Locals(t)'
  BY <1>1, <1>4, <1>5, <1>8, NullIsNone DEF Locals, OpAt, Ptrs
<1>10. Dequeues(t)'  BY <1>5, <1>7, <1>8 DEF Dequeues, Attached
<1>11. Brings(t)' = Brings(t) /\ EndOf(t)' = EndOf(t)
  BY <1>1, <1>8 DEF Brings, EndOf, Detached
<1>12. Alone'  BY <1>5, <1>8, AloneKept
<1> QED  BY <1>1, <1>7, <1>8, <1>9, <1>10, <1>11, <1>12, QuietStep

(* Reached from next (the head still points to the node) or from sync (the   *)
(* head is NULL): the second node is known from here on.                     *)
LEMMA ReachedIInv ==
    ASSUME IInv, NEW t \in Threads, pc[t] \in {"next", "sync"},
           next[loc[t].node] # Null, Reached(t, next[loc[t].node]),
           UNCHANGED <<next, tail, free>>
    PROVE  IInv' /\ Kept(t)
<1> DEFINE x == next[loc[t].node]
<1>1. Locals(t) /\ Dequeues(t)  BY DEF IInv, Calls
<1>2. loc[t] \in LocSet  BY DEF IInv, Types
<1>3. loc[t].node \in Nodes /\ loc[t].q \in Queues
  BY <1>1, <1>2, LocFields DEF Locals, OpAt
<1>4. x \in Nodes  BY <1>3 DEF IInv, Types, Ptrs
<1>5. CASE loc[t].op = "dequeue"
  <2> DEFINE c == [loc[t] EXCEPT !.nxt = x]
  <2>1. c \in LocSet /\ c.op = loc[t].op /\ c.q = loc[t].q /\ c.node = loc[t].node /\ c.nxt = x
    BY <1>2, <1>4 DEF LocSet
  <2>2. loc' = [loc EXCEPT ![t] = c]  BY <1>2, <1>5 DEF Reached, Set, IInv, Types, LocSet
  <2>3. Go(t, "move") /\ "move" \in Pcs  BY <1>5 DEF Reached, Goes, Pcs
  <2> HIDE DEF c
  <2>4. /\ pc' \in [Threads -> Pcs] /\ loc' \in [Threads -> LocSet]
        /\ pc'[t] = "move" /\ loc'[t] = c /\ Only(t)
    BY <2>1, <2>2, <2>3, Went DEF IInv
  <2>5. Locals(t)'
    BY <1>1, <1>3, <1>4, <1>5, <2>1, <2>4, NullIsNone DEF Locals, OpAt, Ptrs
  <2>6. Detached(t) <=> next[loc[t].q] = Null
    <3>1. CASE pc[t] = "next"
      BY <1>1, <1>3, <1>5, <3>1, NullIsNone DEF Detached, Dequeues, Attached, Ptrs
    <3>2. CASE pc[t] = "sync"
      <4>1. EndOf(t) = loc[t].q /\ loc[t].q # Null
        BY <1>3, <1>5, <3>2, NullIsNone DEF EndOf, Detached, Ptrs
      <4> QED  BY <3>2, <4>1 DEF IInv, Ends, IsEnd, Detached
    <3> QED  BY <3>1, <3>2
  <2>7. Detached(t)' <=> Detached(t)  BY <2>1, <2>4, <2>6 DEF Detached
  <2>8. Dequeues(t)'
    <3>1. pc[t] = "next" => next[loc[t].q] = loc[t].node
      BY <1>1, <1>5 DEF Dequeues, Attached
    <3>2. next[loc[t].q] # Null => next[loc[t].q] = loc[t].node
      BY <2>6, <3>1 DEF Detached
    <3> QED  BY <2>1, <2>4, <3>2 DEF Dequeues, Attached
  <2>9. Brings(t)' = Brings(t) /\ EndOf(t)' = EndOf(t)
    BY <1>5, <2>1, <2>4, <2>7 DEF Brings, EndOf
  <2>10. Alone'  BY <2>1, <2>4, AloneKept
  <2> QED  BY <2>4, <2>5, <2>8, <2>9, <2>10, QuietStep
<1>6. CASE loc[t].op = "iterate"
  <2> DEFINE c == [loc[t] EXCEPT !.node = x, !.visited = Append(@, x)]
  <2>1. c \in LocSet /\ c.op = loc[t].op /\ c.q = loc[t].q /\ c.node = x
    <3>1. loc[t].visited \in Seq(Nodes)  BY <1>2, LocFields
    <3>2. Append(loc[t].visited, x) \in Seq(Nodes)  BY <1>4, <3>1
    <3> HIDE DEF x
    <3> QED  BY <1>2, <1>4, <3>2 DEF LocSet
  <2>2. loc' = [loc EXCEPT ![t] = c]
    <3>1. loc' = [loc EXCEPT ![t].node = x, ![t].visited = Append(@, x)]
      BY <1>6 DEF Reached
    <3> QED  BY <1>2, <3>1 DEF IInv, Types, LocSet
  <2>3. Go(t, "next") /\ "next" \in Pcs  BY <1>6 DEF Reached, Goes, Pcs
  <2> HIDE DEF c
  <2>4. /\ pc' \in [Threads -> Pcs] /\ loc' \in [Threads -> LocSet]
        /\ pc'[t] = "next" /\ loc'[t] = c /\ Only(t)
    BY <2>1, <2>2, <2>3, Went DEF IInv
  <2>5. Locals(t)' /\ Dequeues(t)'
    BY <1>1, <1>3, <1>4, <1>6, <2>1, <2>4, NullIsNone DEF Locals, OpAt, Dequeues, Ptrs
  <2>6. Brings(t)' = Brings(t) /\ EndOf(t)' = EndOf(t)
    BY <1>6, <2>1, <2>4 DEF Brings, EndOf
  <2>7. Alone'  BY <2>1, <2>4, AloneKept
  <2> QED  BY <2>4, <2>5, <2>6, <2>7, QuietStep
<1> QED  BY <1>5, <1>6 DEF Reached

LEMMA LoadNextIInv == ASSUME IInv, NEW t \in Threads, LoadNext(t) PROVE IInv' /\ Kept(t)
<1>1. CASE next[loc[t].node] # Null
  BY <1>1, ReachedIInv DEF LoadNext
<1>2. CASE next[loc[t].node] = Null
  <2> DEFINE p == IF loc[t].op = "dequeue" THEN "clear" ELSE "end"
  <2>1. Go(t, p) /\ UNCHANGED <<next, tail, free, loc>> /\ p \in Pcs /\ pc[t] = "next"
    BY <1>2 DEF LoadNext, Goes, Pcs
  <2>2. pc'[t] = p /\ loc'[t] = loc[t]  BY <2>1, WentOn DEF IInv
  <2>3. Locals(t) /\ Dequeues(t)  BY DEF IInv, Calls
  <2>4. Locals(t)' /\ Dequeues(t)'
    BY <2>1, <2>2, <2>3 DEF Locals, OpAt, Dequeues, Attached
  <2>5. loc[t].op = "dequeue" => (Detached(t)' <=> Detached(t))
    BY <2>1, <2>2 DEF Detached
  <2> QED  BY <2>1, <2>4, <2>5, GoesStep
<1> QED  BY <1>1, <1>2

LEMMA SyncNextIInv == ASSUME IInv, NEW t \in Threads, SyncNext(t) PROVE IInv' /\ Kept(t)
BY ReachedIInv DEF SyncNext

LEMMA EndIInv == ASSUME IInv, NEW t \in Threads, End(t) PROVE IInv' /\ Kept(t)
<1>1. Locals(t) /\ Dequeues(t) /\ pc[t] = "end"  BY DEF IInv, Calls, End
<1>2. CASE tail[loc[t].q] = loc[t].node
  <2>1. Return(t) /\ UNCHANGED <<next, tail, free>>  BY <1>2 DEF End, Says
  <2>2. Brings(t) = Null /\ EndOf(t) = Null  BY <1>1 DEF Brings, EndOf, Detached
  <2> QED  BY <1>1, <2>1, <2>2, ReturnStep
<1>3. CASE tail[loc[t].q] # loc[t].node
  <2>1. Go(t, "sync") /\ UNCHANGED <<next, tail, free, loc>> /\ "sync" \in Pcs
    BY <1>3 DEF End, Goes, Pcs
  <2>2. pc'[t] = "sync" /\ loc'[t] = loc[t]  BY <2>1, WentOn DEF IInv
  <2>3. Locals(t)' /\ Dequeues(t)'
    BY <1>1, <2>2 DEF Locals, OpAt, Dequeues
  <2>4. loc[t].op # "dequeue"  BY <1>1 DEF Locals, OpAt
  <2> QED  BY <1>1, <2>1, <2>3, <2>4, GoesStep
<1> QED  BY <1>2, <1>3

LEMMA CheckIInv == ASSUME IInv, NEW t \in Threads, Check(t) PROVE IInv' /\ Kept(t)
<1>1. Locals(t) /\ Dequeues(t) /\ pc[t] = "check"  BY DEF IInv, Calls, Check
<1>2. CASE tail[loc[t].q] = loc[t].q
  <2>1. Return(t) /\ UNCHANGED <<next, tail, free>>  BY <1>2 DEF Check, Says
  <2>2. Brings(t) = Null /\ EndOf(t) = Null  BY <1>1 DEF Brings, EndOf, Detached
  <2> QED  BY <1>1, <2>1, <2>2, ReturnStep
<1>3. CASE tail[loc[t].q] # loc[t].q
  <2>1. Go(t, "take") /\ UNCHANGED <<next, tail, free, loc>> /\ "take" \in Pcs
    BY <1>3 DEF Check, Goes, Pcs
  <2>2. pc'[t] = "take" /\ loc'[t] = loc[t]  BY <2>1, WentOn DEF IInv
  <2>3. Locals(t)' /\ Dequeues(t)'
    BY <1>1, <2>2 DEF Locals, OpAt, Dequeues
  <2>4. loc[t].op # "dequeue"  BY <1>1 DEF Locals, OpAt
  <2> QED  BY <1>1, <2>1, <2>3, <2>4, GoesStep
<1> QED  BY <1>2, <1>3

-----------------------------------------------------------------------------
(* The steps that append *)

Enqueued(t, x, q) ==
    /\ free' = free \ {x} /\ UNCHANGED tail
    /\ \A y \in Ptrs : y # x => next'[y] = next[y]
    /\ pc[t] = "idle" /\ pc'[t] = "xchg"
    /\ Brings(t)' = x /\ EndOf(t)' = x
    /\ loc'[t].op = "append" /\ loc'[t].to = q

LEMMA EnqueueIInv ==
    ASSUME IInv, NEW t \in Threads, Enqueue(t)
    PROVE  IInv' /\ Others(t) /\ \E x \in free, q \in Queues : Enqueued(t, x, q)
<1>1. PICK x \in free, q \in Queues :
        /\ free' = free \ {x}
        /\ next' = [next EXCEPT ![x] = Null]
        /\ loc' = [loc EXCEPT ![t] = [NoLocals EXCEPT !.op = "append", !.to = q,
                                                      !.first = x, !.last = x]]
  BY DEF Enqueue
<1> DEFINE c == [NoLocals EXCEPT !.op = "append", !.to = q, !.first = x, !.last = x]
<1>2. pc[t] = "idle" /\ Go(t, "xchg") /\ "xchg" \in Pcs /\ UNCHANGED tail
  BY DEF Enqueue, Goes, Pcs
<1>3. x \in Nodes /\ x \in Ptrs /\ x # Null /\ q # Null  BY NullIsNone DEF IInv, Types, Ptrs
<1>4. /\ c \in LocSet /\ c.op = "append" /\ c.q = Null /\ c.to = q
      /\ c.first = x /\ c.last = x
  BY <1>3, NoLocalsAre DEF LocSet, Ops, NoLocals
<1>5. loc' = [loc EXCEPT ![t] = c]  BY <1>1
<1> HIDE DEF c
<1>6. /\ pc' \in [Threads -> Pcs] /\ loc' \in [Threads -> LocSet]
      /\ pc'[t] = "xchg" /\ loc'[t] = c /\ Only(t)
  BY <1>2, <1>4, <1>5, Went DEF IInv
<1>7. \A y \in Ptrs : next'[y] = IF y = x THEN Null ELSE next[y]
  BY <1>1, <1>3 DEF IInv, Types
<1>8. Types'
  <2>1. next' \in [Ptrs -> Nodes \cup {Null}]  BY <1>1, <1>3 DEF IInv, Types
  <2> QED  BY <1>1, <1>2, <1>6, <2>1 DEF IInv, Types
<1>9. Untouched(t)
  <2> SUFFICES ASSUME NEW u \in Threads \ {t}, loc[u].op = "dequeue",
                      pc[u] \in {"next", "clear", "move"}
               PROVE  /\ next'[loc[u].q] = next[loc[u].q]
                      /\ pc[u] = "move" => next'[loc[u].node] = next[loc[u].node]
    BY DEF Untouched
  <2>1. Locals(u) /\ Dequeues(u) /\ u \in Threads  BY DEF IInv, Calls
  <2>2. loc[u].q \in Queues /\ loc[u].node \in Nodes
    BY <2>1, LocFields DEF IInv, Types, Locals
  <2>3. loc[u].q # x  BY <1>3, <2>2, NullIsNone
  <2>4. pc[u] = "move" => loc[u].node # x
    <3> SUFFICES ASSUME pc[u] = "move", loc[u].node = x PROVE FALSE  OBVIOUS
    <3>1. CASE Detached(u)
      <4>1. Brings(u) = x  BY <3>1 DEF Brings
      <4> QED  BY <2>1, <4>1 DEF IInv, Ways
    <3>2. CASE Attached(u)
      <4>1. next[loc[u].q] = x  BY <2>1, <3>2 DEF Dequeues
      <4>2. loc[u].q \in Ptrs /\ loc[u].q \notin free
        BY <2>2, NullIsNone DEF Ptrs, IInv, Types
      <4>3. NextOf(loc[u].q) = x  BY <4>1, <4>2 DEF NextOf
      <4> QED  BY <4>2, <4>3 DEF IInv, Ways
    <3> QED  BY <3>1, <3>2 DEF Attached, Detached
  <2> QED  BY <1>7, <2>2, <2>3, <2>4 DEF Ptrs
<1>10. Locals(t)' /\ Dequeues(t)'
  BY <1>3, <1>4, <1>6 DEF Locals, OpAt, Dequeues
<1>11. Calls'  BY <1>6, <1>9, <1>10, CallsKept DEF IInv
<1>12. Alone'  BY <1>4, <1>6, AloneKept
<1>13. \A u \in Threads \ {t} : Brings(u)' = Brings(u) /\ EndOf(u)' = EndOf(u)
  BY <1>6, <1>9, OthersKept DEF IInv
<1>14. Brings(t)' = x /\ EndOf(t)' = x  BY <1>4, <1>6 DEF Brings, EndOf
<1>15. \A y \in Ptrs : NextOf(y)' = NextOf(y)  BY <1>1, <1>7 DEF NextOf
<1>16. Ways'
  <2>1. \A u \in Threads : Brings(u) # x  BY DEF IInv, Ways
  <2>2. \A y \in Ptrs : NextOf(y) # x  BY DEF IInv, Ways
  <2> QED  BY <1>1, <1>3, <1>13, <1>14, <1>15, <2>1, <2>2 DEF IInv, Ways
<1>17. Ends'
  <2>1. \A u \in Threads : EndOf(u) # x  BY <1>3 DEF IInv, Ends, IsEnd
  <2>2. \A r \in Queues : tail[r] # x  BY DEF IInv, Ends, IsEnd
  <2>3. IsEnd(x)'  BY <1>1, <1>3, <1>7 DEF IsEnd
  <2>4. \A y \in Ptrs : IsEnd(y) => IsEnd(y)'  BY <1>1, <1>7 DEF IsEnd
  <2>5. \A r \in Queues : tail[r] \in Ptrs  BY DEF IInv, Types
  <2>6. \A u \in Threads : EndOf(u) # Null => EndOf(u) \in Ptrs
    BY LocFields DEF EndOf, IInv, Types, Ptrs
  <2> QED  BY <1>2, <1>13, <1>14, <2>1, <2>2, <2>3, <2>4, <2>5, <2>6 DEF IInv, Ends
<1>18. IInv'  BY <1>8, <1>11, <1>12, <1>16, <1>17 DEF IInv
<1>19. Others(t)  BY <1>6, <1>13 DEF Others, Only
<1>20. Enqueued(t, x, q)
  BY <1>1, <1>2, <1>4, <1>6, <1>7, <1>14 DEF Enqueued
<1> QED  BY <1>18, <1>19, <1>20

LEMMA EndInPtrs ==
    ASSUME Types
    PROVE  /\ \A q \in Queues : tail[q] \in Ptrs
           /\ \A t \in Threads : EndOf(t) # Null => EndOf(t) \in Ptrs
BY LocFields DEF EndOf, Types, Ptrs

(* The tail of the destination becomes the end of what is appended, and the  *)
(* old tail the place where this call will link.                             *)
Exchanged(t, q) ==
    /\ q = loc[t].to /\ UNCHANGED <<next, free>>
    /\ \A r \in Queues : tail'[r] = IF r = q THEN EndOf(t) ELSE tail[r]
    /\ pc[t] = "xchg" /\ pc'[t] = "link"
    /\ Brings(t)' = Brings(t) /\ EndOf(t)' = tail[q]

LEMMA AppendXchgIInv ==
    ASSUME IInv, NEW t \in Threads, AppendXchg(t)
    PROVE  IInv' /\ Others(t) /\ \E q \in Queues : Exchanged(t, q)
<1> DEFINE q == loc[t].to
           c == [loc[t] EXCEPT !.old = tail[q]]
<1>1. Locals(t) /\ Dequeues(t) /\ pc[t] = "xchg"  BY DEF IInv, Calls, AppendXchg
<1>2. loc[t] \in LocSet  BY DEF IInv, Types
<1>3. /\ q \in Queues /\ q # Null /\ loc[t].last \in Nodes
      /\ loc[t].op \in {"append", "splice"}
  BY <1>1, <1>2, LocFields DEF Locals, OpAt
<1>4. tail[q] \in Ptrs /\ tail[q] # Null  BY <1>3, NullIsNone DEF IInv, Types
<1>5. /\ c \in LocSet /\ c.op = loc[t].op /\ c.q = loc[t].q /\ c.to = q
      /\ c.first = loc[t].first /\ c.last = loc[t].last /\ c.old = tail[q]
  BY <1>2, <1>4 DEF LocSet
<1>6. loc' = [loc EXCEPT ![t] = c]
  BY <1>2 DEF AppendXchg, Set, IInv, Types, LocSet
<1>7. Go(t, "link") /\ "link" \in Pcs /\ UNCHANGED <<next, free>>
  BY DEF AppendXchg, Pcs
<1>8. tail' = [tail EXCEPT ![q] = loc[t].last]  BY DEF AppendXchg
<1> HIDE DEF c, q
<1>9. /\ pc' \in [Threads -> Pcs] /\ loc' \in [Threads -> LocSet]
      /\ pc'[t] = "link" /\ loc'[t] = c /\ Only(t)
  BY <1>5, <1>6, <1>7, Went DEF IInv
<1>10. \A r \in Queues : tail'[r] = IF r = q THEN loc[t].last ELSE tail[r]
  BY <1>3, <1>8 DEF IInv, Types
<1>11. Types'
  <2>1. tail' \in [Queues -> Ptrs]  BY <1>3, <1>8 DEF IInv, Types, Ptrs
  <2>2. \A r \in Queues : tail'[r] \in Nodes \cup {r}  BY <1>3, <1>10 DEF IInv, Types
  <2> QED  BY <1>7, <1>9, <2>1, <2>2 DEF IInv, Types
<1>12. Untouched(t)  BY <1>7 DEF Untouched
<1>13. Locals(t)' /\ Dequeues(t)'
  BY <1>1, <1>3, <1>4, <1>5, <1>9 DEF Locals, OpAt, Dequeues
<1>14. Calls'  BY <1>9, <1>12, <1>13, CallsKept DEF IInv
<1>15. Alone'  BY <1>5, <1>9, AloneKept
<1>16. \A u \in Threads \ {t} : Brings(u)' = Brings(u) /\ EndOf(u)' = EndOf(u)
  BY <1>9, <1>12, OthersKept DEF IInv
<1>17. Brings(t)' = Brings(t)  BY <1>1, <1>5, <1>9 DEF Brings
<1>18. EndOf(t) = loc[t].last /\ EndOf(t)' = tail[q]
  BY <1>1, <1>5, <1>9 DEF EndOf
<1>19. \A y \in Ptrs : NextOf(y)' = NextOf(y)  BY <1>7 DEF NextOf
<1>20. Ways'
  <2>1. \A u \in Threads : Brings(u)' = Brings(u)  BY <1>16, <1>17
  <2> QED  BY <1>7, <1>19, <2>1 DEF IInv, Ways
<1>21. Ends'
  <2>1. \A y : IsEnd(y)' <=> IsEnd(y)  BY <1>7 DEF IsEnd
  <2>2. loc[t].last # Null  BY <1>3, NullIsNone DEF Ptrs
  <2> QED  BY <1>3, <1>4, <1>10, <1>16, <1>18, <2>1, <2>2 DEF IInv, Ends
<1>22. IInv'  BY <1>11, <1>14, <1>15, <1>20, <1>21 DEF IInv
<1>23. Others(t)  BY <1>9, <1>16 DEF Others, Only
<1>24. Exchanged(t, q)
  BY <1>1, <1>7, <1>9, <1>10, <1>17, <1>18 DEF Exchanged, q
<1> QED  BY <1>3, <1>22, <1>23, <1>24

LinkSet(t) ==
    /\ UNCHANGED <<tail, free>> /\ next[EndOf(t)] = Null
    /\ \A y \in Ptrs : next'[y] = IF y = EndOf(t) THEN Brings(t) ELSE next[y]
    /\ pc[t] = "link" /\ pc'[t] = "idle"

LEMMA AppendLinkIInv ==
    ASSUME IInv, NEW t \in Threads, AppendLink(t)
    PROVE  IInv' /\ Others(t) /\ LinkSet(t)
<1> DEFINE o == loc[t].old
           f == loc[t].first
<1>1. Locals(t) /\ Dequeues(t) /\ pc[t] = "link"  BY DEF IInv, Calls, AppendLink
<1>2. loc[t] \in LocSet  BY DEF IInv, Types
<1>3. o \in Ptrs /\ f \in Nodes /\ o # Null /\ f # Null
  BY <1>1, <1>2, LocFields DEF Locals
<1>4. next' = [next EXCEPT ![o] = f] /\ Return(t) /\ UNCHANGED <<tail, free>>
  BY DEF AppendLink
<1> HIDE DEF o, f
<1>5. /\ pc' \in [Threads -> Pcs] /\ loc' \in [Threads -> LocSet]
      /\ pc'[t] = "idle" /\ loc'[t] = NoLocals /\ Only(t)
  BY <1>4, Returned DEF IInv
<1>6. \A y \in Ptrs : next'[y] = IF y = o THEN f ELSE next[y]
  BY <1>3, <1>4 DEF IInv, Types
<1>7. Types'
  <2>1. next' \in [Ptrs -> Nodes \cup {Null}]  BY <1>3, <1>4 DEF IInv, Types
  <2> QED  BY <1>4, <1>5, <2>1 DEF IInv, Types
<1>8. EndOf(t) = o /\ Brings(t) = f  BY <1>1 DEF EndOf, Brings, o, f
<1>9. o \notin free /\ next[o] = Null  BY <1>3, <1>8 DEF IInv, Ends, IsEnd
<1>10. Untouched(t)
  <2> SUFFICES ASSUME NEW u \in Threads \ {t}, loc[u].op = "dequeue",
                      pc[u] \in {"next", "clear", "move"}
               PROVE  /\ next'[loc[u].q] = next[loc[u].q]
                      /\ pc[u] = "move" => next'[loc[u].node] = next[loc[u].node]
    BY DEF Untouched
  <2>1. Locals(u) /\ Dequeues(u)  BY DEF IInv, Calls
  <2>2. loc[u].q \in Queues /\ loc[u].node \in Nodes /\ loc[u].q # Null
    BY <2>1, LocFields DEF IInv, Types, Locals
  <2>3. loc[u].q # o
    <3>1. CASE Detached(u)
      <4>1. EndOf(u) = loc[u].q  BY <3>1 DEF EndOf, Detached
      <4> QED  BY <1>8, <2>2, <4>1 DEF IInv, Ends
    <3>2. CASE Attached(u)
      <4>1. next[loc[u].q] # Null
        BY <2>1, <2>2, <3>2, NullIsNone DEF Dequeues, Ptrs
      <4> QED  BY <1>9, <4>1
    <3> QED  BY <3>1, <3>2 DEF Attached, Detached
  <2>4. pc[u] = "move" => loc[u].node # o
    BY <1>9, <2>1 DEF Dequeues, Locals
  <2> QED  BY <1>6, <2>2, <2>3, <2>4 DEF Ptrs
<1>11. Locals(t)' /\ Dequeues(t)'
  BY <1>5, NoLocalsAre DEF Locals, OpAt, Dequeues
<1>12. Calls'  BY <1>5, <1>10, <1>11, CallsKept DEF IInv
<1>13. Alone'  BY <1>5, NoLocalsAre, AloneKept
<1>14. \A u \in Threads \ {t} : Brings(u)' = Brings(u) /\ EndOf(u)' = EndOf(u)
  BY <1>5, <1>10, OthersKept DEF IInv
<1>15. Brings(t)' = Null /\ EndOf(t)' = Null
  BY <1>5, NoLocalsAre DEF Brings, EndOf
<1>16. \A y \in Ptrs : NextOf(y)' = IF y = o THEN f ELSE NextOf(y)
  BY <1>4, <1>6, <1>9 DEF NextOf
<1>17. Ways'
  <2>1. \A y \in Ptrs : NextOf(y) # f  BY <1>3, <1>8 DEF IInv, Ways
  <2>2. \A u \in Threads \ {t} : Brings(u) # f  BY <1>3, <1>8 DEF IInv, Ways
  <2>3. f \notin free  BY <1>8 DEF IInv, Ways
  <2>4. Null \notin free  BY NullIsNone DEF IInv, Types, Ptrs
  <2> QED  BY <1>3, <1>4, <1>14, <1>15, <1>16, <2>1, <2>2, <2>3, <2>4 DEF IInv, Ways
<1>18. Ends'
  <2>1. \A y \in Ptrs : IsEnd(y) /\ y # o => IsEnd(y)'  BY <1>4, <1>6 DEF IsEnd
  <2>2. \A r \in Queues : tail[r] \in Ptrs /\ tail[r] # o
    BY <1>8, EndInPtrs DEF IInv, Ends
  <2>3. \A u \in Threads \ {t} : EndOf(u) # Null => EndOf(u) \in Ptrs /\ EndOf(u) # o
    BY <1>8, EndInPtrs DEF IInv, Ends
  <2>4. \A r \in Queues : tail'[r] # Null  BY <1>4, <2>2, NullIsNone
  <2> QED  BY <1>4, <1>14, <1>15, <2>1, <2>2, <2>3, <2>4 DEF IInv, Ends
<1>19. IInv'  BY <1>7, <1>12, <1>13, <1>17, <1>18 DEF IInv
<1>20. Others(t)  BY <1>5, <1>14 DEF Others, Only
<1>21. LinkSet(t)  BY <1>1, <1>4, <1>5, <1>6, <1>8, <1>9 DEF LinkSet
<1> QED  BY <1>19, <1>20, <1>21

-----------------------------------------------------------------------------
(* The steps that take *)

(* A step of t that changes no pointer but the head of q, from which nobody  *)
(* else dequeues.                                                            *)
LEMMA HeadMoves ==
    ASSUME IInv, NEW t \in Threads, NEW q \in Queues,
           \A y \in Nodes : next'[y] = next[y],
           \A r \in Queues \ {q} : next'[r] = next[r],
           \A u \in Threads \ {t} : loc[u].q = q => loc[u].op # "dequeue"
    PROVE  Untouched(t)
<1> SUFFICES ASSUME NEW u \in Threads \ {t}, loc[u].op = "dequeue",
                    pc[u] \in {"next", "clear", "move"}
             PROVE  /\ next'[loc[u].q] = next[loc[u].q]
                    /\ pc[u] = "move" => next'[loc[u].node] = next[loc[u].node]
  BY DEF Untouched
<1>1. Locals(u)  BY DEF IInv, Calls
<1>2. loc[u].q \in Queues /\ loc[u].node \in Nodes
  BY <1>1, LocFields DEF IInv, Types, Locals
<1> QED  BY <1>2

(* What a dequeue at work knows of its place, its queue and itself.          *)
LEMMA DequeueKnows ==
    ASSUME IInv, NEW t \in Threads, pc[t] \in {"next", "clear", "cas", "move"},
           loc[t].op = "dequeue"
    PROVE  /\ Locals(t) /\ Dequeues(t) /\ loc[t] \in LocSet
           /\ loc[t].q \in Queues /\ loc[t].node \in Nodes /\ loc[t].node \notin free
           /\ \A u \in Threads \ {t} : loc[u].q = loc[t].q => loc[u].op = "empty"
<1>1. Locals(t) /\ Dequeues(t) /\ loc[t] \in LocSet  BY DEF IInv, Calls, Types
<1>2. loc[t].q \in Queues /\ loc[t].node \in Nodes /\ loc[t].node # Null
  BY <1>1, LocFields DEF Locals
<1>3. loc[t].node \notin free
  <2>1. CASE Detached(t)
    <3>1. Brings(t) = loc[t].node  BY <2>1 DEF Brings, Detached
    <3> QED  BY <3>1 DEF IInv, Ways
  <2>2. CASE Attached(t)
    <3>1. next[loc[t].q] = loc[t].node  BY <1>1, <2>2 DEF Dequeues
    <3>2. loc[t].q \in Ptrs /\ loc[t].q \notin free
      BY <1>2, NullIsNone DEF Ptrs, IInv, Types
    <3>3. NextOf(loc[t].q) = loc[t].node  BY <3>1, <3>2 DEF NextOf
    <3> QED  BY <3>2, <3>3 DEF IInv, Ways
  <2> QED  BY <2>1, <2>2 DEF Attached, Detached
<1>4. \A u \in Threads \ {t} : loc[u].q = loc[t].q => loc[u].op = "empty"
  BY DEF IInv, Alone
<1> QED  BY <1>1, <1>2, <1>3, <1>4

(* The head no longer points to the node: the dequeue brings it.             *)
Cleared(t, q) ==
    /\ q = loc[t].q /\ UNCHANGED <<tail, free>> /\ loc'[t] = loc[t]
    /\ \A y \in Ptrs : next'[y] = IF y = q THEN Null ELSE next[y]
    /\ loc[t].op = "dequeue" /\ pc[t] = "clear" /\ pc'[t] = "cas"
    /\ EndOf(t) = Null /\ Brings(t)' = next[q] /\ EndOf(t)' = q

LEMMA ClearIInv ==
    ASSUME IInv, NEW t \in Threads, Clear(t)
    PROVE  IInv' /\ Others(t) /\ \E q \in Queues : Cleared(t, q)
<1>0. PICK q, x : q = loc[t].q /\ x = loc[t].node  OBVIOUS
<1>1. pc[t] = "clear" /\ Go(t, "cas") /\ "cas" \in Pcs /\ UNCHANGED <<tail, free, loc>>
  BY DEF Clear, Goes, Pcs
<1>2. loc[t].op = "dequeue"  BY <1>1 DEF IInv, Calls, Locals, OpAt
<1>3. /\ Locals(t) /\ Dequeues(t) /\ q \in Queues /\ x \in Nodes /\ x \notin free
      /\ \A u \in Threads \ {t} : loc[u].q = q => loc[u].op = "empty"
  BY <1>0, <1>1, <1>2, DequeueKnows
<1>4. next[q] = x  BY <1>0, <1>1, <1>2, <1>3 DEF Dequeues, Attached
<1>5. next' = [next EXCEPT ![q] = Null]  BY <1>0 DEF Clear
<1>6. /\ pc' \in [Threads -> Pcs] /\ loc' \in [Threads -> LocSet]
      /\ pc'[t] = "cas" /\ loc'[t] = loc[t] /\ Only(t)
  BY <1>1, WentOn DEF IInv
<1>7. \A y \in Ptrs : next'[y] = IF y = q THEN Null ELSE next[y]
  BY <1>3, <1>5 DEF IInv, Types
<1>8. q \in Ptrs /\ q # Null /\ q \notin free /\ x # Null /\ Null \notin free
  BY <1>3, NullIsNone DEF Ptrs, IInv, Types
<1>9. Types'
  <2>1. next' \in [Ptrs -> Nodes \cup {Null}]  BY <1>3, <1>5 DEF IInv, Types
  <2> QED  BY <1>1, <1>6, <2>1 DEF IInv, Types
<1>10. Untouched(t)
  <2>1. \A y \in Nodes : next'[y] = next[y]  BY <1>3, <1>7, NullIsNone DEF Ptrs
  <2>2. \A r \in Queues \ {q} : next'[r] = next[r]  BY <1>7 DEF Ptrs
  <2>3. \A u \in Threads \ {t} : loc[u].q = q => loc[u].op # "dequeue"  BY <1>3
  <2> QED  BY <1>3, <2>1, <2>2, <2>3, HeadMoves
<1>11. Locals(t)' /\ Dequeues(t)'
  BY <1>1, <1>2, <1>3, <1>6 DEF Locals, OpAt, Dequeues, Attached
<1>12. Calls'  BY <1>6, <1>10, <1>11, CallsKept DEF IInv
<1>13. Alone'  BY <1>6, AloneKept
<1>14. \A u \in Threads \ {t} : Brings(u)' = Brings(u) /\ EndOf(u)' = EndOf(u)
  BY <1>6, <1>10, OthersKept DEF IInv
<1>15. Brings(t)' = x /\ EndOf(t)' = q
  BY <1>0, <1>2, <1>6 DEF Brings, EndOf, Detached
<1>16. \A y \in Ptrs : NextOf(y)' = IF y = q THEN Null ELSE NextOf(y)
  BY <1>1, <1>7 DEF NextOf
<1>17. NextOf(q) = x  BY <1>4, <1>8 DEF NextOf
<1>18. Ways'
  <2>1. \A y \in Ptrs : y # q => NextOf(y) # x  BY <1>8, <1>17 DEF IInv, Ways
  <2>2. \A u \in Threads : Brings(u) # x  BY <1>8, <1>17 DEF IInv, Ways
  <2> QED  BY <1>1, <1>3, <1>8, <1>14, <1>15, <1>16, <2>1, <2>2 DEF IInv, Ways
<1>19. Ends'
  <2>1. ~ IsEnd(q)  BY <1>4, <1>8 DEF IsEnd
  <2>2. \A r \in Queues : tail[r] # q  BY <2>1 DEF IInv, Ends
  <2>3. \A u \in Threads : EndOf(u) # q  BY <1>8, <2>1 DEF IInv, Ends
  <2>4. IsEnd(q)'  BY <1>1, <1>7, <1>8 DEF IsEnd
  <2>5. \A y \in Ptrs : IsEnd(y) => IsEnd(y)'  BY <1>1, <1>7 DEF IsEnd
  <2>6. /\ \A r \in Queues : tail[r] \in Ptrs
        /\ \A u \in Threads : EndOf(u) # Null => EndOf(u) \in Ptrs
    BY EndInPtrs DEF IInv
  <2> QED  BY <1>1, <1>14, <1>15, <2>2, <2>3, <2>4, <2>5, <2>6 DEF IInv, Ends
<1>20. IInv'  BY <1>9, <1>12, <1>13, <1>18, <1>19 DEF IInv
<1>21. Others(t)  BY <1>6, <1>14 DEF Others, Only
<1>22. EndOf(t) = Null  BY <1>1 DEF EndOf, Detached
<1>23. Cleared(t, q)
  BY <1>0, <1>1, <1>2, <1>4, <1>6, <1>7, <1>15, <1>22 DEF Cleared
<1> QED  BY <1>3, <1>20, <1>21, <1>23

(* The cmpxchg succeeds: the queue is empty and the node free.               *)
Emptied(t, q) ==
    /\ q = loc[t].q /\ UNCHANGED next
    /\ loc[t].op = "dequeue" /\ pc[t] = "cas" /\ pc'[t] = "idle"
    /\ Brings(t) = loc[t].node /\ EndOf(t) = q /\ tail[q] = loc[t].node
    /\ \A r \in Queues : tail'[r] = IF r = q THEN q ELSE tail[r]
    /\ free' = free \cup {loc[t].node} /\ loc[t].node \in Nodes

LEMMA CasEmptyIInv ==
    ASSUME IInv, NEW t \in Threads, pc[t] = "cas", Return(t), UNCHANGED next,
           tail[loc[t].q] = loc[t].node,
           tail' = [tail EXCEPT ![loc[t].q] = loc[t].q],
           free' = free \cup {loc[t].node}
    PROVE  IInv' /\ Others(t) /\ \E q \in Queues : Emptied(t, q)
<1>0. PICK q, x : q = loc[t].q /\ x = loc[t].node  OBVIOUS
<1>1. loc[t].op = "dequeue"  BY DEF IInv, Calls, Locals, OpAt
<1>2. /\ Locals(t) /\ Dequeues(t) /\ q \in Queues /\ x \in Nodes /\ x \notin free
      /\ \A u \in Threads \ {t} : loc[u].q = q => loc[u].op = "empty"
  BY <1>0, <1>1, DequeueKnows
<1>3. tail' = [tail EXCEPT ![q] = q] /\ free' = free \cup {x} /\ tail[q] = x
  BY <1>0
<1>4. Brings(t) = x /\ EndOf(t) = q  BY <1>0, <1>1 DEF Brings, EndOf, Detached
<1>5. /\ pc' \in [Threads -> Pcs] /\ loc' \in [Threads -> LocSet]
      /\ pc'[t] = "idle" /\ loc'[t] = NoLocals /\ Only(t)
  BY Returned DEF IInv
<1>6. \A r \in Queues : tail'[r] = IF r = q THEN q ELSE tail[r]
  BY <1>2, <1>3 DEF IInv, Types
<1>7. q \in Ptrs /\ q # Null /\ q \notin free' /\ x # Null /\ Null \notin free'
  BY <1>2, <1>3, NullIsNone DEF Ptrs, IInv, Types
<1>8. Types'
  <2>1. tail' \in [Queues -> Ptrs]  BY <1>2, <1>3, <1>7 DEF IInv, Types
  <2>2. \A r \in Queues : tail'[r] \in Nodes \cup {r}  BY <1>6 DEF IInv, Types
  <2> QED  BY <1>2, <1>3, <1>5, <2>1, <2>2 DEF IInv, Types
<1>9. Untouched(t)  BY DEF Untouched
<1>10. Locals(t)' /\ Dequeues(t)'
  BY <1>5, NoLocalsAre DEF Locals, OpAt, Dequeues
<1>11. Calls'  BY <1>5, <1>9, <1>10, CallsKept DEF IInv
<1>12. Alone'  BY <1>5, NoLocalsAre, AloneKept
<1>13. \A u \in Threads \ {t} : Brings(u)' = Brings(u) /\ EndOf(u)' = EndOf(u)
  BY <1>5, <1>9, OthersKept DEF IInv
<1>14. Brings(t)' = Null /\ EndOf(t)' = Null
  BY <1>5, NoLocalsAre DEF Brings, EndOf
<1>15. IsEnd(x)  BY <1>2, <1>3 DEF IInv, Ends
<1>16. \A y \in Ptrs : NextOf(y)' = NextOf(y)  BY <1>3, <1>15 DEF NextOf, IsEnd
<1>17. Ways'
  <2>1. \A y \in Ptrs : NextOf(y) # x  BY <1>4, <1>7 DEF IInv, Ways
  <2>2. \A u \in Threads \ {t} : Brings(u) # x  BY <1>4, <1>7 DEF IInv, Ways
  <2> QED  BY <1>3, <1>7, <1>13, <1>14, <1>16, <2>1, <2>2 DEF IInv, Ways
<1>18. Ends'
  <2>1. \A r \in Queues : r # q => tail[r] # x /\ tail[r] # q
    BY <1>2, <1>3, <1>4 DEF IInv, Ends
  <2>2. \A u \in Threads \ {t} : EndOf(u) # x /\ EndOf(u) # q
    BY <1>2, <1>3, <1>4, <1>7 DEF IInv, Ends
  <2>3. \A y \in Ptrs : IsEnd(y) /\ y # x => IsEnd(y)'  BY <1>3 DEF IsEnd
  <2>4. IsEnd(q)'
    <3>1. q # x  BY <1>2, NullIsNone
    <3>2. IsEnd(q)  BY <1>4, <1>7 DEF IInv, Ends
    <3> QED  BY <1>7, <2>3, <3>1, <3>2
  <2>5. /\ \A r \in Queues : tail'[r] # Null /\ tail[r] \in Ptrs
        /\ \A u \in Threads : EndOf(u) # Null => EndOf(u) \in Ptrs
    BY <1>8, EndInPtrs, NullIsNone DEF IInv, Types
  <2> QED  BY <1>6, <1>13, <1>14, <2>1, <2>2, <2>3, <2>4, <2>5 DEF IInv, Ends
<1>19. IInv'  BY <1>8, <1>11, <1>12, <1>17, <1>18 DEF IInv
<1>20. Others(t)  BY <1>5, <1>13 DEF Others, Only
<1>21. Emptied(t, q)
  BY <1>0, <1>1, <1>2, <1>3, <1>4, <1>5, <1>6 DEF Emptied
<1> QED  BY <1>2, <1>19, <1>20, <1>21

LEMMA CasIInv ==
    ASSUME IInv, NEW t \in Threads, Cas(t)
    PROVE  IInv' /\ (Kept(t) \/ (Others(t) /\ \E q \in Queues : Emptied(t, q)))
<1>1. CASE tail[loc[t].q] = loc[t].node
  BY <1>1, CasEmptyIInv DEF Cas, Says
<1>2. CASE tail[loc[t].q] # loc[t].node
  <2>1. /\ pc[t] = "cas" /\ Go(t, "sync") /\ UNCHANGED <<next, tail, free, loc>>
        /\ "sync" \in Pcs
    BY <1>2 DEF Cas, Goes, Pcs
  <2>2. pc'[t] = "sync" /\ loc'[t] = loc[t]  BY <2>1, WentOn DEF IInv
  <2>3. Locals(t) /\ Dequeues(t)  BY DEF IInv, Calls
  <2>4. Locals(t)' /\ Dequeues(t)'
    BY <2>1, <2>2, <2>3 DEF Locals, OpAt, Dequeues, Attached
  <2>5. Detached(t)' <=> Detached(t)  BY <2>1, <2>2 DEF Detached
  <2> QED  BY <2>1, <2>4, <2>5, GoesStep
<1> QED  BY <1>1, <1>2

(* The head moves to the second node, and the first one is free; whether the *)
(* head still pointed to it or not.                                          *)
Moved(t, q) ==
    /\ q = loc[t].q /\ UNCHANGED tail
    /\ loc[t].op = "dequeue" /\ pc[t] = "move" /\ pc'[t] = "idle"
    /\ loc[t].node \in Nodes /\ loc[t].nxt \in Nodes /\ next[loc[t].node] = loc[t].nxt
    /\ \/ next[q] = loc[t].node /\ EndOf(t) = Null
       \/ Brings(t) = loc[t].node /\ EndOf(t) = q
    /\ \A y \in Ptrs : next'[y] = IF y = q THEN loc[t].nxt ELSE next[y]
    /\ free' = free \cup {loc[t].node}

LEMMA MoveIInv ==
    ASSUME IInv, NEW t \in Threads, Move(t)
    PROVE  IInv' /\ Others(t) /\ \E q \in Queues : Moved(t, q)
<1>0. PICK q, x, z : q = loc[t].q /\ x = loc[t].node /\ z = loc[t].nxt  OBVIOUS
<1>1. /\ pc[t] = "move" /\ Return(t) /\ UNCHANGED tail
      /\ next' = [next EXCEPT ![q] = z] /\ free' = free \cup {x}
  BY <1>0 DEF Move, Says
<1>2. loc[t].op = "dequeue"  BY <1>1 DEF IInv, Calls, Locals, OpAt
<1>3. /\ Locals(t) /\ Dequeues(t) /\ q \in Queues /\ x \in Nodes /\ x \notin free
      /\ \A u \in Threads \ {t} : loc[u].q = q => loc[u].op = "empty"
  BY <1>0, <1>1, <1>2, DequeueKnows
<1>4. z \in Nodes /\ z # Null /\ next[x] = z
  <2>1. z \in Nodes \cup {Null}  BY <1>0, LocFields DEF IInv, Types
  <2> QED  BY <1>0, <1>1, <1>2, <1>3, <2>1 DEF Locals, Dequeues
<1>5. \/ NextOf(q) = x /\ Brings(t) = Null /\ EndOf(t) = Null
      \/ NextOf(q) = Null /\ Brings(t) = x /\ EndOf(t) = q
  <2>1. q \notin free  BY <1>3, NullIsNone DEF IInv, Types
  <2>2. CASE next[q] = Null
    BY <1>0, <1>1, <1>2, <2>1, <2>2 DEF NextOf, Brings, EndOf, Detached
  <2>3. CASE next[q] # Null
    <3>1. next[q] = x  BY <1>0, <1>1, <1>2, <1>3, <2>3 DEF Dequeues, Attached
    <3> QED  BY <1>0, <1>1, <1>2, <2>1, <2>3, <3>1 DEF NextOf, Brings, EndOf, Detached
  <2> QED  BY <2>2, <2>3
<1>6. /\ pc' \in [Threads -> Pcs] /\ loc' \in [Threads -> LocSet]
      /\ pc'[t] = "idle" /\ loc'[t] = NoLocals /\ Only(t)
  BY <1>1, Returned DEF IInv
<1>7. \A y \in Ptrs : next'[y] = IF y = q THEN z ELSE next[y]
  BY <1>1, <1>3 DEF IInv, Types
<1>8. /\ q \in Ptrs /\ x \in Ptrs /\ q # Null /\ q \notin free' /\ q # x
      /\ x # Null /\ Null \notin free'
  BY <1>1, <1>3, NullIsNone DEF Ptrs, IInv, Types
<1>9. Types'
  <2>1. next' \in [Ptrs -> Nodes \cup {Null}]  BY <1>1, <1>3, <1>4 DEF IInv, Types
  <2> QED  BY <1>1, <1>3, <1>6, <2>1 DEF IInv, Types
<1>10. Untouched(t)
  <2>1. \A y \in Nodes : next'[y] = next[y]  BY <1>3, <1>7, NullIsNone DEF Ptrs
  <2>2. \A r \in Queues \ {q} : next'[r] = next[r]  BY <1>7 DEF Ptrs
  <2>3. \A u \in Threads \ {t} : loc[u].q = q => loc[u].op # "dequeue"  BY <1>3
  <2> QED  BY <1>3, <2>1, <2>2, <2>3, HeadMoves
<1>11. Locals(t)' /\ Dequeues(t)'
  BY <1>6, NoLocalsAre DEF Locals, OpAt, Dequeues
<1>12. Calls'  BY <1>6, <1>10, <1>11, CallsKept DEF IInv
<1>13. Alone'  BY <1>6, NoLocalsAre, AloneKept
<1>14. \A u \in Threads \ {t} : Brings(u)' = Brings(u) /\ EndOf(u)' = EndOf(u)
  BY <1>6, <1>10, OthersKept DEF IInv
<1>15. Brings(t)' = Null /\ EndOf(t)' = Null
  BY <1>6, NoLocalsAre DEF Brings, EndOf
<1>16. \A y \in Ptrs :
         NextOf(y)' = IF y = q THEN z ELSE IF y = x THEN Null ELSE NextOf(y)
  BY <1>1, <1>7, <1>8 DEF NextOf
<1>17. NextOf(x) = z  BY <1>3, <1>4 DEF NextOf
<1>18. Ways'
  <2>1. \A y \in Ptrs : y # x => NextOf(y) # z  BY <1>4, <1>8, <1>17 DEF IInv, Ways
  <2>2. \A u \in Threads : Brings(u) # z  BY <1>4, <1>8, <1>17 DEF IInv, Ways
  <2>3. \A y \in Ptrs : y # q => NextOf(y) # x  BY <1>5, <1>8 DEF IInv, Ways
  <2>4. \A u \in Threads \ {t} : Brings(u) # x  BY <1>5, <1>8 DEF IInv, Ways
  <2>5. z \notin free  BY <1>8, <1>17 DEF IInv, Ways
  <2>6. z # x
    <3> SUFFICES ASSUME z = x PROVE FALSE  OBVIOUS
    <3>1. NextOf(x) = x  BY <1>17
    <3> QED  BY <1>5, <1>8, <2>3, <3>1
  <2>7. \A y \in Ptrs : NextOf(y)' \notin free'
    BY <1>1, <1>8, <1>16, <2>3, <2>5, <2>6 DEF IInv, Ways
  <2>8. \A u \in Threads : Brings(u)' \notin free'
    BY <1>1, <1>8, <1>14, <1>15, <2>4 DEF IInv, Ways
  <2>9. \A y, w \in Ptrs : NextOf(y)' = NextOf(w)' /\ NextOf(y)' # Null => y = w
    BY <1>4, <1>16, <2>1 DEF IInv, Ways
  <2>10. \A y \in Ptrs, u \in Threads : NextOf(y)' = Brings(u)' => NextOf(y)' = Null
    BY <1>14, <1>15, <1>16, <2>2 DEF IInv, Ways
  <2>11. \A v, u \in Threads : Brings(v)' = Brings(u)' /\ Brings(v)' # Null => v = u
    BY <1>14, <1>15 DEF IInv, Ways
  <2> QED  BY <2>7, <2>8, <2>9, <2>10, <2>11 DEF Ways
<1>19. Ends'
  <2>1. ~ IsEnd(x)  BY <1>4 DEF IsEnd
  <2>2. \A r \in Queues : tail[r] # x  BY <2>1 DEF IInv, Ends
  <2>3. \A u \in Threads : EndOf(u) # x  BY <1>8, <2>1 DEF IInv, Ends
  <2>4. \A r \in Queues : tail[r] # q
    BY <1>3, <1>4, <1>5, <1>8 DEF IInv, Ends, IsEnd, NextOf
  <2>5. \A u \in Threads \ {t} : EndOf(u) # q
    BY <1>3, <1>4, <1>5, <1>8 DEF IInv, Ends, IsEnd, NextOf
  <2>6. \A y \in Ptrs : IsEnd(y) /\ y # q /\ y # x => IsEnd(y)'
    BY <1>1, <1>7 DEF IsEnd
  <2>7. /\ \A r \in Queues : tail[r] \in Ptrs /\ tail[r] # Null
        /\ \A u \in Threads : EndOf(u) # Null => EndOf(u) \in Ptrs
    BY EndInPtrs, NullIsNone DEF IInv
  <2> QED  BY <1>1, <1>14, <1>15, <2>2, <2>3, <2>4, <2>5, <2>6, <2>7 DEF IInv, Ends
<1>20. IInv'  BY <1>9, <1>12, <1>13, <1>18, <1>19 DEF IInv
<1>21. Others(t)  BY <1>6, <1>14 DEF Others, Only
<1>22. Moved(t, q)
  <2>1. NextOf(q) # Null => NextOf(q) = next[q]  BY DEF NextOf
  <2>2. \/ next[q] = x /\ EndOf(t) = Null
        \/ Brings(t) = x /\ EndOf(t) = q
    BY <1>5, <1>8, <2>1
  <2> QED  BY <1>0, <1>1, <1>2, <1>3, <1>4, <1>6, <1>7, <2>2 DEF Moved
<1> QED  BY <1>3, <1>20, <1>21, <1>22

(* A splice takes the head's next, if there is one: then it alone knows the  *)
(* first node, and may set the head.                                         *)
Taken(t, q) ==
    /\ q = loc[t].q /\ UNCHANGED <<tail, free>>
    /\ loc[t].op = "splice" /\ loc'[t].op = "splice" /\ loc'[t].q = q
    /\ loc'[t].to = loc[t].to
    /\ \A y \in Ptrs : next'[y] = IF y = q THEN Null ELSE next[y]
    /\ pc[t] = "take" /\ pc'[t] \in {"check", "taketail"} /\ EndOf(t) = Null
    /\ next[q] # Null => Brings(t)' = next[q] /\ EndOf(t)' = q

LEMMA TakeIInv ==
    ASSUME IInv, NEW t \in Threads, Take(t)
    PROVE  IInv' /\ Others(t) /\ \E q \in Queues : Taken(t, q)
<1>0. PICK q, x : q = loc[t].q /\ x = next[loc[t].q]  OBVIOUS
<1> DEFINE c == [loc[t] EXCEPT !.first = x]
           p == IF x = Null THEN "check" ELSE "taketail"
<1>1. /\ pc[t] = "take" /\ Go(t, p) /\ p \in Pcs /\ UNCHANGED <<tail, free>>
      /\ next' = [next EXCEPT ![q] = Null]
  BY <1>0 DEF Take, Goes, Pcs
<1>2. Locals(t) /\ Dequeues(t) /\ loc[t] \in LocSet /\ loc[t].op = "splice"
  BY <1>1 DEF IInv, Calls, Types, Locals, OpAt
<1>3. q \in Queues /\ q \in Ptrs /\ q # Null /\ q \notin free /\ Null \notin free
  BY <1>0, <1>2, LocFields, NullIsNone DEF Locals, Ptrs, IInv, Types
<1>4. x = next[q] /\ x \in Nodes \cup {Null}  BY <1>0, <1>3 DEF IInv, Types
<1>5. /\ c \in LocSet /\ c.op = "splice" /\ c.q = loc[t].q /\ c.to = loc[t].to
      /\ c.first = x
  BY <1>2, <1>4 DEF LocSet
<1>6. loc' = [loc EXCEPT ![t] = c]
  BY <1>0, <1>2 DEF Take, Set, IInv, Types, LocSet
<1> HIDE DEF c
<1>7. /\ pc' \in [Threads -> Pcs] /\ loc' \in [Threads -> LocSet]
      /\ pc'[t] = p /\ loc'[t] = c /\ Only(t)
  BY <1>1, <1>5, <1>6, Went DEF IInv
<1>8. \A y \in Ptrs : next'[y] = IF y = q THEN Null ELSE next[y]
  BY <1>1, <1>3 DEF IInv, Types
<1>9. Types'
  <2>1. next' \in [Ptrs -> Nodes \cup {Null}]  BY <1>1, <1>3 DEF IInv, Types
  <2> QED  BY <1>1, <1>7, <2>1 DEF IInv, Types
<1>10. Untouched(t)
  <2>1. \A y \in Nodes : next'[y] = next[y]  BY <1>3, <1>8, NullIsNone DEF Ptrs
  <2>2. \A r \in Queues \ {q} : next'[r] = next[r]  BY <1>8 DEF Ptrs
  <2>3. \A u \in Threads \ {t} : loc[u].q = q => loc[u].op # "dequeue"
    BY <1>0, <1>2 DEF IInv, Alone
  <2> QED  BY <1>3, <2>1, <2>2, <2>3, HeadMoves
<1>11. Locals(t)' /\ Dequeues(t)'
  BY <1>1, <1>2, <1>5, <1>7 DEF Locals, OpAt, Dequeues
<1>12. Calls'  BY <1>7, <1>10, <1>11, CallsKept DEF IInv
<1>13. Alone'  BY <1>2, <1>5, <1>7, AloneKept
<1>14. \A u \in Threads \ {t} : Brings(u)' = Brings(u) /\ EndOf(u)' = EndOf(u)
  BY <1>7, <1>10, OthersKept DEF IInv
<1>15. /\ Brings(t)' = x /\ EndOf(t)' = IF x = Null THEN Null ELSE q
       /\ Brings(t) = Null /\ EndOf(t) = Null
  BY <1>0, <1>1, <1>2, <1>5, <1>7 DEF Brings, EndOf, Detached
<1>16. \A y \in Ptrs : NextOf(y)' = IF y = q THEN Null ELSE NextOf(y)
  BY <1>1, <1>8 DEF NextOf
<1>17. NextOf(q) = x  BY <1>3, <1>4 DEF NextOf
<1>18. Ways'
  <2>1. \A y \in Ptrs : y # q /\ NextOf(y) = x => x = Null  BY <1>3, <1>17 DEF IInv, Ways
  <2>2. \A u \in Threads : Brings(u) = x => x = Null  BY <1>3, <1>17 DEF IInv, Ways
  <2>3. x \notin free  BY <1>3, <1>17 DEF IInv, Ways
  <2> QED  BY <1>1, <1>3, <1>14, <1>15, <1>16, <2>1, <2>2, <2>3 DEF IInv, Ways
<1>19. Ends'
  <2>1. IsEnd(q)'  BY <1>1, <1>3, <1>8 DEF IsEnd
  <2>2. \A y \in Ptrs : IsEnd(y) => IsEnd(y)'  BY <1>1, <1>8 DEF IsEnd
  <2>3. /\ \A r \in Queues : tail[r] \in Ptrs /\ tail[r] # Null
        /\ \A u \in Threads : EndOf(u) # Null => EndOf(u) \in Ptrs
    BY EndInPtrs, NullIsNone DEF IInv
  <2>4. x # Null => ~ IsEnd(q)  BY <1>4 DEF IsEnd
  <2>5. x # Null => /\ \A r \in Queues : tail[r] # q
                    /\ \A u \in Threads : EndOf(u) # q
    BY <1>3, <2>4 DEF IInv, Ends
  <2> QED  BY <1>1, <1>14, <1>15, <2>1, <2>2, <2>3, <2>5 DEF IInv, Ends
<1>20. IInv'  BY <1>9, <1>12, <1>13, <1>18, <1>19 DEF IInv
<1>21. Others(t)  BY <1>7, <1>14 DEF Others, Only
<1>22. Taken(t, q)
  BY <1>0, <1>1, <1>2, <1>4, <1>5, <1>7, <1>8, <1>15 DEF Taken
<1> QED  BY <1>3, <1>20, <1>21, <1>22

(* The source is empty again, and the splice has its last node.              *)
TailTaken(t, q) ==
    /\ q = loc[t].q /\ UNCHANGED <<next, free>>
    /\ loc[t].op = "splice" /\ loc'[t].op = "splice" /\ loc'[t].q = q
    /\ loc'[t].to = loc[t].to
    /\ \A r \in Queues : tail'[r] = IF r = q THEN q ELSE tail[r]
    /\ pc[t] = "taketail" /\ pc'[t] = "xchg" /\ tail[q] # q
    /\ EndOf(t) = q /\ Brings(t)' = Brings(t) /\ EndOf(t)' = tail[q]

LEMMA TakeTailIInv ==
    ASSUME IInv, NEW t \in Threads, TakeTail(t)
    PROVE  IInv' /\ Others(t) /\ \E q \in Queues : TailTaken(t, q)
<1>0. PICK q, x : q = loc[t].q /\ x = tail[loc[t].q]  OBVIOUS
<1> DEFINE c == [loc[t] EXCEPT !.last = x]
<1>1. /\ pc[t] = "taketail" /\ Go(t, "xchg") /\ "xchg" \in Pcs /\ UNCHANGED <<next, free>>
      /\ tail' = [tail EXCEPT ![q] = q]
  BY <1>0 DEF TakeTail, Goes, Pcs
<1>2. Locals(t) /\ Dequeues(t) /\ loc[t] \in LocSet /\ loc[t].op = "splice"
  BY <1>1 DEF IInv, Calls, Types, Locals, OpAt
<1>3. q \in Queues /\ q # Null
  BY <1>0, <1>2, LocFields DEF Locals
<1>4. EndOf(t) = q  BY <1>0, <1>1 DEF EndOf
<1>5. x = tail[q] /\ x \in Nodes /\ x # Null
  <2>1. x = tail[q] /\ x # q  BY <1>0, <1>3, <1>4 DEF IInv, Ends
  <2> QED  BY <1>3, <2>1, NullIsNone DEF IInv, Types, Ptrs
<1>6. /\ c \in LocSet /\ c.op = "splice" /\ c.q = loc[t].q /\ c.to = loc[t].to
      /\ c.first = loc[t].first /\ c.last = x
  BY <1>2, <1>5 DEF LocSet
<1>7. loc' = [loc EXCEPT ![t] = c]
  BY <1>0, <1>2 DEF TakeTail, Set, IInv, Types, LocSet
<1> HIDE DEF c
<1>8. /\ pc' \in [Threads -> Pcs] /\ loc' \in [Threads -> LocSet]
      /\ pc'[t] = "xchg" /\ loc'[t] = c /\ Only(t)
  BY <1>1, <1>6, <1>7, Went DEF IInv
<1>9. \A r \in Queues : tail'[r] = IF r = q THEN q ELSE tail[r]
  BY <1>1, <1>3 DEF IInv, Types
<1>10. Types'
  <2>1. tail' \in [Queues -> Ptrs]  BY <1>1, <1>3 DEF IInv, Types, Ptrs
  <2>2. \A r \in Queues : tail'[r] \in Nodes \cup {r}  BY <1>9 DEF IInv, Types
  <2> QED  BY <1>1, <1>8, <2>1, <2>2 DEF IInv, Types
<1>11. Untouched(t)  BY <1>1 DEF Untouched
<1>12. Locals(t)' /\ Dequeues(t)'
  BY <1>1, <1>2, <1>5, <1>6, <1>8 DEF Locals, OpAt, Dequeues
<1>13. Calls'  BY <1>8, <1>11, <1>12, CallsKept DEF IInv
<1>14. Alone'  BY <1>2, <1>6, <1>8, AloneKept
<1>15. \A u \in Threads \ {t} : Brings(u)' = Brings(u) /\ EndOf(u)' = EndOf(u)
  BY <1>8, <1>11, OthersKept DEF IInv
<1>16. Brings(t)' = Brings(t) /\ EndOf(t)' = x
  BY <1>1, <1>6, <1>8 DEF Brings, EndOf
<1>17. \A y \in Ptrs : NextOf(y)' = NextOf(y)  BY <1>1 DEF NextOf
<1>18. Ways'
  <2>1. \A u \in Threads : Brings(u)' = Brings(u)  BY <1>15, <1>16
  <2> QED  BY <1>1, <1>17, <2>1 DEF IInv, Ways
<1>19. Ends'
  <2>1. \A y : IsEnd(y)' <=> IsEnd(y)  BY <1>1 DEF IsEnd
  <2> QED  BY <1>3, <1>4, <1>5, <1>9, <1>15, <1>16, <2>1 DEF IInv, Ends
<1>20. IInv'  BY <1>10, <1>13, <1>14, <1>18, <1>19 DEF IInv
<1>21. Others(t)  BY <1>8, <1>15 DEF Others, Only
<1>22. tail[q] # q  BY <1>3, <1>5, NullIsNone
<1>23. TailTaken(t, q)
  BY <1>0, <1>1, <1>2, <1>4, <1>5, <1>6, <1>8, <1>9, <1>16, <1>22 DEF TailTaken
<1> QED  BY <1>3, <1>20, <1>21, <1>23

-----------------------------------------------------------------------------
(* The theorems *)

LEMMA InitIInv == Init => IInv
<1> SUFFICES ASSUME Init PROVE IInv  OBVIOUS
<1>1. Types
  <2>1. next \in [Ptrs -> Nodes \cup {Null}]  BY DEF Init, Ptrs
  <2>2. loc \in [Threads -> LocSet]  BY NoLocalsAre DEF Init
  <2> QED  BY <2>1, <2>2 DEF Init, Types, Ptrs, Pcs
<1>2. \A t \in Threads : pc[t] = "idle" /\ loc[t].op = "none" /\ loc[t].q = Null
  BY NoLocalsAre DEF Init
<1>3. Calls  BY <1>2 DEF Calls, Locals, OpAt, Dequeues
<1>4. Alone  BY <1>2 DEF Alone
<1>5. \A t \in Threads : Brings(t) = Null /\ EndOf(t) = Null
  BY <1>2 DEF Brings, EndOf
<1>6. \A y \in Ptrs : NextOf(y) = Null  BY DEF NextOf, Init, Ptrs
<1>7. Null \notin free  BY NullIsNone DEF Init, Ptrs
<1>8. Ways  BY <1>5, <1>6, <1>7 DEF Ways
<1>9. \A q \in Queues : tail[q] = q /\ q # Null /\ IsEnd(q)
  BY NullIsNone DEF Init, IsEnd, Ptrs
<1>10. Ends  BY <1>5, <1>9 DEF Ends
<1> QED  BY <1>1, <1>3, <1>4, <1>8, <1>10 DEF IInv

LEMMA StutterIInv == ASSUME IInv, UNCHANGED vars PROVE IInv'
<1> USE DEF vars
<1>1. Types'  BY DEF IInv, Types
<1>2. Calls'
  BY DEF IInv, Calls, Locals, Dequeues, Attached
<1>3. Alone'  BY DEF IInv, Alone
<1>4. Ways'  BY DEF IInv, Ways, NextOf, Brings, Detached
<1>5. Ends'  BY DEF IInv, Ends, EndOf, Detached, IsEnd
<1> QED  BY <1>1, <1>2, <1>3, <1>4, <1>5 DEF IInv

LEMMA NextIInv == IInv /\ [Next]_vars => IInv'
<1> SUFFICES ASSUME IInv, [Next]_vars PROVE IInv'  OBVIOUS
<1>1. ASSUME NEW t \in Enqueuers, Enqueue(t) PROVE IInv'
  BY <1>1, EnqueueIInv DEF Threads
<1>2. ASSUME NEW t \in Takers, NEW q \in Queues, NEW op \in {"empty", "dequeue", "iterate"},
             Start(t, op, q, Null)
      PROVE  IInv'
  BY <1>2, StartIInv DEF Threads
<1>3. ASSUME NEW t \in Splicers, NEW q \in Queues, NEW to \in Queues,
             Start(t, "splice", q, to)
      PROVE  IInv'
  BY <1>3, StartIInv DEF Threads
<1>4. ASSUME NEW t \in Threads, Step(t) PROVE IInv'
  <2>1. CASE Appends(t)  BY <2>1, AppendXchgIInv, AppendLinkIInv DEF Appends
  <2>2. CASE Test(t)  BY <2>2, TestHeadIInv, TestTailIInv DEF Test
  <2>3. CASE Walk(t)  BY <2>3, FirstIInv, LoadNextIInv, SyncNextIInv, EndIInv DEF Walk
  <2>4. CASE Dequeue(t)  BY <2>4, ClearIInv, CasIInv, MoveIInv DEF Dequeue
  <2>5. CASE Splice(t)  BY <2>5, TakeIInv, CheckIInv, TakeTailIInv DEF Splice
  <2> QED  BY <1>4, <2>1, <2>2, <2>3, <2>4, <2>5 DEF Step
<1>5. CASE UNCHANGED vars  BY <1>5, StutterIInv
<1> QED  BY <1>1, <1>2, <1>3, <1>4, <1>5 DEF Next

(* Each node has one pointer to it and each chain one end, whatever          *)
(* enqueuers, dequeues, splices and iterations interleave.                   *)
THEOREM Invariant == Spec => []IInv
BY InitIInv, NextIInv, PTL DEF Spec

LEMMA IInvTypes == IInv => TypeOK
<1> SUFFICES ASSUME IInv PROVE TypeOK  OBVIOUS
<1>1. /\ next \in [Queues \cup Nodes -> Nodes \cup {Null}]
      /\ tail \in [Queues -> Queues \cup Nodes] /\ free \subseteq Nodes
      /\ pc \in [Threads -> Pcs]
  BY DEF IInv, Types, Ptrs
<1>2. ASSUME NEW t \in Threads
      PROVE  /\ loc[t].op = "none" <=> pc[t] = "idle"
             /\ pc[t] \in {"next", "sync", "end", "clear", "cas", "move"} => loc[t].node \in Nodes
             /\ pc[t] \in {"xchg", "link"} => {loc[t].first, loc[t].last} \subseteq Nodes
             /\ pc[t] = "link" => loc[t].old # Null
  <2>1. Locals(t) /\ loc[t] \in LocSet  BY DEF IInv, Calls, Types
  <2> QED  BY <2>1, LocFields DEF Locals, OpAt
<1> QED  BY <1>1, <1>2 DEF TypeOK, Pcs

(* Pointers and threads stay in their ranges: a splice that found a first    *)
(* node also finds a last one, and a dequeue never follows a NULL.           *)
THEOREM TypeCorrect == Spec => []TypeOK
BY Invariant, IInvTypes, PTL

(* The place where an append is about to link is a queue's head or a node    *)
(* still in use, and its next is NULL: a link neither hides another one nor  *)
(* writes to a node that a dequeue has given back.                           *)
LinksMeetEnds == \A t \in Threads :
    pc[t] = "link" => loc[t].old \notin free /\ next[loc[t].old] = Null

THEOREM LinksAreSafe == Spec => []LinksMeetEnds
<1>1. IInv => LinksMeetEnds
  <2> SUFFICES ASSUME IInv, NEW t \in Threads, pc[t] = "link" PROVE IsEnd(loc[t].old)
    BY DEF LinksMeetEnds, IsEnd
  <2>1. EndOf(t) = loc[t].old /\ loc[t].old # Null
    BY DEF EndOf, IInv, Calls, Locals
  <2> QED  BY <2>1 DEF IInv, Ends
<1> QED  BY <1>1, Invariant, PTL

(* A node is given to one caller: when a dequeue is about to return it, it   *)
(* is not free, and no other dequeue has it at hand.                         *)
Handing(t) == loc[t].op = "dequeue" /\ pc[t] \in {"next", "clear", "cas", "sync", "move"}
NodesHandedOnce ==
    /\ \A t \in Threads : Handing(t) => loc[t].node \notin free
    /\ \A t, u \in Threads :
         Handing(t) /\ Handing(u) /\ loc[t].node = loc[u].node => t = u

LEMMA HandedOnce == IInv => NodesHandedOnce
<1> SUFFICES ASSUME IInv PROVE NodesHandedOnce  OBVIOUS
<1>1. ASSUME NEW t \in Threads, Handing(t)
      PROVE  \/ Brings(t) = loc[t].node
             \/ NextOf(loc[t].q) = loc[t].node /\ Brings(t) = Null
  <2>1. CASE Detached(t)  BY <1>1, <2>1 DEF Brings, Detached, Handing
  <2>2. CASE Attached(t)
    <3>1. next[loc[t].q] = loc[t].node  BY <1>1, <2>2 DEF IInv, Calls, Dequeues, Handing
    <3>2. loc[t].q \in Queues  BY <1>1, LocFields DEF IInv, Calls, Types, Locals, Handing
    <3>3. loc[t].q \notin free  BY <3>2, NullIsNone DEF IInv, Types
    <3>4. pc[t] \notin {"xchg", "link", "taketail"} /\ ~ Detached(t)
      BY <1>1, <2>2 DEF Attached, Detached, Handing
    <3> QED  BY <3>1, <3>3, <3>4 DEF NextOf, Brings
  <2> QED  BY <1>1, <2>1, <2>2 DEF Attached, Detached, Handing
<1>2. ASSUME NEW t \in Threads, Handing(t)
      PROVE  loc[t].q \in Ptrs /\ loc[t].q # Null /\ loc[t].node # Null
  BY <1>2, LocFields DEF IInv, Calls, Types, Locals, Handing, Ptrs
<1>3. \A t \in Threads : Handing(t) => loc[t].node \notin free
  BY <1>1, <1>2 DEF IInv, Ways
<1>4. ASSUME NEW t \in Threads, NEW u \in Threads, Handing(t), Handing(u),
             loc[t].node = loc[u].node, t # u
      PROVE  FALSE
  <2>1. loc[t].q # loc[u].q  BY <1>4 DEF IInv, Alone, Handing
  <2> QED  BY <1>1, <1>2, <1>4, <2>1 DEF IInv, Ways
<1> QED  BY <1>3, <1>4 DEF NodesHandedOnce

(* Two dequeues, of different queues, never return the same node, and none   *)
(* returns a node that is free already.                                      *)
THEOREM NodesAreHandedOnce == Spec => []NodesHandedOnce
BY Invariant, HandedOnce, PTL

-----------------------------------------------------------------------------
(* The walk along the chain: Chain(from, to) is the sequence whose nodes     *)
(* follow each other from one to the other.  That the walk agrees with the   *)
(* sequence at every index is shown by the least index where it would not.   *)

(* The least of a set of numbers. *)
LEMMA LeastIs ==
  ASSUME NEW S \in SUBSET Nat, NEW s \in S
  PROVE  \E m \in S : \A x \in S : m <= x
<1> DEFINE Less == {ss \in Nat \X Nat : ss[1] < ss[2]}
<1>1. IsWellFoundedOn(Less, Nat)
  BY NatLessThanWellFounded DEF OpToRel
<1>2. PICK m \in S : \A x \in S : <<x, m>> \notin Less
  <2> HIDE DEF Less
  <2> QED
    BY <1>1, WFMin
<1>3. ASSUME NEW x \in S PROVE m <= x
  <2>1. x \in Nat /\ m \in Nat
    OBVIOUS
  <2>2. ~ (x < m)
    BY <1>2, <2>1
  <2> QED
    BY <2>1, <2>2
<1> QED
  BY <1>3

Walks(f, from, to) ==
  f = [k \in 1 .. Cardinality(Nodes) |->
         IF k = 1 THEN from ELSE IF f[k - 1] \in {to, Null} THEN Null ELSE After(f[k - 1])]

UpTo(at, to) ==
  LET ends == {k \in DOMAIN at : at[k] = to}
  IN  IF ends = {} THEN << >> ELSE [j \in 1 .. (CHOOSE k \in ends : TRUE) |-> at[j]]

(* Chain reads the walk up to its end.                                       *)
LEMMA ChainIs ==
  \A from, to : Chain(from, to) = UpTo(CHOOSE f : Walks(f, from, to), to)
BY DEF Chain, Walks, UpTo

(* A sequence without repetitions has no more elements than there are nodes. *)
LEMMA SeqFits ==
  ASSUME NEW s \in Seq(Nodes), IsFiniteSet(Nodes),
         \A i, j \in 1 .. Len(s) : s[i] = s[j] => i = j
  PROVE  Len(s) <= Cardinality(Nodes) /\ Cardinality(Nodes) \in Nat
<1>1. s \in [1 .. Len(s) -> Nodes] /\ Len(s) \in Nat
  BY LenProperties
<1>2. s \in Injection(1 .. Len(s), Nodes)
  BY <1>1 DEF Injection, IsInjective
<1>3. Cardinality(1 .. Len(s)) <= Cardinality(Nodes)
  BY <1>2, FS_Injection
<1>4. Cardinality(1 .. Len(s)) = Len(s)
  <2>1. 1 \in Int /\ Len(s) \in Int
    BY <1>1
  <2>2. Cardinality(1 .. Len(s)) = IF 1 > Len(s) THEN 0 ELSE Len(s) - 1 + 1
    BY <2>1, FS_Interval
  <2> QED  BY <1>1, <2>2
<1>5. Cardinality(Nodes) \in Nat
  BY FS_CardinalityType
<1> QED
  BY <1>3, <1>4, <1>5

(* The sequence that Chain walks, when the nodes of s follow each other.     *)
Follow(s) ==
  /\ s \in Seq(Nodes) /\ s # << >>
  /\ \A i, j \in 1 .. Len(s) : s[i] = s[j] => i = j
  /\ \A i \in 1 .. Len(s) - 1 : After(s[i]) = s[i + 1]

(* A walk from the first node of s reads s, and NULL behind its last node.   *)
LEMMA WalksAre ==
  ASSUME IsFiniteSet(Nodes), NEW s, Follow(s), NEW f, Walks(f, s[1], s[Len(s)])
  PROVE  /\ DOMAIN f = 1 .. Cardinality(Nodes)
         /\ \A k \in 1 .. Cardinality(Nodes) :
              f[k] = IF k <= Len(s) THEN s[k] ELSE Null
<1> DEFINE N == Cardinality(Nodes)
           g(k) == IF k <= Len(s) THEN s[k] ELSE Null
           Bad == {k \in 1 .. N : f[k] # g(k)}
<1>1. /\ s \in Seq(Nodes) /\ s # << >> /\ Len(s) \in Nat \ {0}
      /\ \A i, j \in 1 .. Len(s) : s[i] = s[j] => i = j
      /\ \A i \in 1 .. Len(s) - 1 : After(s[i]) = s[i + 1]
      /\ \A i \in 1 .. Len(s) : s[i] \in Nodes
  BY EmptySeq, LenProperties, ElementOfSeq DEF Follow
<1>2. Len(s) <= N /\ N \in Nat
  BY <1>1, SeqFits
<1> HIDE DEF N
<1>3. f = [k \in 1 .. N |-> IF k = 1 THEN s[1] ELSE IF f[k - 1] \in {s[Len(s)], Null}
                                              THEN Null ELSE After(f[k - 1])]
  BY DEF Walks, N
<1>4. DOMAIN f = 1 .. N
  BY <1>3
<1>5. ASSUME NEW b \in Bad PROVE FALSE
  <2>1. Bad \in SUBSET Nat
    BY <1>2
  <2>2. PICK m \in Bad : \A x \in Bad : m <= x
    <3> HIDE DEF Bad
    <3> QED  BY <1>5, <2>1, LeastIs
  <2>3. m \in 1 .. N /\ f[m] # g(m)
    OBVIOUS
  <2>4. CASE m = 1
    BY <1>1, <1>2, <1>3, <2>3, <2>4
  <2>5. CASE m # 1
    <3>1. m - 1 \in 1 .. N /\ m - 1 \notin Bad
      <4>1. m - 1 \in 1 .. N
        BY <1>2, <2>3, <2>5
      <4>2. m - 1 \notin Bad
        <5> HIDE DEF Bad
        <5> QED  BY <1>2, <2>2, <2>3
      <4> QED  BY <4>1, <4>2
    <3>2. f[m - 1] = g(m - 1)
      BY <3>1
    <3>3. f[m] = IF f[m - 1] \in {s[Len(s)], Null} THEN Null ELSE After(f[m - 1])
      BY <1>3, <2>3, <2>5
    <3>4. CASE m <= Len(s)
      <4>1. m - 1 \in 1 .. Len(s) - 1 /\ m - 1 \in 1 .. Len(s) /\ m - 1 # Len(s)
        BY <1>1, <1>2, <2>3, <2>5, <3>4
      <4>2. f[m - 1] = s[m - 1]
        BY <3>2, <4>1
      <4>3. s[m - 1] # s[Len(s)] /\ s[m - 1] # Null
        BY <1>1, <4>1, WfcAssumption
      <4>4. f[m] = After(s[m - 1]) /\ After(s[m - 1]) = s[(m - 1) + 1]
        BY <1>1, <3>3, <4>1, <4>2, <4>3
      <4>5. (m - 1) + 1 = m
        BY <2>3
      <4> QED  BY <2>3, <3>4, <4>4, <4>5
    <3>5. CASE ~ (m <= Len(s))
      <4>1. f[m - 1] \in {s[Len(s)], Null}
        <5>1. CASE m - 1 <= Len(s)
          <6>1. m - 1 = Len(s)
            BY <1>1, <2>3, <3>5, <5>1
          <6> QED  BY <3>2, <6>1, <5>1
        <5>2. CASE ~ (m - 1 <= Len(s))
          BY <3>2, <5>2
        <5> QED  BY <5>1, <5>2
      <4> QED  BY <2>3, <3>3, <3>5, <4>1
    <3> QED  BY <3>4, <3>5
  <2> QED  BY <2>4, <2>5
<1> QED
  BY <1>4, <1>5 DEF N

(* So Chain, from the first to the last node of s, is s.                     *)
LEMMA ChainOf ==
  ASSUME IsFiniteSet(Nodes), NEW s, Follow(s)
  PROVE  Chain(s[1], s[Len(s)]) = s
<1> DEFINE N == Cardinality(Nodes)
<1>1. /\ s \in Seq(Nodes) /\ s # << >> /\ Len(s) \in Nat \ {0}
      /\ \A i, j \in 1 .. Len(s) : s[i] = s[j] => i = j
      /\ \A i \in 1 .. Len(s) - 1 : After(s[i]) = s[i + 1]
      /\ \A i \in 1 .. Len(s) : s[i] \in Nodes
  BY EmptySeq, LenProperties, ElementOfSeq DEF Follow
<1>2. Len(s) <= N /\ N \in Nat
  BY <1>1, SeqFits
<1> HIDE DEF N
<1>3. \E f : Walks(f, s[1], s[Len(s)])
  <2> DEFINE g == [k \in 1 .. N |-> IF k <= Len(s) THEN s[k] ELSE Null]
  <2>1. ASSUME NEW k \in 1 .. N
        PROVE  g[k] = IF k = 1 THEN s[1] ELSE IF g[k - 1] \in {s[Len(s)], Null}
                                              THEN Null ELSE After(g[k - 1])
    <3>1. CASE k = 1
      BY <1>1, <1>2, <3>1
    <3>2. CASE k # 1
      <4>1. k - 1 \in 1 .. N /\ k \in Nat
        BY <1>2, <2>1, <3>2
      <4>2. g[k - 1] = IF k - 1 <= Len(s) THEN s[k - 1] ELSE Null
        BY <4>1
      <4>3. g[k] = IF k <= Len(s) THEN s[k] ELSE Null
        OBVIOUS
      <4> HIDE DEF g
      <4>4. CASE k <= Len(s)
        <5>1. k - 1 \in 1 .. Len(s) - 1 /\ k - 1 \in 1 .. Len(s) /\ k - 1 # Len(s)
          BY <1>1, <1>2, <4>1, <4>4
        <5>2. s[k - 1] # s[Len(s)] /\ s[k - 1] # Null
          BY <1>1, <5>1, WfcAssumption
        <5>3. After(s[k - 1]) = s[(k - 1) + 1] /\ (k - 1) + 1 = k
          BY <1>1, <4>1, <5>1
        <5> QED  BY <3>2, <4>2, <4>3, <4>4, <5>1, <5>2, <5>3
      <4>5. CASE ~ (k <= Len(s))
        <5>1. k - 1 <= Len(s) => k - 1 = Len(s)
          BY <1>1, <4>1, <4>5
        <5>2. g[k - 1] \in {s[Len(s)], Null}
          BY <4>2, <5>1
        <5> QED  BY <3>2, <4>3, <4>5, <5>2
      <4> QED  BY <4>4, <4>5
    <3> QED  BY <3>1, <3>2
  <2>2. g = [k \in 1 .. N |-> IF k = 1 THEN s[1] ELSE IF g[k - 1] \in {s[Len(s)], Null}
                                              THEN Null ELSE After(g[k - 1])]
    <3>1. g = [k \in 1 .. N |-> g[k]]
      OBVIOUS
    <3> HIDE DEF g
    <3> QED  BY <2>1, <3>1
  <2>3. Walks(g, s[1], s[Len(s)])
    <3> HIDE DEF g
    <3> QED  BY <2>2 DEF Walks, N
  <2> QED  BY <2>3
<1>4. PICK at : /\ at = CHOOSE f : Walks(f, s[1], s[Len(s)])
                /\ Chain(s[1], s[Len(s)]) = UpTo(at, s[Len(s)])
  BY ChainIs
<1>5. Walks(at, s[1], s[Len(s)])
  BY <1>3, <1>4
<1>6. /\ DOMAIN at = 1 .. N
      /\ \A k \in 1 .. N : at[k] = IF k <= Len(s) THEN s[k] ELSE Null
  BY <1>5, WalksAre DEF N
<1> DEFINE ends == {k \in DOMAIN at : at[k] = s[Len(s)]}
<1>7. ends = {Len(s)}
  <2>1. Len(s) \in ends
    BY <1>1, <1>2, <1>6
  <2>2. ASSUME NEW k \in ends PROVE k = Len(s)
    <3>1. k \in 1 .. N /\ at[k] = s[Len(s)]
      BY <1>6
    <3>2. s[Len(s)] # Null
      BY <1>1, WfcAssumption
    <3> QED  BY <1>1, <1>2, <1>6, <3>1, <3>2
  <2> QED  BY <2>1, <2>2
<1>8. Chain(s[1], s[Len(s)]) = [j \in 1 .. Len(s) |-> at[j]]
  <2>1. (CHOOSE k \in {Len(s)} : TRUE) = Len(s)
    OBVIOUS
  <2>2. Chain(s[1], s[Len(s)]) = IF ends = {} THEN << >>
                          ELSE [j \in 1 .. (CHOOSE k \in ends : TRUE) |-> at[j]]
    BY <1>4 DEF UpTo
  <2> HIDE DEF ends
  <2> QED  BY <1>7, <2>1, <2>2
<1>9. \A j \in 1 .. Len(s) : at[j] = s[j]
  BY <1>1, <1>2, <1>6
<1>10. s = [j \in 1 .. Len(s) |-> s[j]]
  BY <1>1, LenProperties
<1> QED
  BY <1>8, <1>9, <1>10

-----------------------------------------------------------------------------
(* Rows: sequences of nodes, one for each queue and one for each thread      *)

QPlace(q) == <<"queue", q>>
HPlace(t) == <<"hand", t>>

(* The places are distinct: a row for each queue and one for each thread.    *)
LEMMA PlacesAre ==
  /\ \A q \in Queues : QPlace(q) \in Places
  /\ \A t \in Threads : HPlace(t) \in Places
  /\ \A q \in Queues, t \in Threads : QPlace(q) # HPlace(t)
  /\ \A q, r \in Queues : QPlace(q) = QPlace(r) => q = r
  /\ \A t, u \in Threads : HPlace(t) = HPlace(u) => t = u
  /\ \A c \in Places : (\E q \in Queues : c = QPlace(q)) \/ (\E t \in Threads : c = HPlace(t))
BY DEF QPlace, HPlace, Places

(* The sequences of s hold each node that is not in fr once, and no other.   *)
Spots(s, c) == 1 .. Len(s[c])
Apart(s) == \A c, d \in Places :
    \A i \in Spots(s, c), j \in Spots(s, d) : s[c][i] = s[d][j] => c = d /\ i = j
Data(s, fr) ==
    /\ s \in [Places -> Seq(Nodes)]
    /\ Apart(s)
    /\ \A x \in Nodes : x \in fr <=> \A c \in Places : \A i \in Spots(s, c) : s[c][i] # x

Put(s, a, w) == [c \in Places |-> IF c = a THEN w ELSE s[c]]
Join(s, a, b) ==
    [c \in Places |-> IF c = a THEN s[a] \o s[b] ELSE IF c = b THEN << >> ELSE s[c]]

(* The types of the rows.                                                    *)
LEMMA DataFacts ==
  ASSUME NEW s, NEW fr, Data(s, fr), NEW c \in Places
  PROVE  /\ s[c] \in Seq(Nodes) /\ Len(s[c]) \in Nat
         /\ s[c] # << >> <=> Len(s[c]) \in Nat \ {0}
         /\ s[c] = << >> <=> Len(s[c]) = 0
         /\ \A i \in Spots(s, c) : s[c][i] \in Nodes
<1>1. s[c] \in Seq(Nodes)
  BY DEF Data
<1> QED
  BY <1>1, EmptySeq, LenProperties, ElementOfSeq DEF Spots

(* A node enters an empty sequence.                                          *)
LEMMA DataPut ==
  ASSUME NEW s, NEW fr, Data(s, fr), NEW a \in Places, s[a] = << >>, NEW x \in fr \cap Nodes
  PROVE  Data(Put(s, a, <<x>>), fr \ {x})
<1> DEFINE w == Put(s, a, <<x>>)
<1>1. <<x>> \in Seq(Nodes) /\ Len(<<x>>) = 1 /\ <<x>>[1] = x
  OBVIOUS
<1>2. /\ w[a] = <<x>> /\ \A c \in Places \ {a} : w[c] = s[c]
      /\ w \in [Places -> Seq(Nodes)]
  BY <1>1 DEF Put, Data
<1>3. Len(w[a]) = 1 /\ w[a][1] = x
  BY <1>1, <1>2
<1>4. Len(s[a]) = 0
  BY DataFacts
<1> HIDE DEF w
<1>5. \A c \in Places \ {a} : Spots(w, c) = Spots(s, c)
  BY <1>2 DEF Spots
<1>6. Spots(w, a) = {1} /\ Spots(s, a) = {}
  BY <1>3, <1>4 DEF Spots
<1>7. \A c \in Places : \A i \in Spots(s, c) : s[c][i] # x
  BY DEF Data
<1>8. Apart(w)
  <2> SUFFICES ASSUME NEW c \in Places, NEW d \in Places,
                      NEW i \in Spots(w, c), NEW j \in Spots(w, d), w[c][i] = w[d][j]
               PROVE  c = d /\ i = j
    BY DEF Apart
  <2>1. CASE c = a /\ d = a
    BY <1>6, <2>1
  <2>2. CASE c = a /\ d # a
    BY <1>2, <1>3, <1>5, <1>6, <1>7, <2>2
  <2>3. CASE c # a /\ d = a
    BY <1>2, <1>3, <1>5, <1>6, <1>7, <2>3
  <2>4. CASE c # a /\ d # a
    <3>1. i \in Spots(s, c) /\ j \in Spots(s, d) /\ s[c][i] = s[d][j]
      BY <1>2, <1>5, <2>4
    <3>2. Apart(s)
      BY DEF Data
    <3> QED  BY <3>1, <3>2 DEF Apart
  <2> QED  BY <2>1, <2>2, <2>3, <2>4
<1>9. ASSUME NEW y \in Nodes
      PROVE  y \in fr \ {x} <=> \A c \in Places : \A i \in Spots(w, c) : w[c][i] # y
  <2>1. CASE y = x
    BY <1>3, <1>6, <2>1
  <2>2. CASE y # x
    <3>1. y \in fr <=> \A c \in Places : \A i \in Spots(s, c) : s[c][i] # y
      BY DEF Data
    <3> QED  BY <1>2, <1>3, <1>5, <1>6, <2>2, <3>1
  <2> QED  BY <2>1, <2>2
<1> QED
  BY <1>2, <1>8, <1>9 DEF Data, w

(* The nodes of b go behind those of a.                                      *)
JoinAs(s, a, b) ==
    /\ Join(s, a, b) \in [Places -> Seq(Nodes)]
    /\ Join(s, a, b)[a] = s[a] \o s[b] /\ Join(s, a, b)[b] = << >>
    /\ \A c \in Places \ {a, b} : Join(s, a, b)[c] = s[c]
    /\ Len(Join(s, a, b)[a]) = Len(s[a]) + Len(s[b])
    /\ \A i \in Spots(s, a) : Join(s, a, b)[a][i] = s[a][i]
    /\ \A i \in Spots(s, b) : Join(s, a, b)[a][Len(s[a]) + i] = s[b][i]

(* The definition of Join, spelled out.                                      *)
LEMMA JoinIs ==
  ASSUME NEW s, NEW fr, Data(s, fr), NEW a \in Places, NEW b \in Places, a # b
  PROVE  JoinAs(s, a, b)
<1>1. s[a] \in Seq(Nodes) /\ s[b] \in Seq(Nodes) /\ Len(s[a]) \in Nat /\ Len(s[b]) \in Nat
  BY DataFacts
<1>2. /\ s[a] \o s[b] \in Seq(Nodes)
      /\ Len(s[a] \o s[b]) = Len(s[a]) + Len(s[b])
      /\ \A i \in 1 .. Len(s[a]) + Len(s[b]) :
           (s[a] \o s[b])[i] = IF i <= Len(s[a]) THEN s[a][i] ELSE s[b][i - Len(s[a])]
  BY <1>1, ConcatProperties
<1>3. /\ Join(s, a, b)[a] = s[a] \o s[b] /\ Join(s, a, b)[b] = << >>
      /\ \A c \in Places \ {a, b} : Join(s, a, b)[c] = s[c]
  BY DEF Join
<1>4. Join(s, a, b) \in [Places -> Seq(Nodes)]
  <2>1. << >> \in Seq(Nodes)
    BY EmptySeq
  <2>2. \A c \in Places : s[c] \in Seq(Nodes)
    BY DataFacts
  <2> QED  BY <1>2, <2>1, <2>2 DEF Join
<1>5. ASSUME NEW i \in Spots(s, a) PROVE (s[a] \o s[b])[i] = s[a][i]
  <2> DEFINE n == Len(s[a])
             m == Len(s[b])
             v == s[a] \o s[b]
  <2>1. n \in Nat /\ i \in 1 .. n /\ m \in Nat
    BY <1>1 DEF Spots
  <2>2. \A k \in 1 .. n + m : v[k] = IF k <= n THEN s[a][k] ELSE s[b][k - n]
    BY <1>2
  <2> HIDE DEF n, m, v
  <2>3. i \in 1 .. n + m /\ i <= n
    BY <2>1
  <2>4. v[i] = s[a][i]
    BY <2>2, <2>3
  <2> QED  BY <2>4 DEF v
<1>6. ASSUME NEW i \in Spots(s, b) PROVE (s[a] \o s[b])[Len(s[a]) + i] = s[b][i]
  <2> DEFINE n == Len(s[a])
             m == Len(s[b])
             v == s[a] \o s[b]
  <2>1. n \in Nat /\ i \in 1 .. m /\ m \in Nat
    BY <1>1 DEF Spots
  <2>2. \A k \in 1 .. n + m : v[k] = IF k <= n THEN s[a][k] ELSE s[b][k - n]
    BY <1>2
  <2> HIDE DEF n, m, v
  <2>3. n + i \in 1 .. n + m /\ ~ (n + i <= n) /\ (n + i) - n = i
    BY <2>1
  <2>4. v[n + i] = s[b][i]
    BY <2>2, <2>3
  <2> QED  BY <2>4 DEF n, v
<1> QED
  BY <1>2, <1>3, <1>4, <1>5, <1>6 DEF JoinAs

(* Joining two rows neither loses a node nor repeats one.                    *)
LEMMA DataJoin ==
  ASSUME NEW s, NEW fr, Data(s, fr), NEW a \in Places, NEW b \in Places, a # b
  PROVE  Data(Join(s, a, b), fr)
<1>0. JoinAs(s, a, b)
  BY JoinIs
<1> DEFINE w == Join(s, a, b)
           n == Len(s[a])
           m == Len(s[b])
           Org(c, i, d, j) ==
             \/ c = a /\ d = a /\ j = i
             \/ c = a /\ d = b /\ i = n + j
             \/ c \notin {a, b} /\ d = c /\ j = i
<1>1. /\ w \in [Places -> Seq(Nodes)]
      /\ w[a] = s[a] \o s[b] /\ w[b] = << >>
      /\ \A c \in Places \ {a, b} : w[c] = s[c]
      /\ Len(w[a]) = n + m
      /\ \A i \in Spots(s, a) : w[a][i] = s[a][i]
      /\ \A i \in Spots(s, b) : w[a][n + i] = s[b][i]
  BY <1>0 DEF JoinAs
<1>2. n \in Nat /\ m \in Nat /\ Spots(s, a) = 1 .. n /\ Spots(s, b) = 1 .. m
  BY DataFacts DEF Spots
<1>3. Spots(w, a) = 1 .. n + m /\ Spots(w, b) = {}
  <2>1. Len(w[b]) = 0
    BY <1>1, EmptySeq
  <2> HIDE DEF w
  <2> QED  BY <1>1, <2>1 DEF Spots
<1>4. \A c \in Places \ {a, b} : Spots(w, c) = Spots(s, c)
  BY <1>1 DEF Spots
<1> HIDE DEF w, n, m
<1>5. ASSUME NEW c \in Places, NEW i \in Spots(w, c)
      PROVE  \E d \in Places : \E j \in Spots(s, d) : Org(c, i, d, j) /\ w[c][i] = s[d][j]
  <2>1. CASE c = a
    <3>1. i \in 1 .. n + m
      BY <1>3, <2>1
    <3>2. CASE i <= n
      <4>1. i \in Spots(s, a)
        BY <1>2, <3>1, <3>2
      <4>2. w[a][i] = s[a][i]
        BY <1>1, <4>1
      <4> QED  BY <2>1, <4>1, <4>2
    <3>3. CASE ~ (i <= n)
      <4>1. i - n \in Spots(s, b) /\ i = n + (i - n)
        BY <1>2, <3>1, <3>3
      <4>2. PICK j \in Spots(s, b) : i = n + j
        BY <4>1
      <4>3. w[a][i] = s[b][j]
        BY <1>1, <4>2
      <4>4. Org(c, i, b, j)
        BY <2>1, <4>2
      <4> QED  BY <2>1, <4>2, <4>3, <4>4
    <3> QED  BY <3>2, <3>3
  <2>2. CASE c # a
    <3>1. c # b
      BY <1>3
    <3>2. i \in Spots(s, c) /\ w[c][i] = s[c][i]
      BY <1>1, <1>4, <2>2, <3>1
    <3> QED  BY <2>2, <3>1, <3>2
  <2> QED  BY <2>1, <2>2
<1>6. ASSUME NEW d \in Places, NEW j \in Spots(s, d)
      PROVE  \E c \in Places : \E i \in Spots(w, c) : w[c][i] = s[d][j]
  <2>1. CASE d = a
    <3>1. j \in Spots(s, a) /\ j \in 1 .. n
      BY <1>2, <2>1
    <3>2. j \in 1 .. n + m
      BY <1>2, <3>1
    <3>3. j \in Spots(w, a) /\ w[a][j] = s[a][j]
      BY <1>1, <1>3, <3>1, <3>2
    <3> QED  BY <2>1, <3>3
  <2>2. CASE d = b
    <3>1. j \in Spots(s, b) /\ j \in 1 .. m
      BY <1>2, <2>2
    <3>2. n + j \in Spots(w, a)
      BY <1>2, <1>3, <3>1
    <3>3. w[a][n + j] = s[b][j]
      BY <1>1, <3>1
    <3> QED  BY <2>2, <3>2, <3>3
  <2>3. CASE d \notin {a, b}
    BY <1>1, <1>4, <2>3
  <2> QED  BY <2>1, <2>2, <2>3
<1>7. Apart(w)
  <2> SUFFICES ASSUME NEW c \in Places, NEW c2 \in Places,
                      NEW i \in Spots(w, c), NEW i2 \in Spots(w, c2), w[c][i] = w[c2][i2]
               PROVE  c = c2 /\ i = i2
    BY DEF Apart
  <2>1. PICK d \in Places : \E j \in Spots(s, d) : Org(c, i, d, j) /\ w[c][i] = s[d][j]
    BY <1>5
  <2>2. PICK j \in Spots(s, d) : Org(c, i, d, j) /\ w[c][i] = s[d][j]
    BY <2>1
  <2>3. PICK d2 \in Places : \E j2 \in Spots(s, d2) : Org(c2, i2, d2, j2) /\ w[c2][i2] = s[d2][j2]
    BY <1>5
  <2>4. PICK j2 \in Spots(s, d2) : Org(c2, i2, d2, j2) /\ w[c2][i2] = s[d2][j2]
    BY <2>3
  <2>5. Apart(s) /\ s[d][j] = s[d2][j2]
    BY <2>2, <2>4 DEF Data
  <2>6. d = d2 /\ j = j2
    BY <2>5 DEF Apart
  <2> QED  BY <2>2, <2>4, <2>6
<1>8. ASSUME NEW x \in Nodes
      PROVE  x \in fr <=> \A c \in Places : \A i \in Spots(w, c) : w[c][i] # x
  <2>1. x \in fr <=> \A c \in Places : \A i \in Spots(s, c) : s[c][i] # x
    BY DEF Data
  <2>2. ASSUME NEW c \in Places, NEW i \in Spots(w, c), w[c][i] = x
        PROVE  \E d \in Places : \E j \in Spots(s, d) : s[d][j] = x
    BY <1>5, <2>2
  <2>3. ASSUME NEW c \in Places, NEW i \in Spots(s, c), s[c][i] = x
        PROVE  \E d \in Places : \E j \in Spots(w, d) : w[d][j] = x
    BY <1>6, <2>3
  <2> QED  BY <2>1, <2>2, <2>3
<1> QED
  BY <1>1, <1>7, <1>8 DEF Data, w

(* The first node leaves.                                                    *)
LEMMA DataTail ==
  ASSUME NEW s, NEW fr, Data(s, fr), NEW a \in Places, s[a] # << >>
  PROVE  /\ Data(Put(s, a, Tail(s[a])), fr \cup {s[a][1]})
         /\ Len(Tail(s[a])) = Len(s[a]) - 1
         /\ \A i \in 1 .. Len(s[a]) - 1 : Tail(s[a])[i] = s[a][i + 1]
<1> DEFINE w == Put(s, a, Tail(s[a]))
           n == Len(s[a])
           Org(c, i, d, j) == c = d /\ (c = a => j = i + 1) /\ (c # a => j = i)
<1>1. s[a] \in Seq(Nodes) /\ n \in Nat \ {0} /\ 1 \in Spots(s, a) /\ Spots(s, a) = 1 .. n
  BY DataFacts DEF Spots
<1>2. /\ Tail(s[a]) \in Seq(Nodes) /\ Len(Tail(s[a])) = n - 1
      /\ \A i \in 1 .. n - 1 : Tail(s[a])[i] = s[a][i + 1]
  BY <1>1, HeadTailProperties
<1>3. /\ w[a] = Tail(s[a]) /\ \A c \in Places \ {a} : w[c] = s[c]
      /\ w \in [Places -> Seq(Nodes)]
  BY <1>2 DEF Put, Data
<1>4. Spots(w, a) = 1 .. n - 1 /\ \A c \in Places \ {a} : Spots(w, c) = Spots(s, c)
  <2> HIDE DEF w
  <2> QED  BY <1>2, <1>3 DEF Spots
<1>5. \A i \in 1 .. n - 1 : w[a][i] = s[a][i + 1]
  BY <1>2, <1>3
<1> HIDE DEF w, n
<1>6. ASSUME NEW c \in Places, NEW i \in Spots(w, c)
      PROVE  \E j \in Spots(s, c) : Org(c, i, c, j) /\ w[c][i] = s[c][j]
  <2>1. CASE c = a
    <3>1. i \in 1 .. n - 1
      BY <1>4, <2>1
    <3>2. PICK j \in Spots(s, a) : j = i + 1
      BY <1>1, <3>1
    <3>3. w[a][i] = s[a][j]
      BY <1>5, <3>1, <3>2
    <3> QED  BY <2>1, <3>2, <3>3
  <2>2. CASE c # a
    BY <1>3, <1>4, <2>2
  <2> QED  BY <2>1, <2>2
<1>7. ASSUME NEW d \in Places, NEW j \in Spots(s, d), ~ (d = a /\ j = 1)
      PROVE  \E i \in Spots(w, d) : w[d][i] = s[d][j]
  <2>1. CASE d = a
    <3>1. PICK i \in 1 .. n - 1 : j = i + 1
      <4>1. j - 1 \in 1 .. n - 1 /\ j = (j - 1) + 1
        BY <1>1, <1>7, <2>1
      <4> QED  BY <4>1
    <3>2. w[a][i] = s[a][j]
      BY <1>5, <3>1
    <3> QED  BY <1>4, <2>1, <3>1, <3>2
  <2>2. CASE d # a
    BY <1>3, <1>4, <2>2
  <2> QED  BY <2>1, <2>2
<1>8. Apart(w)
  <2> SUFFICES ASSUME NEW c \in Places, NEW c2 \in Places,
                      NEW i \in Spots(w, c), NEW i2 \in Spots(w, c2), w[c][i] = w[c2][i2]
               PROVE  c = c2 /\ i = i2
    BY DEF Apart
  <2>1. PICK j \in Spots(s, c) : Org(c, i, c, j) /\ w[c][i] = s[c][j]
    BY <1>6
  <2>2. PICK j2 \in Spots(s, c2) : Org(c2, i2, c2, j2) /\ w[c2][i2] = s[c2][j2]
    BY <1>6
  <2>3. Apart(s) /\ s[c][j] = s[c2][j2]
    BY <2>1, <2>2 DEF Data
  <2>5. c = c2 /\ j = j2
    BY <2>3 DEF Apart
  <2>4. i \in Nat /\ i2 \in Nat
    BY DEF Spots
  <2> QED  BY <2>1, <2>2, <2>4, <2>5
<1>9. ASSUME NEW x \in Nodes
      PROVE  x \in fr \cup {s[a][1]} <=> \A c \in Places : \A i \in Spots(w, c) : w[c][i] # x
  <2>1. x \in fr <=> \A c \in Places : \A i \in Spots(s, c) : s[c][i] # x
    BY DEF Data
  <2>2. ASSUME NEW c \in Places, NEW i \in Spots(w, c), w[c][i] = x
        PROVE  x \notin fr \cup {s[a][1]}
    <3>1. PICK j \in Spots(s, c) : Org(c, i, c, j) /\ w[c][i] = s[c][j]
      BY <1>6
    <3>2. x \notin fr
      BY <2>1, <2>2, <3>1
    <3>3. ASSUME x = s[a][1] PROVE FALSE
      <4>1. s[c][j] = s[a][1]
        BY <2>2, <3>1, <3>3
      <4>2. c = a /\ j = 1
        BY <1>1, <4>1 DEF Data, Apart
      <4>3. i + 1 = 1 /\ i \in 1 .. n - 1
        BY <1>4, <3>1, <4>2
      <4> QED  BY <1>1, <4>3
    <3> QED  BY <3>2, <3>3
  <2>3. ASSUME x \notin fr \cup {s[a][1]}
        PROVE  \E d \in Places : \E j \in Spots(w, d) : w[d][j] = x
    <3>1. PICK d \in Places : \E j \in Spots(s, d) : s[d][j] = x
      BY <2>1, <2>3
    <3>2. PICK j \in Spots(s, d) : s[d][j] = x
      BY <3>1
    <3>3. ~ (d = a /\ j = 1)
      BY <2>3, <3>2
    <3>4. \E i \in Spots(w, d) : w[d][i] = s[d][j]
      BY <1>7, <3>3
    <3> QED  BY <3>2, <3>4
  <2> QED  BY <2>2, <2>3
<1> QED
  BY <1>2, <1>3, <1>8, <1>9 DEF Data, w, n

-----------------------------------------------------------------------------
(* The rows that the pointers make                                           *)

(* y comes after x, in the chain or for the call that is going to link it.   *)
Linked(x, y) ==
    y # Null /\ \/ next[x] = y
                \/ \E t \in Threads : pc[t] # "xchg" /\ EndOf(t) = x /\ Brings(t) = y

(* The chains of s are what the pointers make of the queues and of the calls *)
(* that are about to append.                                                 *)
RowOf(s, c) == \A i \in 1 .. Len(s[c]) - 1 : Linked(s[c][i], s[c][i + 1])
InQueue(s, q) ==
    IF s[QPlace(q)] = << >> THEN tail[q] = q
    ELSE Linked(q, s[QPlace(q)][1]) /\ tail[q] = s[QPlace(q)][Len(s[QPlace(q)])]
Handed(s, t) ==
    IF s[HPlace(t)] = << >> THEN pc[t] # "xchg"
    ELSE /\ pc[t] = "xchg"
         /\ Brings(t) = s[HPlace(t)][1] /\ EndOf(t) = s[HPlace(t)][Len(s[HPlace(t)])]
Layout(s) ==
    /\ Data(s, free)
    /\ \A c \in Places : RowOf(s, c)
    /\ \A q \in Queues : InQueue(s, q)
    /\ \A t \in Threads : Handed(s, t)

(* A link that the step of t leaves alone.                                   *)
LEMMA LinkedKept ==
  ASSUME NEW t \in Threads, Others(t), NEW x, NEW y, Linked(x, y),
         next[x] = y => Linked(x, y)',
         pc[t] # "xchg" /\ EndOf(t) = x /\ Brings(t) = y => Linked(x, y)'
  PROVE  Linked(x, y)'
<1>1. CASE next[x] = y
  BY <1>1
<1>2. CASE next[x] # y
  <2>1. PICK u \in Threads : pc[u] # "xchg" /\ EndOf(u) = x /\ Brings(u) = y
    BY <1>2 DEF Linked
  <2>2. CASE u = t
    BY <2>1, <2>2
  <2>3. CASE u # t
    <3>1. pc'[u] # "xchg" /\ EndOf(u)' = x /\ Brings(u)' = y
      BY <2>1, <2>3 DEF Others
    <3>2. y # Null
      BY DEF Linked
    <3> QED  BY <3>1, <3>2 DEF Linked
  <2> QED  BY <2>2, <2>3
<1> QED
  BY <1>1, <1>2

(* At most one node comes after another: this is where IInv is needed.       *)
LEMMA LinkedOnce ==
  ASSUME IInv, NEW x \in Ptrs, NEW y, NEW z, Linked(x, y), Linked(x, z)
  PROVE  y = z
<1>1. y # Null /\ z # Null
  BY DEF Linked
<1>2. \A t \in Threads : EndOf(t) = x => next[x] = Null
  BY NullIsNone DEF IInv, Ends, IsEnd
<1>3. CASE next[x] # Null
  BY <1>2, <1>3 DEF Linked
<1>4. CASE next[x] = Null
  <2>1. PICK t \in Threads : EndOf(t) = x /\ Brings(t) = y
    BY <1>1, <1>4 DEF Linked
  <2>2. PICK u \in Threads : EndOf(u) = x /\ Brings(u) = z
    BY <1>1, <1>4 DEF Linked
  <2>3. t = u
    BY <2>1, <2>2, NullIsNone DEF IInv, Ends
  <2> QED  BY <2>1, <2>2, <2>3
<1> QED
  BY <1>3, <1>4

(* An end of a queue has nothing after it.                                   *)
LEMMA TailIsLast ==
  ASSUME IInv, NEW q \in Queues, NEW y
  PROVE  ~ Linked(tail[q], y)
BY DEF IInv, Ends, IsEnd, Linked

(* What the layout says of a place.                                          *)
LEMMA LayoutFacts ==
  ASSUME NEW s, Layout(s), NEW c \in Places
  PROVE  /\ Data(s, free)
         /\ s[c] \in Seq(Nodes) /\ Len(s[c]) \in Nat
         /\ s[c] # << >> <=> Len(s[c]) \in Nat \ {0}
         /\ s[c] = << >> <=> Len(s[c]) = 0
         /\ \A i \in 1 .. Len(s[c]) : s[c][i] \in Nodes /\ s[c][i] \notin free
<1>1. Data(s, free)
  BY DEF Layout
<1>2. \A i \in Spots(s, c) : s[c][i] \in Nodes
  BY <1>1, DataFacts
<1>3. \A i \in Spots(s, c) : s[c][i] \notin free
  BY <1>1, <1>2 DEF Data
<1> QED
  BY <1>1, <1>2, <1>3, DataFacts DEF Spots

(* The places that a step does not touch.                                    *)
LEMMA OthersHanded ==
  ASSUME NEW s, Layout(s), NEW t \in Threads, Others(t), NEW w,
         NEW u \in Threads \ {t}, w[HPlace(u)] = s[HPlace(u)]
  PROVE  Handed(w, u)'
<1>1. Handed(s, u)
  BY DEF Layout
<1>2. pc'[u] = pc[u] /\ Brings(u)' = Brings(u) /\ EndOf(u)' = EndOf(u)
  BY DEF Others
<1> QED
  BY <1>1, <1>2 DEF Handed

-----------------------------------------------------------------------------
(* What the appending steps make of the rows                                 *)

(* The definition of Put, spelled out.                                       *)
LEMMA PutIs ==
  ASSUME NEW s, NEW a \in Places, NEW v
  PROVE  Put(s, a, v)[a] = v /\ \A c \in Places \ {a} : Put(s, a, v)[c] = s[c]
BY DEF Put

(* wfcq_enqueue has the new node at hand.                                    *)
LEMMA EnqueueLayout ==
  ASSUME IInv, NEW t \in Threads, NEW x \in free, NEW q \in Queues, Others(t),
         Enqueued(t, x, q), NEW s, Layout(s)
  PROVE  s[HPlace(t)] = << >> /\ Layout(Put(s, HPlace(t), <<x>>))'
<1> DEFINE a == HPlace(t)
           w == Put(s, a, <<x>>)
<1>1. x \in Nodes /\ a \in Places
  BY PlacesAre DEF IInv, Types
<1>2. s[a] = << >>
  BY DEF Layout, Handed, Enqueued
<1>3. w[a] = <<x>> /\ \A c \in Places \ {a} : w[c] = s[c]
  BY <1>1 DEF Put
<1>4. Data(w, free)'
  <2>1. Data(s, free)
    BY DEF Layout
  <2>2. Data(w, free \ {x})
    BY <1>1, <1>2, <2>1, DataPut
  <2>3. free' = free \ {x}
    BY DEF Enqueued
  <2> HIDE DEF w
  <2> QED  BY <2>2, <2>3
<1> HIDE DEF w
<1>5. Len(w[a]) = 1 /\ w[a][1] = x
  BY <1>3
<1>6. ASSUME NEW y \in Ptrs, NEW z, Linked(y, z), y # x PROVE Linked(y, z)'
  <2>1. next'[y] = next[y] /\ pc[t] = "idle"
    BY <1>6 DEF Enqueued
  <2>2. EndOf(t) = Null /\ Brings(t) = Null
    BY <2>1 DEF EndOf, Brings, IInv, Calls, Locals, OpAt
  <2>3. z # Null
    BY <1>6 DEF Linked
  <2>4. next[y] = z => Linked(y, z)'
    BY <2>1, <2>3 DEF Linked
  <2> QED  BY <1>6, <2>2, <2>3, <2>4, LinkedKept
<1>7. ASSUME NEW c \in Places PROVE RowOf(w, c)'
  <2>1. CASE c = a
    BY <1>5, <2>1 DEF RowOf
  <2>2. CASE c # a
    <3>1. RowOf(s, c) /\ w[c] = s[c]
      BY <1>3, <2>2 DEF Layout
    <3>2. \A i \in 1 .. Len(s[c]) - 1 : s[c][i] \in Ptrs /\ s[c][i] # x
      BY LayoutFacts DEF Ptrs
    <3> QED  BY <1>6, <3>1, <3>2 DEF RowOf
  <2> QED  BY <2>1, <2>2
<1>8. ASSUME NEW r \in Queues PROVE InQueue(w, r)'
  <2>1. InQueue(s, r) /\ w[QPlace(r)] = s[QPlace(r)] /\ tail' = tail
    BY <1>3, PlacesAre DEF Layout, Enqueued
  <2>2. r \in Ptrs /\ r # x
    BY <1>1, NullIsNone DEF Ptrs
  <2> QED  BY <1>6, <2>1, <2>2 DEF InQueue
<1>9. ASSUME NEW u \in Threads PROVE Handed(w, u)'
  <2>1. CASE u = t
    <3>1. w[a] # << >>
      BY <1>3
    <3>2. pc'[t] = "xchg" /\ Brings(t)' = x /\ EndOf(t)' = x
      BY DEF Enqueued
    <3>3. Handed(w, t)'
      BY <1>5, <3>1, <3>2 DEF Handed
    <3> QED  BY <2>1, <3>3
  <2>2. CASE u # t
    <3>1. w[HPlace(u)] = s[HPlace(u)]
      BY <1>3, <2>2, PlacesAre
    <3> QED  BY <2>2, <3>1, OthersHanded
  <2> QED  BY <2>1, <2>2
<1>10. Layout(w)'
  BY <1>4, <1>7, <1>8, <1>9 DEF Layout
<1> QED
  BY <1>2, <1>10 DEF w

(* What a call has at hand goes to the end of the queue.                     *)
LEMMA AppendLayout ==
  ASSUME IInv, NEW t \in Threads, NEW q \in Queues, Others(t), Exchanged(t, q),
         NEW s, Layout(s)
  PROVE  s[HPlace(t)] # << >> /\ Layout(Join(s, QPlace(q), HPlace(t)))'
<1> DEFINE a == QPlace(q)
           b == HPlace(t)
           w == Join(s, a, b)
           n == Len(s[a])
           m == Len(s[b])
<1>1. a \in Places /\ b \in Places /\ a # b
  BY PlacesAre
<1>2. s[b] # << >> /\ Brings(t) = s[b][1] /\ EndOf(t) = s[b][m]
  BY DEF Layout, Handed, Exchanged
<1>3. Data(s, free) /\ n \in Nat /\ m \in Nat \ {0} /\ (s[a] = << >> <=> n = 0)
  BY <1>1, <1>2, LayoutFacts
<1>4. JoinAs(s, a, b)
  BY <1>1, <1>3, JoinIs
<1>5. /\ w[b] = << >> /\ \A c \in Places \ {a, b} : w[c] = s[c]
      /\ Len(w[a]) = n + m
      /\ \A i \in 1 .. n : w[a][i] = s[a][i]
      /\ \A i \in 1 .. m : w[a][n + i] = s[b][i]
  BY <1>4 DEF JoinAs, Spots
<1>6. Data(w, free)'
  <2>1. Data(w, free) /\ free' = free
    BY <1>1, <1>3, DataJoin DEF Exchanged
  <2> HIDE DEF w
  <2> QED  BY <2>1
<1>7. w[a] # << >>
  <2>1. w[a] \in Seq(Nodes) /\ Len(w[a]) # 0
    <3>1. w \in [Places -> Seq(Nodes)]
      BY <1>4 DEF JoinAs
    <3> HIDE DEF w, n, m
    <3> QED  BY <1>1, <1>3, <1>5, <3>1
  <2> HIDE DEF w
  <2> QED  BY <2>1, EmptySeq
<1> HIDE DEF w, n, m
<1>8. ASSUME NEW x, NEW y, Linked(x, y) PROVE Linked(x, y)'
  <2>1. y # Null /\ next' = next /\ pc[t] = "xchg"
    BY <1>8 DEF Linked, Exchanged
  <2>2. next[x] = y => Linked(x, y)'
    BY <2>1 DEF Linked
  <2> QED  BY <1>8, <2>1, <2>2, LinkedKept
<1>0. PICK o : o = tail[q]
  OBVIOUS
<1>9. Linked(o, s[b][1])'
  <2>1. pc'[t] = "link" /\ EndOf(t)' = o /\ Brings(t)' = s[b][1]
    BY <1>0, <1>2 DEF Exchanged
  <2>2. s[b][1] # Null
    <3>1. s[b][1] \in Nodes
      BY <1>1, <1>3, LayoutFacts DEF m
    <3> QED  BY <3>1, NullIsNone DEF Ptrs
  <2>3. \A x, y : y # Null /\ EndOf(t)' = x /\ Brings(t)' = y => Linked(x, y)'
    BY <2>1 DEF Linked
  <2> QED  BY <2>1, <2>2, <2>3
<1>10. n # 0 => o = s[a][n] /\ w[a][1] = s[a][1] /\ Linked(q, s[a][1])
  <2>1. n # 0 => 1 \in 1 .. n
    BY <1>3
  <2> QED  BY <1>0, <1>3, <1>5, <2>1 DEF Layout, InQueue, n
<1>11. n = 0 => o = q /\ w[a][1] = s[b][1]
  <2>1. n = 0 => o = q
    BY <1>0, <1>3 DEF Layout, InQueue
  <2>2. 1 \in 1 .. m
    BY <1>3
  <2>3. w[a][n + 1] = s[b][1]
    BY <1>5, <2>2
  <2>4. n = 0 => n + 1 = 1
    OBVIOUS
  <2> QED  BY <2>1, <2>3, <2>4
<1>12. ASSUME NEW c \in Places PROVE RowOf(w, c)'
  <2>1. CASE c \notin {a, b}
    <3>1. RowOf(s, c) /\ w[c] = s[c]
      BY <1>5, <2>1 DEF Layout
    <3> QED  BY <1>8, <3>1 DEF RowOf
  <2>2. CASE c = b
    <3>1. Len(w[b]) = 0
      BY <1>5, EmptySeq
    <3> QED  BY <2>2, <3>1 DEF RowOf
  <2>3. CASE c = a
    <3> SUFFICES ASSUME NEW i \in 1 .. (n + m) - 1 PROVE Linked(w[a][i], w[a][i + 1])'
      BY <1>5, <2>3 DEF RowOf
    <3>1. i \in Nat \ {0} /\ i + 1 <= n + m
      BY <1>3
    <3>2. CASE i < n
      <4>1. i \in 1 .. n - 1 /\ i \in 1 .. n /\ i + 1 \in 1 .. n
        BY <1>3, <3>1, <3>2
      <4>2. w[a][i] = s[a][i] /\ w[a][i + 1] = s[a][i + 1]
        BY <1>5, <4>1
      <4>3. Linked(s[a][i], s[a][i + 1])
        <5>1. RowOf(s, a)
          BY <1>1 DEF Layout
        <5> QED  BY <4>1, <5>1 DEF RowOf, n
      <4> QED  BY <1>8, <4>2, <4>3
    <3>3. CASE i = n
      <4>1. n # 0 /\ n \in 1 .. n /\ 1 \in 1 .. m
        BY <1>3, <3>1, <3>3
      <4>2. w[a][i] = o /\ w[a][i + 1] = s[b][1]
        BY <1>5, <1>10, <3>3, <4>1
      <4> QED  BY <1>9, <4>2
    <3>4. CASE i > n
      <4>1. PICK j \in 1 .. m - 1 : i = n + j
        <5>1. i - n \in 1 .. m - 1 /\ i = n + (i - n)
          BY <1>3, <3>1, <3>4
        <5> QED  BY <5>1
      <4>2. j \in 1 .. m /\ j + 1 \in 1 .. m /\ i + 1 = n + (j + 1)
        BY <1>3, <4>1
      <4>3. w[a][i] = s[b][j] /\ w[a][i + 1] = s[b][j + 1]
        BY <1>5, <4>1, <4>2
      <4>4. Linked(s[b][j], s[b][j + 1])
        <5>1. RowOf(s, b)
          BY <1>1 DEF Layout
        <5> QED  BY <4>1, <5>1 DEF RowOf, m
      <4> QED  BY <1>8, <4>3, <4>4
    <3> QED  BY <1>3, <3>1, <3>2, <3>3, <3>4
  <2> QED  BY <2>1, <2>2, <2>3
<1>13. ASSUME NEW r \in Queues PROVE InQueue(w, r)'
  <2>1. CASE r # q
    <3>1. InQueue(s, r) /\ w[QPlace(r)] = s[QPlace(r)] /\ tail'[r] = tail[r]
      BY <1>5, <2>1, PlacesAre DEF Layout, Exchanged
    <3> QED  BY <1>8, <3>1 DEF InQueue
  <2>2. CASE r = q
    <3>1. tail'[q] = w[a][n + m]
      <4>1. tail'[q] = s[b][m] /\ m \in 1 .. m
        BY <1>2, <1>3 DEF Exchanged, m
      <4> QED  BY <1>5, <4>1
    <3>2. Linked(q, w[a][1])'
      BY <1>8, <1>9, <1>10, <1>11
    <3> QED  BY <1>5, <1>7, <2>2, <3>1, <3>2 DEF InQueue
  <2> QED  BY <2>1, <2>2
<1>14. ASSUME NEW u \in Threads PROVE Handed(w, u)'
  <2>1. CASE u = t
    <3>1. w[HPlace(t)] = << >> /\ pc'[t] = "link"
      BY <1>5 DEF Exchanged
    <3> QED  BY <2>1, <3>1 DEF Handed
  <2>2. CASE u # t
    <3>1. w[HPlace(u)] = s[HPlace(u)]
      BY <1>5, <2>2, PlacesAre
    <3> QED  BY <2>2, <3>1, OthersHanded
  <2> QED  BY <2>1, <2>2
<1>15. Layout(w)'
  BY <1>6, <1>12, <1>13, <1>14 DEF Layout
<1> QED
  BY <1>2, <1>15 DEF w

-----------------------------------------------------------------------------
(* What the other steps make of the rows                                     *)

(* A step that keeps the queues as they are and the nodes linked.            *)
LEMMA SameLayout ==
  ASSUME NEW t \in Threads, Others(t), NEW s, Layout(s), free' = free, tail' = tail,
         pc[t] # "xchg", pc'[t] # "xchg",
         \A x \in Ptrs : \A y : Linked(x, y) => Linked(x, y)'
  PROVE  Layout(s)'
<1>1. Data(s, free)'
  BY DEF Layout
<1>2. ASSUME NEW c \in Places PROVE RowOf(s, c)'
  <2>1. RowOf(s, c)
    BY DEF Layout
  <2>2. \A i \in 1 .. Len(s[c]) - 1 : s[c][i] \in Ptrs
    BY LayoutFacts DEF Ptrs
  <2> QED  BY <2>1, <2>2 DEF RowOf
<1>3. ASSUME NEW q \in Queues PROVE InQueue(s, q)'
  <2>1. InQueue(s, q) /\ q \in Ptrs
    BY DEF Layout, Ptrs
  <2> QED  BY <2>1 DEF InQueue
<1>4. ASSUME NEW u \in Threads PROVE Handed(s, u)'
  <2>1. CASE u = t
    <3>1. Handed(s, t)
      BY DEF Layout
    <3> QED  BY <2>1, <3>1 DEF Handed
  <2>2. CASE u # t
    BY <2>2, OthersHanded
  <2> QED  BY <2>1, <2>2
<1> QED
  BY <1>1, <1>2, <1>3, <1>4 DEF Layout

(* The steps that only look.                                                 *)
LEMMA KeptLayout ==
  ASSUME NEW t \in Threads, Kept(t), NEW s, Layout(s)
  PROVE  Layout(s)'
<1>1. ASSUME NEW x \in Ptrs, NEW y, Linked(x, y) PROVE Linked(x, y)'
  <2>1. y # Null
    BY <1>1 DEF Linked
  <2>2. next[x] = y => Linked(x, y)'
    BY <2>1 DEF Linked, Kept
  <2>3. EndOf(t) = x /\ Brings(t) = y => Linked(x, y)'
    BY <2>1 DEF Linked, Kept
  <2>4. Others(t)
    BY DEF Kept
  <2> QED  BY <1>1, <2>2, <2>3, <2>4, LinkedKept
<1> QED
  BY <1>1, SameLayout DEF Kept

(* A step that changes nothing.                                              *)
LEMMA StutterLayout ==
  ASSUME NEW s, Layout(s), UNCHANGED vars
  PROVE  Layout(s)'
<1>1. \A t \in Threads : Brings(t)' = Brings(t) /\ EndOf(t)' = EndOf(t)
  BY DEF vars, Brings, EndOf, Detached
<1>2. \A x, y : Linked(x, y) => Linked(x, y)'
  BY <1>1 DEF vars, Linked
<1>3. Data(s, free)'
  BY DEF Layout, vars
<1>4. \A c \in Places : RowOf(s, c)'
  BY <1>2 DEF Layout, RowOf
<1>5. \A q \in Queues : InQueue(s, q)'
  BY <1>2 DEF Layout, InQueue, vars
<1>6. ASSUME NEW t \in Threads PROVE Handed(s, t)'
  <2>1. Handed(s, t)
    BY DEF Layout
  <2> QED  BY <1>1, <2>1 DEF Handed, vars
<1> QED
  BY <1>3, <1>4, <1>5, <1>6 DEF Layout

(* The link of an append: it was counted as a link since the exchange.       *)
LEMMA LinkLayout ==
  ASSUME IInv, NEW t \in Threads, Others(t), LinkSet(t), NEW s, Layout(s)
  PROVE  Layout(s)'
<1>1. free' = free /\ tail' = tail /\ pc[t] # "xchg" /\ pc'[t] # "xchg"
  BY DEF LinkSet
<1>2. ASSUME NEW x \in Ptrs, NEW y, Linked(x, y) PROVE Linked(x, y)'
  <2>1. y # Null
    BY <1>2 DEF Linked
  <2>2. next[x] = y => next'[x] = y
    BY <2>1 DEF LinkSet
  <2>3. EndOf(t) = x /\ Brings(t) = y => next'[x] = y
    BY DEF LinkSet
  <2>4. next'[x] = y => Linked(x, y)'
    BY <2>1 DEF Linked
  <2> QED  BY <1>2, <2>2, <2>3, <2>4, LinkedKept
<1> QED
  BY <1>1, <1>2, SameLayout

(* A dequeue that clears the head knows the first node itself.               *)
LEMMA ClearLayout ==
  ASSUME IInv, NEW t \in Threads, NEW q \in Queues, Others(t), Cleared(t, q), NEW s, Layout(s)
  PROVE  Layout(s)'
<1>1. free' = free /\ tail' = tail /\ pc[t] # "xchg" /\ pc'[t] # "xchg"
  BY DEF Cleared
<1>2. ASSUME NEW x \in Ptrs, NEW y, Linked(x, y) PROVE Linked(x, y)'
  <2>1. y # Null /\ x # Null
    BY <1>2, NullIsNone DEF Linked
  <2>2. next[x] = y => Linked(x, y)'
    <3>1. CASE x # q
      <4>1. next'[x] = next[x]
        BY <3>1 DEF Cleared
      <4> QED  BY <2>1, <4>1 DEF Linked
    <3>2. CASE x = q
      <4>1. next[x] = y => pc'[t] # "xchg" /\ EndOf(t)' = x /\ Brings(t)' = y
        BY <3>2 DEF Cleared
      <4> QED  BY <2>1, <4>1 DEF Linked
    <3> QED  BY <3>1, <3>2
  <2>3. EndOf(t) # x
    BY <2>1 DEF Cleared
  <2> QED  BY <1>2, <2>2, <2>3, LinkedKept
<1> QED
  BY <1>1, <1>2, SameLayout

(* A splice that clears the head knows the first node itself.                *)
LEMMA TakeLayout ==
  ASSUME IInv, NEW t \in Threads, NEW q \in Queues, Others(t), Taken(t, q), NEW s, Layout(s)
  PROVE  Layout(s)'
<1>1. free' = free /\ tail' = tail /\ pc[t] # "xchg" /\ pc'[t] # "xchg"
  BY DEF Taken
<1>2. ASSUME NEW x \in Ptrs, NEW y, Linked(x, y) PROVE Linked(x, y)'
  <2>1. y # Null /\ x # Null
    BY <1>2, NullIsNone DEF Linked
  <2>2. next[x] = y => Linked(x, y)'
    <3>1. CASE x # q
      <4>1. next'[x] = next[x]
        BY <3>1 DEF Taken
      <4> QED  BY <2>1, <4>1 DEF Linked
    <3>2. CASE x = q
      <4>1. next[x] = y => pc'[t] # "xchg" /\ EndOf(t)' = x /\ Brings(t)' = y
        BY <1>1, <2>1, <3>2 DEF Taken
      <4> QED  BY <2>1, <4>1 DEF Linked
    <3> QED  BY <3>1, <3>2
  <2>3. EndOf(t) # x
    BY <2>1 DEF Taken
  <2> QED  BY <1>2, <2>2, <2>3, LinkedKept
<1> QED
  BY <1>1, <1>2, SameLayout

(* When t has changed only what comes after the head of q, all other nodes   *)
(* are still linked.                                                         *)
LEMMA OthersRows ==
  ASSUME IInv, NEW t \in Threads, NEW q \in Queues, Others(t), NEW s, Layout(s), NEW w,
         \A x \in Ptrs \ {q} : \A y : Linked(x, y) => Linked(x, y)',
         \A r \in Queues \ {q} : tail'[r] = tail[r]
  PROVE  /\ \A c \in Places : w[c] = s[c] => RowOf(w, c)'
         /\ \A r \in Queues \ {q} : w[QPlace(r)] = s[QPlace(r)] => InQueue(w, r)'
<1>1. ASSUME NEW c \in Places, w[c] = s[c] PROVE RowOf(w, c)'
  <2>1. RowOf(s, c)
    BY DEF Layout
  <2>2. \A i \in 1 .. Len(s[c]) - 1 : s[c][i] \in Ptrs \ {q}
    BY LayoutFacts, NullIsNone DEF Ptrs
  <2> QED  BY <1>1, <2>1, <2>2 DEF RowOf
<1>2. ASSUME NEW r \in Queues \ {q}, w[QPlace(r)] = s[QPlace(r)] PROVE InQueue(w, r)'
  <2>1. InQueue(s, r) /\ r \in Ptrs \ {q}
    BY DEF Layout, Ptrs
  <2> QED  BY <1>2, <2>1 DEF InQueue
<1> QED
  BY <1>1, <1>2

(* The cmpxchg of a dequeue takes the only node.                             *)
LEMMA EmptyLayout ==
  ASSUME IInv, NEW t \in Threads, NEW q \in Queues, Others(t), Emptied(t, q), NEW s, Layout(s)
  PROVE  /\ s[QPlace(q)] = <<loc[t].node>>
         /\ Layout(Put(s, QPlace(q), << >>))'
<1>0. PICK x : x = loc[t].node
  OBVIOUS
<1> DEFINE a == QPlace(q)
           w == Put(s, a, << >>)
           n == Len(s[a])
<1>1. a \in Places /\ HPlace(t) \in Places /\ HPlace(t) # a /\ q \in Ptrs
  BY PlacesAre DEF Ptrs
<1>2. /\ x \in Nodes /\ x # Null /\ q # x /\ tail[q] = x /\ free' = free \cup {x}
      /\ EndOf(t) = q /\ Brings(t) = x /\ pc[t] = "cas" /\ pc'[t] = "idle" /\ next' = next
  BY <1>0, NullIsNone DEF Emptied, Ptrs
<1>3. /\ s[a] # << >> /\ Linked(q, s[a][1]) /\ tail[q] = s[a][n]
  BY <1>2 DEF Layout, InQueue
<1>4. Linked(q, x)
  BY <1>2 DEF Linked
<1>5. s[a][1] = x
  BY <1>1, <1>3, <1>4, LinkedOnce
<1>6. n = 1 /\ s[a] \in Seq(Nodes) /\ Data(s, free)
  <2>1. n \in Nat \ {0} /\ Data(s, free) /\ s[a] \in Seq(Nodes)
    BY <1>1, <1>3, LayoutFacts
  <2>2. 1 \in Spots(s, a) /\ n \in Spots(s, a) /\ Apart(s)
    BY <2>1 DEF Spots, Data
  <2>3. s[a][1] = s[a][n]
    BY <1>2, <1>3, <1>5
  <2>4. 1 = n
    BY <1>1, <2>2, <2>3 DEF Apart
  <2> QED  BY <2>1, <2>4
<1>7. s[a] = <<x>> /\ Tail(s[a]) = << >>
  <2>1. DOMAIN s[a] = 1 .. 1
    BY <1>6, LenProperties
  <2>2. s[a] = <<x>>
    <3>1. <<x>> \in Seq(Nodes) /\ Len(<<x>>) = 1 /\ <<x>>[1] = x
      BY <1>2
    <3>2. \A i \in 1 .. Len(s[a]) : s[a][i] = <<x>>[i]
      BY <1>5, <1>6, <3>1
    <3> QED  BY <1>6, <3>1, <3>2, SeqEqual
  <2>3. Tail(s[a]) \in Seq(Nodes) /\ Len(Tail(s[a])) = n - 1
    BY <1>3, <1>6, HeadTailProperties
  <2>4. Len(Tail(s[a])) = 0
    BY <1>6, <2>3
  <2> QED  BY <2>2, <2>3, <2>4, EmptySeq
<1>8. Data(w, free)'
  <2>1. Data(Put(s, a, Tail(s[a])), free \cup {s[a][1]})
    BY <1>1, <1>3, <1>6, DataTail
  <2>2. Data(w, free \cup {x})
    BY <1>5, <1>7, <2>1
  <2> HIDE DEF w
  <2> QED  BY <1>2, <2>2
<1>9. w[a] = << >> /\ \A c \in Places \ {a} : w[c] = s[c]
  BY <1>1 DEF Put
<1> HIDE DEF w
<1>10. ASSUME NEW y \in Ptrs \ {q}, NEW z, Linked(y, z) PROVE Linked(y, z)'
  <2>1. z # Null /\ next'[y] = next[y]
    BY <1>2, <1>10 DEF Linked
  <2>2. next[y] = z => Linked(y, z)'
    BY <2>1 DEF Linked
  <2>3. EndOf(t) # y
    BY <1>2
  <2> QED  BY <1>10, <2>2, <2>3, LinkedKept
<1>11. /\ \A c \in Places : w[c] = s[c] => RowOf(w, c)'
       /\ \A r \in Queues \ {q} : w[QPlace(r)] = s[QPlace(r)] => InQueue(w, r)'
  <2>1. \A r \in Queues \ {q} : tail'[r] = tail[r]
    BY DEF Emptied
  <2> QED  BY <1>10, <2>1, OthersRows
<1>12. RowOf(w, a)'
  <2>1. Len(w[a]) = 0
    BY <1>9, EmptySeq
  <2> QED  BY <2>1 DEF RowOf
<1>13. InQueue(w, q)'
  <2>1. tail'[q] = q
    BY DEF Emptied
  <2> QED  BY <1>9, <2>1 DEF InQueue
<1>14. \A r \in Queues : InQueue(w, r)'
  BY <1>9, <1>11, <1>13, PlacesAre
<1>15. \A c \in Places : RowOf(w, c)'
  BY <1>9, <1>11, <1>12
<1>16. ASSUME NEW u \in Threads PROVE Handed(w, u)'
  <2>1. w[HPlace(u)] = s[HPlace(u)]
    BY <1>9, PlacesAre
  <2>2. CASE u = t
    <3>1. Handed(s, t)
      BY DEF Layout
    <3> QED  BY <1>2, <2>1, <2>2, <3>1 DEF Handed
  <2>3. CASE u # t
    BY <2>1, <2>3, OthersHanded
  <2> QED  BY <2>2, <2>3
<1>17. Layout(w)'
  BY <1>8, <1>14, <1>15, <1>16 DEF Layout
<1> QED
  BY <1>0, <1>7, <1>17 DEF w

(* The move of the head takes the first of several nodes.                    *)
LEMMA MoveLayout ==
  ASSUME IInv, NEW t \in Threads, NEW q \in Queues, Others(t), Moved(t, q), NEW s, Layout(s)
  PROVE  /\ s[QPlace(q)] # << >> /\ s[QPlace(q)][1] = loc[t].node
         /\ Layout(Put(s, QPlace(q), Tail(s[QPlace(q)])))'
<1>0. PICK x, z : x = loc[t].node /\ z = loc[t].nxt
  OBVIOUS
<1> DEFINE a == QPlace(q)
           v == Tail(s[a])
           w == Put(s, a, v)
           n == Len(s[a])
<1>1. a \in Places /\ HPlace(t) \in Places /\ HPlace(t) # a /\ q \in Ptrs
  BY PlacesAre DEF Ptrs
<1>2. /\ x \in Nodes /\ x # Null /\ q # x /\ x \in Ptrs /\ z \in Nodes /\ z # Null /\ q # Null
      /\ free' = free \cup {x} /\ next[x] = z /\ next'[q] = z /\ tail' = tail
      /\ pc[t] = "move" /\ pc'[t] = "idle" /\ EndOf(t) \in {Null, q}
      /\ next[q] = x \/ (Brings(t) = x /\ EndOf(t) = q)
  BY <1>0, NullIsNone DEF Moved, Ptrs
<1>3. Linked(q, x) /\ Linked(x, z)
  BY <1>2 DEF Linked
<1>4. s[a] # << >> /\ Linked(q, s[a][1]) /\ tail[q] = s[a][n]
  <2>1. tail[q] # q
    BY <1>3, TailIsLast
  <2> QED  BY <2>1 DEF Layout, InQueue
<1>5. s[a][1] = x
  BY <1>1, <1>3, <1>4, LinkedOnce
<1>6. n \in Nat /\ n >= 2 /\ Data(s, free)
  <2>1. n \in Nat \ {0} /\ Data(s, free)
    BY <1>1, <1>4, LayoutFacts
  <2>2. tail[q] # x
    BY <1>3, TailIsLast
  <2>3. n # 1
    BY <1>4, <1>5, <2>2
  <2> HIDE DEF n
  <2> QED  BY <2>1, <2>3
<1>7. RowOf(s, a)
  BY <1>1 DEF Layout
<1>8. s[a][2] = z
  <2>1. 1 \in 1 .. n - 1 /\ 1 + 1 = 2
    BY <1>6
  <2>2. Linked(s[a][1], s[a][2])
    BY <1>7, <2>1 DEF RowOf
  <2> QED  BY <1>2, <1>3, <1>5, <2>2, LinkedOnce
<1>9. /\ Data(w, free \cup {s[a][1]}) /\ Len(v) = n - 1
      /\ \A i \in 1 .. n - 1 : v[i] = s[a][i + 1]
  BY <1>1, <1>4, <1>6, DataTail
<1>10. Data(w, free)'
  <2>1. Data(w, free \cup {x})
    BY <1>5, <1>9
  <2> HIDE DEF w
  <2> QED  BY <1>2, <2>1
<1>11. w[a] = v /\ \A c \in Places \ {a} : w[c] = s[c]
  BY <1>1 DEF Put
<1>12. v # << >> /\ v[1] = z /\ v[n - 1] = s[a][n]
  <2>1. Len(v) # 0
    <3> HIDE DEF v, n
    <3> QED  BY <1>6, <1>9
  <2>2. 1 \in 1 .. n - 1 /\ n - 1 \in 1 .. n - 1 /\ (n - 1) + 1 = n
    BY <1>6
  <2> HIDE DEF v, n
  <2> QED  BY <1>8, <1>9, <2>1, <2>2, EmptySeq
<1> HIDE DEF w, v, n
<1>13. ASSUME NEW y \in Ptrs \ {q}, NEW u, Linked(y, u) PROVE Linked(y, u)'
  <2>1. u # Null /\ next'[y] = next[y] /\ y # Null
    BY <1>13, NullIsNone DEF Linked, Moved
  <2>2. next[y] = u => Linked(y, u)'
    BY <2>1 DEF Linked
  <2>3. EndOf(t) # y
    BY <1>2, <2>1
  <2> QED  BY <1>13, <2>2, <2>3, LinkedKept
<1>14. /\ \A c \in Places : w[c] = s[c] => RowOf(w, c)'
       /\ \A r \in Queues \ {q} : w[QPlace(r)] = s[QPlace(r)] => InQueue(w, r)'
  BY <1>2, <1>13, OthersRows
<1>15. RowOf(w, a)'
  <2> SUFFICES ASSUME NEW i \in 1 .. (n - 1) - 1 PROVE Linked(v[i], v[i + 1])'
    BY <1>9, <1>11 DEF RowOf
  <2>1. i \in 1 .. n - 1 /\ i + 1 \in 1 .. n - 1 /\ i + 1 \in 1 .. n
    BY <1>6
  <2>2. v[i] = s[a][i + 1] /\ v[i + 1] = s[a][(i + 1) + 1]
    BY <1>9, <2>1
  <2>3. Linked(s[a][i + 1], s[a][(i + 1) + 1])
    BY <1>7, <2>1 DEF RowOf, n
  <2>4. s[a][i + 1] \in Ptrs \ {q}
    BY <1>1, <2>1, LayoutFacts, NullIsNone DEF Ptrs, n
  <2> QED  BY <1>13, <2>2, <2>3, <2>4
<1>16. InQueue(w, q)'
  <2>1. Linked(q, z)'
    BY <1>2 DEF Linked
  <2>2. tail'[q] = v[n - 1]
    BY <1>2, <1>4, <1>12 DEF n
  <2> QED  BY <1>9, <1>11, <1>12, <2>1, <2>2 DEF InQueue
<1>17. \A r \in Queues : InQueue(w, r)'
  BY <1>11, <1>14, <1>16, PlacesAre
<1>18. \A c \in Places : RowOf(w, c)'
  BY <1>11, <1>14, <1>15
<1>19. ASSUME NEW u \in Threads PROVE Handed(w, u)'
  <2>1. w[HPlace(u)] = s[HPlace(u)]
    BY <1>11, PlacesAre
  <2>2. CASE u = t
    <3>1. Handed(s, t)
      BY DEF Layout
    <3> QED  BY <1>2, <2>1, <2>2, <3>1 DEF Handed
  <2>3. CASE u # t
    BY <2>1, <2>3, OthersHanded
  <2> QED  BY <2>2, <2>3
<1>20. Layout(w)'
  BY <1>10, <1>17, <1>18, <1>19 DEF Layout
<1> QED
  BY <1>0, <1>4, <1>5, <1>20 DEF w, v

(* All the nodes of q come into the hand of the splice.                      *)
LEMMA SpliceLayout ==
  ASSUME IInv, NEW t \in Threads, NEW q \in Queues, Others(t), TailTaken(t, q), NEW s, Layout(s)
  PROVE  /\ s[QPlace(q)] # << >> /\ s[HPlace(t)] = << >>
         /\ Layout(Join(s, HPlace(t), QPlace(q)))'
<1>0. PICK f : f = Brings(t)
  OBVIOUS
<1> DEFINE a == QPlace(q)
           b == HPlace(t)
           w == Join(s, b, a)
           n == Len(s[a])
<1>1. a \in Places /\ b \in Places /\ b # a /\ q \in Ptrs
  BY PlacesAre DEF Ptrs
<1>2. /\ f # Null /\ EndOf(t) = q /\ pc[t] = "taketail" /\ pc'[t] = "xchg"
      /\ Brings(t)' = f /\ EndOf(t)' = tail[q] /\ tail[q] # q
      /\ next' = next /\ free' = free /\ tail'[q] = q
  <2>1. pc[t] = "taketail" /\ Brings(t) # Null
    BY DEF TailTaken, Brings, IInv, Calls, Locals
  <2> QED  BY <1>0, <2>1 DEF TailTaken
<1>3. s[a] # << >> /\ Linked(q, s[a][1]) /\ tail[q] = s[a][n]
  BY <1>2 DEF Layout, InQueue
<1>4. s[a][1] = f
  <2>1. Linked(q, f)
    BY <1>0, <1>2 DEF Linked
  <2> QED  BY <1>1, <1>3, <2>1, LinkedOnce
<1>5. s[b] = << >> /\ Data(s, free) /\ s[a] \in Seq(Nodes)
  BY <1>1, <1>2, LayoutFacts DEF Layout, Handed
<1>6. JoinAs(s, b, a)
  BY <1>1, <1>5, JoinIs
<1>7. w[a] = << >> /\ w[b] = s[a] /\ \A c \in Places \ {a, b} : w[c] = s[c]
  <2>1. << >> \o s[a] = s[a]
    BY <1>5, ConcatEmptySeq
  <2> QED  BY <1>5, <1>6, <2>1 DEF JoinAs
<1>8. Data(w, free)'
  <2>1. Data(w, free)
    BY <1>1, <1>5, DataJoin
  <2> HIDE DEF w
  <2> QED  BY <1>2, <2>1
<1> HIDE DEF w
<1>9. ASSUME NEW y \in Ptrs \ {q}, NEW u, Linked(y, u) PROVE Linked(y, u)'
  <2>1. u # Null /\ next'[y] = next[y]
    BY <1>2, <1>9 DEF Linked
  <2>2. next[y] = u => Linked(y, u)'
    BY <2>1 DEF Linked
  <2>3. EndOf(t) # y
    BY <1>2
  <2> QED  BY <1>9, <2>2, <2>3, LinkedKept
<1>10. /\ \A c \in Places : w[c] = s[c] => RowOf(w, c)'
       /\ \A r \in Queues \ {q} : w[QPlace(r)] = s[QPlace(r)] => InQueue(w, r)'
  <2>1. \A r \in Queues \ {q} : tail'[r] = tail[r]
    BY DEF TailTaken
  <2> QED  BY <1>9, <2>1, OthersRows
<1>11. RowOf(w, a)'
  <2>1. Len(w[a]) = 0
    BY <1>7, EmptySeq
  <2> QED  BY <2>1 DEF RowOf
<1>12. RowOf(w, b)'
  <2>1. RowOf(s, a)
    BY <1>1 DEF Layout
  <2>2. \A i \in 1 .. Len(s[a]) - 1 : s[a][i] \in Ptrs \ {q}
    BY <1>1, LayoutFacts, NullIsNone DEF Ptrs
  <2> QED  BY <1>7, <1>9, <2>1, <2>2 DEF RowOf
<1>13. \A c \in Places : RowOf(w, c)'
  BY <1>7, <1>10, <1>11, <1>12
<1>14. \A r \in Queues : InQueue(w, r)'
  <2>1. InQueue(w, q)'
    BY <1>2, <1>7 DEF InQueue
  <2>2. ASSUME NEW r \in Queues, r # q PROVE InQueue(w, r)'
    <3>1. QPlace(r) \in Places \ {a, b}
      BY <2>2, PlacesAre
    <3> QED  BY <1>7, <1>10, <2>2, <3>1
  <2> QED  BY <2>1, <2>2
<1>15. ASSUME NEW u \in Threads PROVE Handed(w, u)'
  <2>1. CASE u = t
    <3>1. Handed(w, t)'
      BY <1>2, <1>3, <1>4, <1>7 DEF Handed
    <3> QED  BY <2>1, <3>1
  <2>2. CASE u # t
    <3>1. HPlace(u) \in Places \ {a, b}
      BY <2>2, PlacesAre
    <3>2. w[HPlace(u)] = s[HPlace(u)]
      BY <1>7, <3>1
    <3> QED  BY <2>2, <3>2, OthersHanded
  <2> QED  BY <2>1, <2>2
<1>16. Layout(w)'
  BY <1>8, <1>13, <1>14, <1>15 DEF Layout
<1> QED
  BY <1>3, <1>5, <1>16 DEF w

-----------------------------------------------------------------------------
(* The rows are what Held, InHand and the refinement mapping read            *)

(* The chain that the pointers make of a place's row.                        *)
LEMMA AfterIs ==
  ASSUME IInv, NEW x \in Ptrs, NEW y
  PROVE  /\ Linked(x, y) /\ x \in Nodes => After(x) = y
         /\ After(x) # Null => Linked(x, After(x))
<1>1. ASSUME After(x) # Null PROVE Linked(x, After(x))
  <2>1. CASE next[x] # Null
    BY <2>1 DEF After, Linked
  <2>2. CASE next[x] = Null
    <3>1. Linkers(x) # {}
      BY <1>1, <2>2 DEF After
    <3>2. PICK t \in Linkers(x) : After(x) = loc[t].first
      BY <2>2, <3>1 DEF After
    <3>3. t \in Threads /\ pc[t] = "link" /\ EndOf(t) = x /\ Brings(t) = loc[t].first
      BY DEF Linkers, EndOf, Brings
    <3> QED  BY <1>1, <3>2, <3>3 DEF Linked
  <2> QED  BY <2>1, <2>2
<1>2. ASSUME Linked(x, y), x \in Nodes PROVE After(x) = y
  <2>1. After(x) # Null
    <3>1. CASE next[x] # Null
      BY <3>1 DEF After
    <3>2. CASE next[x] = Null
      <4>1. PICK t \in Threads : pc[t] # "xchg" /\ EndOf(t) = x /\ Brings(t) = y
        BY <1>2, <3>2 DEF Linked
      <4>2. x \notin Queues /\ x # Null
        BY <1>2, NullIsNone DEF Ptrs
      <4>3. loc[t].q \in Queues \cup {Null}
        BY LocFields DEF IInv, Types
      <4>4. pc[t] = "link" /\ loc[t].old = x
        BY <4>1, <4>2, <4>3 DEF EndOf
      <4>5. t \in Linkers(x)
        BY <4>4 DEF Linkers
      <4>6. PICK u \in Linkers(x) : After(x) = loc[u].first
        BY <3>2, <4>5 DEF After
      <4>7. loc[u].first # Null
        BY DEF Linkers, IInv, Calls, Locals
      <4> QED  BY <4>6, <4>7
    <3> QED  BY <3>1, <3>2
  <2> QED  BY <1>1, <1>2, <2>1, LinkedOnce
<1> QED
  BY <1>1, <1>2

(* FirstOf finds the first node, wherever it is known.                       *)
LEMMA FirstIs ==
  ASSUME IInv, NEW q \in Queues, NEW y, Linked(q, y)
  PROVE  FirstOf(q) = y
<1>1. q \in Ptrs /\ q # Null /\ y # Null
  BY NullIsNone DEF Ptrs, Linked
<1>2. CASE After(q) # Null
  <2>1. Linked(q, After(q))
    BY <1>1, <1>2, AfterIs
  <2> QED  BY <1>1, <1>2, <2>1, LinkedOnce DEF FirstOf
<1>3. CASE After(q) = Null
  <2>1. next[q] = Null
    BY <1>3 DEF After
  <2>2. PICK t \in Threads : pc[t] # "xchg" /\ EndOf(t) = q /\ Brings(t) = y
    BY <1>1, <2>1 DEF Linked
  <2>3. Linkers(q) = {}
    <3>1. ASSUME NEW u \in Linkers(q) PROVE loc[u].first # Null
      BY DEF Linkers, IInv, Calls, Locals
    <3> QED  BY <1>3, <2>1, <3>1 DEF After
  <2>4. pc[t] # "link"
    BY <2>2, <2>3 DEF Linkers, EndOf
  <2>5. t \in Knowing(q)
    <3>1. loc[t].q = q /\ pc[t] \in {"cas", "sync", "move", "taketail"} /\ loc[t].op # "iterate"
      <4>1. Locals(t)
        BY DEF IInv, Calls
      <4> QED  BY <1>1, <2>2, <2>4, <4>1 DEF EndOf, Detached, Locals, OpAt
    <3> QED  BY <3>1 DEF Knowing
  <2>6. PICK u \in Knowing(q) :
          FirstOf(q) = IF pc[u] = "taketail" THEN loc[u].first ELSE loc[u].node
    BY <1>3, <2>5 DEF FirstOf
  <2>7. EndOf(u) = q /\ Brings(u) = FirstOf(q)
    <3>1. /\ loc[u].q = q /\ pc[u] \in {"cas", "sync", "move", "taketail"}
          /\ loc[u].op # "iterate" /\ Locals(u)
      BY DEF Knowing, IInv, Calls
    <3>2. CASE pc[u] = "taketail"
      BY <2>6, <3>1, <3>2 DEF EndOf, Brings
    <3>3. CASE pc[u] # "taketail"
      <4>1. loc[u].op = "dequeue"
        BY <3>1, <3>3 DEF Locals, OpAt
      <4>2. Detached(u)
        BY <2>1, <3>1, <3>3 DEF Detached
      <4> QED  BY <2>6, <3>1, <3>3, <4>1, <4>2 DEF EndOf, Brings
    <3> QED  BY <3>2, <3>3
  <2>8. u = t
    BY <1>1, <2>2, <2>7 DEF IInv, Ends, Knowing
  <2> QED  BY <2>2, <2>7, <2>8
<1> QED
  BY <1>2, <1>3

(* The chain through a row is the row.                                       *)
LEMMA RowFollows ==
  ASSUME IInv, NEW s, Layout(s), NEW c \in Places, s[c] # << >>
  PROVE  Follow(s[c]) /\ Chain(s[c][1], s[c][Len(s[c])]) = s[c]
<1>1. /\ s[c] \in Seq(Nodes) /\ Len(s[c]) \in Nat \ {0} /\ Apart(s) /\ RowOf(s, c)
      /\ \A i \in 1 .. Len(s[c]) : s[c][i] \in Nodes
  BY LayoutFacts DEF Layout, Data
<1>2. \A i, j \in 1 .. Len(s[c]) : s[c][i] = s[c][j] => i = j
  BY <1>1 DEF Apart, Spots
<1>3. ASSUME NEW i \in 1 .. Len(s[c]) - 1 PROVE After(s[c][i]) = s[c][i + 1]
  <2>1. i \in 1 .. Len(s[c])
    BY <1>1
  <2>2. s[c][i] \in Nodes /\ s[c][i] \in Ptrs
    BY <1>1, <2>1 DEF Ptrs
  <2>3. Linked(s[c][i], s[c][i + 1])
    BY <1>1 DEF RowOf
  <2> QED  BY <2>2, <2>3, AfterIs
<1>4. Follow(s[c])
  BY <1>1, <1>2, <1>3 DEF Follow
<1> QED
  BY <1>4, ChainOf, WfcAssumption

AQ(s) == [q \in Queues |-> s[QPlace(q)]]
CallIn(s, t) ==
    IF pc[t] \in {"idle", "link"} THEN NoCall
    ELSE IF pc[t] = "xchg"
         THEN [op |-> "append", to |-> loc[t].to, items |-> s[HPlace(t)]]
    ELSE IF loc[t].op = "splice"
         THEN [op |-> "splice", of |-> loc[t].q, to |-> loc[t].to]
    ELSE [op |-> loc[t].op, of |-> loc[t].q]

(* The rows are the contents of the queues and the nodes at hand, as the     *)
(* properties define them from the pointers.                                 *)
LEMMA Mapped ==
  ASSUME IInv, NEW s, Layout(s)
  PROVE  /\ \A q \in Queues : Held(q) = s[QPlace(q)]
         /\ \A t \in Threads : InHand(t) = s[HPlace(t)]
         /\ Contents = AQ(s)
         /\ Pending = [t \in Threads |-> CallIn(s, t)]
<1>1. ASSUME NEW q \in Queues PROVE Held(q) = s[QPlace(q)]
  <2>1. QPlace(q) \in Places /\ InQueue(s, q)
    BY PlacesAre DEF Layout
  <2>2. CASE s[QPlace(q)] = << >>
    BY <2>1, <2>2 DEF InQueue, Held
  <2>3. CASE s[QPlace(q)] # << >>
    <3>1. Linked(q, s[QPlace(q)][1]) /\ tail[q] = s[QPlace(q)][Len(s[QPlace(q)])]
      BY <2>1, <2>3 DEF InQueue
    <3>2. FirstOf(q) = s[QPlace(q)][1]
      BY <3>1, FirstIs
    <3>3. tail[q] # q
      <4>1. tail[q] \in Nodes
        <5>1. Len(s[QPlace(q)]) \in 1 .. Len(s[QPlace(q)])
          BY <2>1, <2>3, LayoutFacts
        <5> QED  BY <2>1, <3>1, <5>1, LayoutFacts
      <4> QED  BY <4>1, NullIsNone
    <3> QED  BY <2>1, <2>3, <3>1, <3>2, <3>3, RowFollows DEF Held
  <2> QED  BY <2>2, <2>3
<1>2. ASSUME NEW t \in Threads PROVE InHand(t) = s[HPlace(t)]
  <2>1. HPlace(t) \in Places /\ Handed(s, t)
    BY PlacesAre DEF Layout
  <2>2. CASE s[HPlace(t)] = << >>
    BY <2>1, <2>2 DEF Handed, InHand
  <2>3. CASE s[HPlace(t)] # << >>
    <3>1. pc[t] = "xchg" /\ loc[t].first = s[HPlace(t)][1]
          /\ loc[t].last = s[HPlace(t)][Len(s[HPlace(t)])]
      BY <2>1, <2>3 DEF Handed, Brings, EndOf
    <3> QED  BY <2>1, <2>3, <3>1, RowFollows DEF InHand
  <2> QED  BY <2>2, <2>3
<1>3. Contents = AQ(s)
  BY <1>1 DEF Contents, AQ
<1>4. ASSUME NEW t \in Threads PROVE CallOf(t) = CallIn(s, t)
  <2>1. pc[t] = "xchg" => Chain(loc[t].first, loc[t].last) = s[HPlace(t)]
    BY <1>2 DEF InHand
  <2> QED  BY <2>1 DEF CallOf, CallIn
<1>5. Pending = [t \in Threads |-> CallIn(s, t)]
  BY <1>4 DEF Pending
<1> QED
  BY <1>1, <1>2, <1>3, <1>5

LEMMA MappedAll ==
  \A s : IInv /\ Layout(s) => Contents = AQ(s) /\ Pending = [t \in Threads |-> CallIn(s, t)]
BY Mapped

(* The same, after a step.                                                   *)
LEMMA MappedThen ==
  (\A s : IInv /\ Layout(s) => Contents = AQ(s) /\ Pending = [t \in Threads |-> CallIn(s, t)])'
BY MappedAll, PTL

-----------------------------------------------------------------------------
(* The rows and the iterations over them                                     *)

(* An iteration has seen the first nodes of its queue, in their order.       *)
Seen(row, v, x) ==
    /\ Len(v) \in 1 .. Len(row) /\ x = row[Len(v)]
    /\ \A i \in 1 .. Len(v) : v[i] = row[i]
Iter(s, t) ==
    loc[t].op = "iterate" /\ pc[t] \in {"next", "sync", "end"} =>
        Seen(s[QPlace(loc[t].q)], loc[t].visited, loc[t].node)
Track(s) == Layout(s) /\ \A t \in Threads : Iter(s, t)

(* Nothing is taken from the row.                                            *)
Longer(row, new) ==
    Len(row) <= Len(new) /\ \A i \in 1 .. Len(row) : new[i] = row[i]

(* What was seen of a row is also seen of a longer one.                      *)
LEMMA SeenLonger ==
  ASSUME NEW row \in Seq(Nodes), NEW new \in Seq(Nodes), Longer(row, new),
         NEW v, NEW x, Seen(row, v, x)
  PROVE  Seen(new, v, x)
<1>1. Len(row) \in Nat /\ Len(new) \in Nat
  BY LenProperties
<1>2. Len(v) \in 1 .. Len(row) /\ Len(v) \in 1 .. Len(new)
  BY <1>1 DEF Seen, Longer
<1>3. x = new[Len(v)]
  BY <1>2 DEF Seen, Longer
<1>4. ASSUME NEW i \in 1 .. Len(v) PROVE v[i] = new[i]
  <2>1. i \in 1 .. Len(row)
    BY <1>1, <1>2
  <2> QED  BY <2>1 DEF Seen, Longer
<1> QED
  BY <1>2, <1>3, <1>4 DEF Seen

LEMMA SameIsLonger == \A row : row \in Seq(Nodes) => Longer(row, row)
<1> SUFFICES ASSUME NEW row \in Seq(Nodes) PROVE Longer(row, row)
  OBVIOUS
<1>1. Len(row) \in Nat
  BY LenProperties
<1> QED
  BY <1>1 DEF Longer

(* The step of t keeps what another iteration has seen, if nothing is taken  *)
(* from that queue.                                                          *)
LEMMA IterOther ==
  ASSUME IInv, NEW s, Track(s), NEW w, Layout(w)', NEW t \in Threads, Others(t),
         NEW u \in Threads \ {t},
         \A q \in Queues : loc[u].op = "iterate" /\ loc[u].q = q =>
            Longer(s[QPlace(q)], w[QPlace(q)])
  PROVE  Iter(w, u)'
<1>1. pc'[u] = pc[u] /\ loc'[u] = loc[u] /\ Iter(s, u)
  BY DEF Others, Track
<1> SUFFICES ASSUME loc[u].op = "iterate", pc[u] \in {"next", "sync", "end"}
             PROVE  Seen(w[QPlace(loc[u].q)], loc[u].visited, loc[u].node)
  BY <1>1 DEF Iter
<1>2. PICK q \in Queues : loc[u].q = q
  BY LocFields DEF IInv, Calls, Types, Locals
<1>3. s[QPlace(q)] \in Seq(Nodes) /\ w[QPlace(q)] \in Seq(Nodes)
  BY PlacesAre DEF Track, Layout, Data
<1>4. Seen(s[QPlace(q)], loc[u].visited, loc[u].node)
  BY <1>1, <1>2 DEF Iter
<1> QED
  BY <1>2, <1>3, <1>4, SeenLonger

(* A thread that takes no iteration further.                                 *)
LEMMA TrackStep ==
  ASSUME IInv, NEW s, Track(s), NEW w, Layout(w)', NEW t \in Threads, Others(t),
         loc'[t].op # "iterate" \/ pc'[t] \notin {"next", "sync", "end"},
         \A u \in Threads \ {t}, q \in Queues : loc[u].op = "iterate" /\ loc[u].q = q =>
            Longer(s[QPlace(q)], w[QPlace(q)])
  PROVE  Track(w)'
<1>1. Iter(w, t)'
  BY DEF Iter
<1>2. \A u \in Threads \ {t} : Iter(w, u)'
  BY IterOther
<1> QED
  BY <1>1, <1>2 DEF Track

(* What a step of t makes of the queues and the calls of SpliceFifo.         *)
LEMMA CallMoves ==
  ASSUME IInv, IInv', NEW s, Layout(s), NEW w, Layout(w)', NEW t \in Threads, Others(t),
         \A u \in Threads \ {t} : w[HPlace(u)] = s[HPlace(u)]
  PROVE  /\ Contents = AQ(s) /\ Contents' = AQ(w)
         /\ Pending[t] = CallIn(s, t)
         /\ Pending' = [Pending EXCEPT ![t] = CallIn(w, t)']
<1>1. Contents = AQ(s) /\ Pending = [u \in Threads |-> CallIn(s, u)]
  BY Mapped
<1>2. Contents' = AQ(w) /\ Pending' = [u \in Threads |-> CallIn(w, u)']
  BY MappedThen
<1>3. ASSUME NEW u \in Threads \ {t} PROVE CallIn(w, u)' = CallIn(s, u)
  <2>1. pc'[u] = pc[u] /\ loc'[u] = loc[u] /\ w[HPlace(u)] = s[HPlace(u)]
    BY DEF Others
  <2> QED  BY <2>1 DEF CallIn
<1> HIDE DEF CallIn
<1> QED
  BY <1>1, <1>2, <1>3

(* A step inside a call, that the FIFOs do not see.                          *)
LEMMA WorkStep ==
  ASSUME IInv, IInv', NEW s, Layout(s), Layout(s)', NEW t \in Threads, Others(t),
         CallIn(s, t)' = CallIn(s, t), ans' = NoAns
  PROVE  F!FifoNext
<1>1. Contents' = Contents /\ Pending' = Pending
  <2>1. /\ Contents = AQ(s) /\ Contents' = AQ(s) /\ Pending[t] = CallIn(s, t)
        /\ Pending' = [Pending EXCEPT ![t] = CallIn(s, t)']
    BY CallMoves
  <2>2. Pending = [u \in Threads |-> CallOf(u)]
    BY DEF Pending
  <2> QED  BY <2>1, <2>2
<1>2. F!Work
  BY <1>1 DEF F!Work, F!NoAns, NoAns
<1> QED
  BY <1>2 DEF F!FifoNext

-----------------------------------------------------------------------------
(* What each step does to the queues and the calls of SpliceFifo             *)

(* What wfcq_empty reads: the head's next is no proof of emptiness, the tail *)
(* is.                                                                       *)
LEMMA EmptyIs ==
  ASSUME IInv, NEW s, Layout(s), NEW q \in Queues
  PROVE  /\ tail[q] = q <=> s[QPlace(q)] = << >>
         /\ next[q] # Null => s[QPlace(q)] # << >>
<1>1. QPlace(q) \in Places /\ InQueue(s, q)
  BY PlacesAre DEF Layout
<1>2. ASSUME s[QPlace(q)] # << >> PROVE tail[q] # q
  <2>1. Len(s[QPlace(q)]) \in 1 .. Len(s[QPlace(q)])
    BY <1>1, <1>2, LayoutFacts
  <2>2. s[QPlace(q)][Len(s[QPlace(q)])] \in Nodes
    BY <1>1, <2>1, LayoutFacts
  <2> QED  BY <1>1, <1>2, <2>2, NullIsNone DEF InQueue
<1>3. next[q] # Null => tail[q] # q
  BY DEF IInv, Ends, IsEnd
<1> QED
  BY <1>1, <1>2, <1>3 DEF InQueue

(* A step that only looks and goes on.                                       *)
Inside(p) == p \notin {"idle", "link", "xchg"}

LEMMA LookStep ==
  ASSUME IInv, IInv', NEW s, Track(s), NEW t \in Threads, Kept(t), ans' = NoAns,
         Inside(pc[t]), Inside(pc'[t]),
         loc'[t].op = loc[t].op, loc'[t].q = loc[t].q, loc'[t].to = loc[t].to,
         loc'[t].op = "iterate" /\ pc'[t] \in {"next", "sync", "end"} =>
            Seen(s[QPlace(loc[t].q)], loc'[t].visited, loc'[t].node)
  PROVE  Track(s)' /\ F!FifoNext
<1>1. Layout(s)'
  BY KeptLayout DEF Track
<1>2. CallIn(s, t)' = CallIn(s, t)
  BY DEF CallIn, Inside
<1>3. F!FifoNext
  BY <1>1, <1>2, WorkStep DEF Track, Kept
<1>4. Iter(s, t)'
  BY DEF Iter
<1>5. \A u \in Threads \ {t} : Iter(s, u)'
  <2>1. \A q \in Queues : Longer(s[QPlace(q)], s[QPlace(q)])
    BY SameIsLonger, PlacesAre DEF Track, Layout, Data
  <2> QED  BY <1>1, <2>1, IterOther DEF Kept
<1> QED
  BY <1>1, <1>3, <1>4, <1>5 DEF Track

(* A step that only looks and returns.                                       *)
LEMMA AnswerStep ==
  ASSUME IInv, IInv', NEW s, Track(s), NEW t \in Threads, Kept(t),
         Inside(pc[t]), pc'[t] = "idle"
  PROVE  /\ Track(s)' /\ Contents' = Contents /\ Contents = AQ(s)
         /\ Pending[t] = CallIn(s, t) /\ Pending' = [Pending EXCEPT ![t] = NoCall]
<1>1. Layout(s)'
  BY KeptLayout DEF Track
<1>2. Others(t)
  BY DEF Kept
<1>3. /\ Contents = AQ(s) /\ Contents' = AQ(s) /\ Pending[t] = CallIn(s, t)
      /\ Pending' = [Pending EXCEPT ![t] = CallIn(s, t)']
  BY <1>1, <1>2, CallMoves DEF Track
<1>4. CallIn(s, t)' = NoCall
  BY DEF CallIn
<1>5. Track(s)'
  <2>1. \A q \in Queues : Longer(s[QPlace(q)], s[QPlace(q)])
    BY SameIsLonger, PlacesAre DEF Track, Layout, Data
  <2> QED  BY <1>1, <1>2, <2>1, TrackStep
<1> QED
  BY <1>3, <1>4, <1>5

(* The call that t is in.                                                    *)
LEMMA CallFields ==
  ASSUME IInv, NEW s, NEW t \in Threads, Inside(pc[t]), Pending[t] = CallIn(s, t)
  PROVE  /\ loc[t].q \in Queues
         /\ Pending[t].op = loc[t].op /\ Pending[t].of = loc[t].q
         /\ loc[t].op \in {"empty", "dequeue", "iterate", "splice"}
         /\ loc[t].op = "splice" => Pending[t].to = loc[t].to /\ loc[t].to \in Queues
<1>1. Locals(t) /\ loc[t].op \in Ops /\ loc[t].q \in Queues \cup {Null}
      /\ loc[t].to \in Queues \cup {Null}
  BY LocFields DEF IInv, Calls, Types
<1>2. pc[t] \in Pcs
  BY DEF IInv, Types
<1>3. loc[t].op \in {"empty", "dequeue", "iterate", "splice"}
  BY <1>1, <1>2 DEF Locals, OpAt, Inside, Ops, Pcs
<1> QED
  BY <1>1, <1>3 DEF Locals, CallIn, Inside

(* The answers of a call that finds its queue empty are true.                *)
LEMMA OnEmptyStep ==
  ASSUME IInv, IInv', NEW s, Track(s), NEW t \in Threads, pc[t] \in {"test", "testtail"},
         OnEmpty(t), Kept(t), tail[loc[t].q] = loc[t].q
  PROVE  Track(s)' /\ F!FifoNext
<1>1. pc'[t] = "idle" /\ ans' = <<t, EmptyAnswer[loc[t].op]>> /\ Inside(pc[t])
  BY Returned DEF OnEmpty, Says, IInv, Inside
<1>2. /\ Track(s)' /\ Contents' = Contents /\ Contents = AQ(s)
      /\ Pending[t] = CallIn(s, t) /\ Pending' = [Pending EXCEPT ![t] = NoCall]
  BY <1>1, AnswerStep
<1>3. /\ loc[t].q \in Queues /\ Pending[t].op = loc[t].op /\ Pending[t].of = loc[t].q
      /\ loc[t].op \in {"empty", "dequeue", "iterate", "splice"}
  BY <1>1, <1>2, CallFields
<1>4. Contents[Pending[t].of] = << >>
  BY <1>2, <1>3, EmptyIs DEF AQ, Track
<1>5. CASE loc[t].op = "empty"
  <2>1. ans' = <<t, TRUE>>
    BY <1>1, <1>5 DEF EmptyAnswer
  <2>2. F!IsEmpty(t)
    BY <1>2, <1>3, <1>4, <1>5, <2>1 DEF F!IsEmpty, F!Answer, F!NoCall, NoCall
  <2> QED  BY <1>2, <2>2 DEF F!FifoNext
<1>6. CASE loc[t].op = "dequeue"
  <2>1. ans' = <<t, Null>>
    BY <1>1, <1>6 DEF EmptyAnswer
  <2>2. F!Dequeue(t)
    BY <1>2, <1>3, <1>4, <1>6, <2>1 DEF F!Dequeue, F!Answer, F!NoCall, NoCall
  <2> QED  BY <1>2, <2>2 DEF F!FifoNext
<1>7. CASE loc[t].op = "iterate"
  <2>1. ans' = <<t, << >> >>
    BY <1>1, <1>7 DEF EmptyAnswer
  <2>2. F!Iterate(t)
    BY <1>2, <1>3, <1>4, <1>7, <2>1 DEF F!Iterate, F!Answer, F!NoCall, NoCall
  <2> QED  BY <1>2, <2>2 DEF F!FifoNext
<1>8. CASE loc[t].op = "splice"
  <2>1. ans' = <<t, "SRC_EMPTY">>
    BY <1>1, <1>8 DEF EmptyAnswer
  <2>2. F!Splice(t)
    BY <1>2, <1>3, <1>4, <1>8, <2>1 DEF F!Splice, F!Answer, F!NoCall, NoCall
  <2> QED  BY <1>2, <2>2 DEF F!FifoNext
<1> QED
  BY <1>3, <1>5, <1>6, <1>7, <1>8

(* A call that finds nodes answers that, or goes on.                         *)
LEMMA OnNodesStep ==
  ASSUME IInv, IInv', NEW s, Track(s), NEW t \in Threads, pc[t] \in {"test", "testtail"},
         OnNodes(t), Kept(t), s[QPlace(loc[t].q)] # << >>
  PROVE  Track(s)' /\ F!FifoNext
<1>1. Inside(pc[t]) /\ Layout(s) /\ Types
  BY DEF Inside, Track, IInv
<1>2. CASE loc[t].op = "empty"
  <2>1. pc'[t] = "idle" /\ ans' = <<t, FALSE>>
    BY <1>1, <1>2, Returned DEF OnNodes, Says
  <2>2. /\ Track(s)' /\ Contents' = Contents /\ Contents = AQ(s)
        /\ Pending[t] = CallIn(s, t) /\ Pending' = [Pending EXCEPT ![t] = NoCall]
    BY <1>1, <2>1, AnswerStep
  <2>3. loc[t].q \in Queues /\ Pending[t].op = loc[t].op /\ Pending[t].of = loc[t].q
    BY <1>1, <2>2, CallFields
  <2>4. Contents[Pending[t].of] # << >>
    BY <2>2, <2>3 DEF AQ
  <2>5. F!IsEmpty(t)
    BY <1>2, <2>1, <2>2, <2>3, <2>4 DEF F!IsEmpty, F!Answer, F!NoCall, NoCall
  <2> QED  BY <2>2, <2>5 DEF F!FifoNext
<1>3. CASE loc[t].op # "empty"
  <2>1. PICK p \in {"take", "first"} : Go(t, p) /\ loc' = loc /\ ans' = NoAns
    BY <1>3 DEF OnNodes, Goes
  <2>2. pc'[t] = p /\ loc'[t] = loc[t]
    BY <1>1, <2>1 DEF Go, Types
  <2>3. Inside(pc'[t]) /\ pc'[t] \notin {"next", "sync", "end"}
    BY <2>2 DEF Inside
  <2> QED  BY <1>1, <2>1, <2>2, <2>3, LookStep
<1> QED
  BY <1>2, <1>3

LEMMA TestHeadStep ==
  ASSUME IInv, IInv', NEW s, Track(s), NEW t \in Threads, TestHead(t)
  PROVE  Track(s)' /\ F!FifoNext
<1>1. pc[t] = "test" /\ Kept(t) /\ Types
  BY TestHeadIInv DEF TestHead, IInv
<1>2. CASE next[loc[t].q] = Null
  <2>1. Go(t, "testtail") /\ loc' = loc /\ ans' = NoAns
    BY <1>2 DEF TestHead, Goes
  <2>2. pc'[t] = "testtail" /\ loc'[t] = loc[t]
    BY <1>1, <2>1 DEF Go, Types
  <2>3. Inside(pc[t]) /\ Inside(pc'[t])
    BY <1>1, <2>2 DEF Inside
  <2> QED  BY <1>1, <2>1, <2>2, <2>3, LookStep
<1>3. CASE next[loc[t].q] # Null
  <2>1. loc[t].q \in Queues
    <3>1. Inside(pc[t]) /\ Layout(s)
      BY <1>1 DEF Inside, Track
    <3>2. Pending[t] = CallIn(s, t)
      BY <3>1, Mapped
    <3> QED  BY <3>1, <3>2, CallFields
  <2>2. s[QPlace(loc[t].q)] # << >>
    BY <1>3, <2>1, EmptyIs DEF Track
  <2>3. OnNodes(t)
    BY <1>3 DEF TestHead
  <2> QED  BY <1>1, <2>2, <2>3, OnNodesStep
<1> QED
  BY <1>2, <1>3

LEMMA TestTailStep ==
  ASSUME IInv, IInv', NEW s, Track(s), NEW t \in Threads, TestTail(t)
  PROVE  Track(s)' /\ F!FifoNext
<1>1. pc[t] = "testtail" /\ Kept(t)
  BY TestTailIInv DEF TestTail
<1>2. CASE tail[loc[t].q] = loc[t].q
  BY <1>1, <1>2, OnEmptyStep DEF TestTail
<1>3. CASE tail[loc[t].q] # loc[t].q
  <2>1. loc[t].q \in Queues
    <3>1. Inside(pc[t]) /\ Layout(s)
      BY <1>1 DEF Inside, Track
    <3>2. Pending[t] = CallIn(s, t)
      BY <3>1, Mapped
    <3> QED  BY <3>1, <3>2, CallFields
  <2>2. s[QPlace(loc[t].q)] # << >>
    BY <1>3, <2>1, EmptyIs DEF Track
  <2>3. OnNodes(t)
    BY <1>3 DEF TestTail
  <2> QED  BY <1>1, <2>2, <2>3, OnNodesStep
<1> QED
  BY <1>2, <1>3

-----------------------------------------------------------------------------
(* An iteration follows its row                                              *)

(* What an iterating thread knows of its row.                                *)
LEMMA IterFacts ==
  ASSUME IInv, NEW s, Track(s), NEW t \in Threads, loc[t].op = "iterate",
         pc[t] \in {"next", "sync", "end"}
  PROVE  /\ loc[t].q \in Queues /\ QPlace(loc[t].q) \in Places
         /\ loc[t].visited \in Seq(Nodes) /\ loc[t].node \in Nodes
         /\ Seen(s[QPlace(loc[t].q)], loc[t].visited, loc[t].node)
         /\ InQueue(s, loc[t].q) /\ RowOf(s, QPlace(loc[t].q)) /\ Layout(s)
<1>1. Locals(t) /\ loc[t].q \in Queues \cup {Null} /\ loc[t].visited \in Seq(Nodes)
      /\ loc[t].node \in Nodes \cup {Null}
  BY LocFields DEF IInv, Calls, Types
<1>2. loc[t].q \in Queues /\ loc[t].node \in Nodes
  BY <1>1 DEF Locals
<1>3. QPlace(loc[t].q) \in Places
  BY <1>2, PlacesAre
<1> QED
  BY <1>1, <1>2, <1>3 DEF Track, Layout, Iter

(* One node more is seen.                                                    *)
LEMMA SeenMore ==
  ASSUME NEW row \in Seq(Nodes), NEW v \in Seq(Nodes), NEW x, NEW y, Seen(row, v, x),
         Len(v) # Len(row), y = row[Len(v) + 1]
  PROVE  Seen(row, Append(v, y), y)
<1> DEFINE k == Len(v)
           n == Len(row)
<1>1. k \in Nat /\ n \in Nat
  BY LenProperties
<1>2. k \in 1 .. n /\ k # n /\ \A i \in 1 .. k : v[i] = row[i]
  BY DEF Seen
<1>3. row[k + 1] \in Nodes
  <2>1. k + 1 \in 1 .. n
    BY <1>1, <1>2
  <2> QED  BY <2>1, ElementOfSeq
<1>4. /\ Len(Append(v, y)) = k + 1
      /\ Append(v, y)[k + 1] = y
      /\ \A i \in 1 .. k : Append(v, y)[i] = v[i]
  BY <1>3, AppendProperties
<1> HIDE DEF k, n
<1>5. k + 1 \in 1 .. n /\ \A i \in 1 .. k + 1 : i \in 1 .. k \/ i = k + 1
  BY <1>1, <1>2
<1> DEFINE w == Append(v, y)
<1>6. w[k + 1] = row[k + 1] /\ \A i \in 1 .. k : w[i] = row[i]
  BY <1>2, <1>4 DEF k
<1>7. Len(w) = k + 1
  BY <1>4
<1> HIDE DEF w
<1> QED
  <2>1. \A i \in 1 .. k + 1 : w[i] = row[i]
    BY <1>5, <1>6
  <2>2. y = row[k + 1]
    BY DEF k
  <2>3. Seen(row, w, y)
    BY <1>5, <1>7, <2>1, <2>2 DEF Seen, n
  <2> QED  BY <2>3 DEF w

(* All nodes are seen.                                                       *)
LEMMA SeenAll ==
  ASSUME NEW row \in Seq(Nodes), NEW v \in Seq(Nodes), NEW x, Seen(row, v, x),
         Len(v) = Len(row)
  PROVE  v = row
BY SeqEqual DEF Seen

(* The head points to the first node of the row.                             *)
LEMMA FirstStep ==
  ASSUME IInv, IInv', NEW s, Track(s), NEW t \in Threads, First(t)
  PROVE  Track(s)' /\ F!FifoNext
<1>0. PICK q, x : q = loc[t].q /\ x = next[q]
  OBVIOUS
<1>1. Locals(t) /\ pc[t] = "first" /\ loc[t] \in LocSet /\ Layout(s) /\ Kept(t)
  BY FirstIInv DEF IInv, Calls, First, Types, Track
<1>2. q \in Queues /\ q \in Ptrs /\ loc[t].op \in {"dequeue", "iterate"}
  BY <1>0, <1>1, LocFields DEF Locals, OpAt, Ptrs
<1>3. x # Null /\ x \in Nodes
  BY <1>0, <1>2 DEF First, IInv, Types
<1>4. /\ pc'[t] = "next" /\ ans' = NoAns
      /\ loc'[t].op = loc[t].op /\ loc'[t].q = q /\ loc'[t].to = loc[t].to
      /\ loc'[t].node = x
      /\ loc[t].op = "iterate" => loc'[t].visited = <<x>>
  <2>1. loc' = [loc EXCEPT ![t].node = x,
                           ![t].visited = IF loc[t].op = "iterate" THEN <<x>> ELSE << >>]
    BY <1>0 DEF First
  <2>2. loc'[t] = [loc[t] EXCEPT !.node = x,
                                 !.visited = IF loc[t].op = "iterate" THEN <<x>> ELSE << >>]
    BY <2>1 DEF IInv, Types
  <2>3. pc'[t] = "next" /\ ans' = NoAns
    BY DEF First, Goes, Go, IInv, Types
  <2> QED  BY <1>0, <1>1, <2>2, <2>3 DEF LocSet
<1>5. Seen(s[QPlace(q)], <<x>>, x)
  <2>1. QPlace(q) \in Places /\ InQueue(s, q)
    BY <1>1, <1>2, PlacesAre DEF Layout
  <2>2. s[QPlace(q)] # << >>
    BY <1>0, <1>1, <1>2, <1>3, EmptyIs
  <2>3. Linked(q, s[QPlace(q)][1]) /\ Linked(q, x)
    BY <1>0, <1>3, <2>1, <2>2 DEF InQueue, Linked
  <2>4. x = s[QPlace(q)][1]
    BY <1>2, <2>3, LinkedOnce
  <2>5. Len(s[QPlace(q)]) \in Nat \ {0}
    BY <1>1, <2>1, <2>2, LayoutFacts
  <2> QED  BY <2>4, <2>5 DEF Seen
<1>6. Inside(pc[t]) /\ Inside(pc'[t])
  BY <1>1, <1>4 DEF Inside
<1> QED
  BY <1>0, <1>1, <1>4, <1>5, <1>6, LookStep

(* The node that an iteration reaches is the next one of the row.            *)
LEMMA ReachedStep ==
  ASSUME IInv, IInv', NEW s, Track(s), NEW t \in Threads, pc[t] \in {"next", "sync"},
         next[loc[t].node] # Null, Reached(t, next[loc[t].node]), Kept(t)
  PROVE  Track(s)' /\ F!FifoNext
<1>1. loc[t] \in LocSet /\ Inside(pc[t])
  BY DEF IInv, Types, Inside
<1>2. CASE loc[t].op = "dequeue"
  <2>1. loc'[t] = [loc[t] EXCEPT !.nxt = next[loc[t].node]] /\ pc'[t] = "move" /\ ans' = NoAns
    BY <1>2 DEF Reached, Set, Goes, Go, IInv, Types
  <2>2. loc'[t].op = loc[t].op /\ loc'[t].q = loc[t].q /\ loc'[t].to = loc[t].to
    BY <1>1, <2>1 DEF LocSet
  <2>3. Inside(pc'[t])
    BY <2>1 DEF Inside
  <2> QED  BY <1>1, <1>2, <2>1, <2>2, <2>3, LookStep
<1>3. CASE loc[t].op = "iterate"
  <2>0. PICK x, y, v, row : /\ x = loc[t].node /\ y = next[x] /\ v = loc[t].visited
                            /\ row = s[QPlace(loc[t].q)]
    OBVIOUS
  <2>1. /\ loc[t].q \in Queues /\ QPlace(loc[t].q) \in Places
        /\ v \in Seq(Nodes) /\ x \in Nodes /\ Seen(row, v, x)
        /\ InQueue(s, loc[t].q) /\ RowOf(s, QPlace(loc[t].q)) /\ Layout(s)
    BY <1>3, <2>0, IterFacts
  <2>2. row \in Seq(Nodes) /\ Len(row) \in Nat /\ Len(v) \in 1 .. Len(row) /\ x = row[Len(v)]
        /\ row # << >>
    <3>1. Len(v) \in 1 .. Len(row) /\ x = row[Len(v)]
      BY <2>1 DEF Seen
    <3>2. /\ row \in Seq(Nodes) /\ Len(row) \in Nat
          /\ row = << >> <=> Len(row) = 0
      BY <2>0, <2>1, LayoutFacts
    <3>3. Len(row) # 0
      BY <3>1, <3>2
    <3> QED  BY <3>1, <3>2, <3>3
  <2>3. Linked(x, y)
    BY <2>0 DEF Linked
  <2>4. Len(v) # Len(row)
    <3>1. tail[loc[t].q] = row[Len(row)]
      BY <2>0, <2>1, <2>2 DEF InQueue
    <3> QED  BY <2>1, <2>2, <2>3, <3>1, TailIsLast
  <2>5. y = row[Len(v) + 1]
    <3>1. Len(v) \in 1 .. Len(row) - 1
      BY <2>2, <2>4
    <3>2. Linked(x, row[Len(v) + 1])
      BY <2>0, <2>1, <2>2, <3>1 DEF RowOf
    <3>3. x \in Ptrs
      BY <2>1 DEF Ptrs
    <3> QED  BY <2>3, <3>2, <3>3, LinkedOnce
  <2>6. Seen(row, Append(v, y), y)
    BY <2>1, <2>2, <2>4, <2>5, SeenMore
  <2>7. /\ pc'[t] = "next" /\ ans' = NoAns
        /\ loc'[t].op = loc[t].op /\ loc'[t].q = loc[t].q /\ loc'[t].to = loc[t].to
        /\ loc'[t].node = y /\ loc'[t].visited = Append(v, y)
    <3>1. loc' = [loc EXCEPT ![t].node = y, ![t].visited = Append(@, y)]
      BY <1>3, <2>0 DEF Reached
    <3>2. loc'[t] = [loc[t] EXCEPT !.node = y, !.visited = Append(v, y)]
      BY <1>1, <2>0, <3>1 DEF IInv, Types, LocSet
    <3>3. pc'[t] = "next" /\ ans' = NoAns
      BY <1>3 DEF Reached, Goes, Go, IInv, Types
    <3> QED  BY <1>1, <3>2, <3>3 DEF LocSet
  <2>8. Inside(pc'[t])
    BY <2>7 DEF Inside
  <2> QED  BY <1>1, <2>0, <2>6, <2>7, <2>8, LookStep
<1> QED
  BY <1>2, <1>3 DEF Reached

LEMMA LoadNextStep ==
  ASSUME IInv, IInv', NEW s, Track(s), NEW t \in Threads, LoadNext(t)
  PROVE  Track(s)' /\ F!FifoNext
<1>1. pc[t] = "next" /\ Kept(t)
  BY LoadNextIInv DEF LoadNext
<1>2. CASE next[loc[t].node] # Null
  <2>1. Reached(t, next[loc[t].node])
    BY <1>2 DEF LoadNext
  <2> QED  BY <1>1, <1>2, <2>1, ReachedStep
<1>3. CASE next[loc[t].node] = Null
  <2>1. PICK p \in {"clear", "end"} : Go(t, p) /\ loc' = loc /\ ans' = NoAns
    BY <1>3 DEF LoadNext, Goes
  <2>2. pc'[t] = p /\ loc'[t] = loc[t]
    BY <2>1 DEF Go, IInv, Types
  <2>3. Inside(pc[t]) /\ Inside(pc'[t])
    BY <1>1, <2>2 DEF Inside
  <2>4. loc[t].op = "iterate" => Seen(s[QPlace(loc[t].q)], loc[t].visited, loc[t].node)
    BY <1>1, IterFacts
  <2> QED  BY <1>1, <2>1, <2>2, <2>3, <2>4, LookStep
<1> QED
  BY <1>2, <1>3

LEMMA SyncNextStep ==
  ASSUME IInv, IInv', NEW s, Track(s), NEW t \in Threads, SyncNext(t)
  PROVE  Track(s)' /\ F!FifoNext
BY SyncNextIInv, ReachedStep DEF SyncNext

(* An iteration that reached the tail has seen the whole row.                *)
LEMMA EndStep ==
  ASSUME IInv, IInv', NEW s, Track(s), NEW t \in Threads, End(t)
  PROVE  Track(s)' /\ F!FifoNext
<1>1. pc[t] = "end" /\ Kept(t) /\ Locals(t)
  BY EndIInv DEF End, IInv, Calls
<1>2. loc[t].op = "iterate" /\ Inside(pc[t])
  BY <1>1 DEF Locals, OpAt, Inside
<1>3. PICK x, v, row : x = loc[t].node /\ v = loc[t].visited /\ row = s[QPlace(loc[t].q)]
  OBVIOUS
<1>4. /\ loc[t].q \in Queues /\ QPlace(loc[t].q) \in Places
      /\ v \in Seq(Nodes) /\ x \in Nodes /\ Seen(row, v, x)
      /\ InQueue(s, loc[t].q) /\ Layout(s)
  BY <1>1, <1>2, <1>3, IterFacts
<1>5. CASE tail[loc[t].q] # x
  <2>1. Go(t, "sync") /\ loc' = loc /\ ans' = NoAns
    BY <1>3, <1>5 DEF End, Goes
  <2>2. pc'[t] = "sync" /\ loc'[t] = loc[t]
    BY <2>1 DEF Go, IInv, Types
  <2>3. Inside(pc'[t])
    BY <2>2 DEF Inside
  <2> QED  BY <1>1, <1>2, <1>3, <1>4, <2>1, <2>2, <2>3, LookStep
<1>6. CASE tail[loc[t].q] = x
  <2>1. pc'[t] = "idle" /\ ans' = <<t, v>>
    BY <1>3, <1>6, Returned DEF End, Says, IInv
  <2>2. /\ Track(s)' /\ Contents' = Contents /\ Contents = AQ(s)
        /\ Pending[t] = CallIn(s, t) /\ Pending' = [Pending EXCEPT ![t] = NoCall]
    BY <1>1, <1>2, <2>1, AnswerStep
  <2>3. Pending[t].op = "iterate" /\ Pending[t].of = loc[t].q
    BY <1>2, <2>2, CallFields
  <2>4. v = row
    <3>1. row \in Seq(Nodes) /\ Len(row) \in Nat /\ Len(v) \in 1 .. Len(row) /\ x = row[Len(v)]
          /\ row # << >>
      BY <1>3, <1>4, LayoutFacts DEF Seen
    <3>2. x = row[Len(row)] /\ Len(row) \in 1 .. Len(row)
      BY <1>3, <1>4, <1>6, <3>1 DEF InQueue
    <3>3. Apart(s)
      BY <1>4 DEF Layout, Data
    <3>4. \A i, j \in 1 .. Len(row) : row[i] = row[j] => i = j
      BY <1>3, <1>4, <3>3 DEF Apart, Spots
    <3>5. Len(v) = Len(row)
      BY <3>1, <3>2, <3>4
    <3> QED  BY <1>4, <3>1, <3>5, SeenAll
  <2>5. Contents[Pending[t].of] = v
    BY <1>3, <1>4, <2>2, <2>3, <2>4 DEF AQ
  <2>6. F!Iterate(t)
    BY <2>1, <2>2, <2>3, <2>5 DEF F!Iterate, F!Answer, F!NoCall, NoCall
  <2> QED  BY <2>2, <2>6 DEF F!FifoNext
<1> QED
  BY <1>5, <1>6

(* A splice that finds its queue empty in between.                           *)
LEMMA CheckStep ==
  ASSUME IInv, IInv', NEW s, Track(s), NEW t \in Threads, Check(t)
  PROVE  Track(s)' /\ F!FifoNext
<1>1. pc[t] = "check" /\ Kept(t) /\ Locals(t)
  BY CheckIInv DEF Check, IInv, Calls
<1>2. loc[t].op = "splice" /\ Inside(pc[t])
  BY <1>1 DEF Locals, OpAt, Inside
<1>3. CASE tail[loc[t].q] # loc[t].q
  <2>1. Go(t, "take") /\ loc' = loc /\ ans' = NoAns
    BY <1>3 DEF Check, Goes
  <2>2. pc'[t] = "take" /\ loc'[t] = loc[t]
    BY <2>1 DEF Go, IInv, Types
  <2>3. Inside(pc'[t])
    BY <2>2 DEF Inside
  <2> QED  BY <1>1, <1>2, <2>1, <2>2, <2>3, LookStep
<1>4. CASE tail[loc[t].q] = loc[t].q
  <2>1. pc'[t] = "idle" /\ ans' = <<t, "SRC_EMPTY">>
    BY <1>4, Returned DEF Check, Says, IInv
  <2>2. /\ Track(s)' /\ Contents' = Contents /\ Contents = AQ(s)
        /\ Pending[t] = CallIn(s, t) /\ Pending' = [Pending EXCEPT ![t] = NoCall]
    BY <1>1, <1>2, <2>1, AnswerStep
  <2>3. loc[t].q \in Queues /\ Pending[t].op = "splice" /\ Pending[t].of = loc[t].q
    BY <1>2, <2>2, CallFields
  <2>4. Contents[Pending[t].of] = << >>
    BY <1>4, <2>2, <2>3, EmptyIs DEF AQ, Track
  <2>5. F!Splice(t)
    BY <2>1, <2>2, <2>3, <2>4 DEF F!Splice, F!Answer, F!NoCall, NoCall
  <2> QED  BY <2>2, <2>5 DEF F!FifoNext
<1> QED
  BY <1>3, <1>4

-----------------------------------------------------------------------------
(* The steps that move the nodes                                             *)

(* A step of t that changes the row of q and what t has in hand.             *)
LEMMA RowStep ==
  ASSUME IInv, IInv', NEW s, Track(s), NEW t \in Threads, Others(t), NEW q \in Queues,
         NEW w, Layout(w)',
         loc'[t].op # "iterate" \/ pc'[t] \notin {"next", "sync", "end"},
         \A c \in Places \ {QPlace(q), HPlace(t)} : w[c] = s[c],
         \A u \in Threads \ {t} : loc[u].op = "iterate" /\ loc[u].q = q =>
            Longer(s[QPlace(q)], w[QPlace(q)])
  PROVE  /\ Track(w)' /\ Contents[q] = s[QPlace(q)]
         /\ Contents' = [Contents EXCEPT ![q] = w[QPlace(q)]]
         /\ Pending[t] = CallIn(s, t)
         /\ Pending' = [Pending EXCEPT ![t] = CallIn(w, t)']
<1>1. /\ \A r \in Queues \ {q} : w[QPlace(r)] = s[QPlace(r)]
      /\ \A u \in Threads \ {t} : w[HPlace(u)] = s[HPlace(u)]
  BY PlacesAre
<1>2. Track(w)'
  <2>1. ASSUME NEW u \in Threads \ {t}, NEW r \in Queues, loc[u].op = "iterate", loc[u].q = r
        PROVE  Longer(s[QPlace(r)], w[QPlace(r)])
    <3>1. s[QPlace(r)] \in Seq(Nodes)
      BY PlacesAre DEF Track, Layout, Data
    <3> QED  BY <1>1, <2>1, <3>1, SameIsLonger
  <2> QED  BY <2>1, TrackStep
<1>3. /\ Contents = AQ(s) /\ Contents' = AQ(w) /\ Pending[t] = CallIn(s, t)
      /\ Pending' = [Pending EXCEPT ![t] = CallIn(w, t)']
  BY <1>1, CallMoves DEF Track
<1>4. AQ(w) = [AQ(s) EXCEPT ![q] = w[QPlace(q)]] /\ AQ(s)[q] = s[QPlace(q)]
  BY <1>1 DEF AQ
<1> QED
  BY <1>2, <1>3, <1>4

(* A call starts.                                                            *)
LEMMA StartStep ==
  ASSUME IInv, IInv', NEW s, Track(s), NEW t \in Threads,
         NEW op \in {"empty", "dequeue", "iterate", "splice"},
         NEW q \in Queues, NEW to \in Queues \cup {Null}, Start(t, op, q, to),
         op = "splice" => to \in Queues
  PROVE  Track(s)' /\ F!FifoNext
<1>1. pc[t] = "idle" /\ Kept(t) /\ Others(t) /\ ans' = NoAns
  BY StartIInv DEF Start, Kept, Goes
<1>2. pc'[t] = "test" /\ loc'[t].op = op /\ loc'[t].q = q /\ loc'[t].to = to
  <2>1. pc'[t] = "test" /\ loc'[t] = [NoLocals EXCEPT !.op = op, !.q = q, !.to = to]
    BY DEF Start, Goes, Go, IInv, Types
  <2> QED  BY <2>1 DEF NoLocals
<1>3. Layout(s)'
  BY <1>1, KeptLayout DEF Track
<1>4. /\ Track(s)' /\ Contents[q] = s[QPlace(q)]
      /\ Contents' = [Contents EXCEPT ![q] = s[QPlace(q)]]
      /\ Pending[t] = CallIn(s, t) /\ Pending' = [Pending EXCEPT ![t] = CallIn(s, t)']
  <2>1. s[QPlace(q)] \in Seq(Nodes)
    BY PlacesAre DEF Track, Layout, Data
  <2>2. Longer(s[QPlace(q)], s[QPlace(q)])
    BY <2>1, SameIsLonger
  <2> QED  BY <1>1, <1>2, <1>3, <2>2, RowStep
<1>5. PICK c : c = CallIn(s, t)'
  OBVIOUS
<1>6. CallIn(s, t) = NoCall
  BY <1>1 DEF CallIn
<1>7. c \in F!Calls
  <2>1. CASE op = "splice"
    <3>1. c = [op |-> "splice", of |-> q, to |-> to]
      BY <1>2, <1>5, <2>1 DEF CallIn
    <3> QED  BY <2>1, <3>1 DEF F!Calls
  <2>2. CASE op # "splice"
    <3>1. c = [op |-> op, of |-> q]
      BY <1>2, <1>5, <2>2 DEF CallIn
    <3> QED  BY <2>2, <3>1 DEF F!Calls, F!Rows
  <2> QED  BY <2>1, <2>2
<1>8. Contents' = Contents /\ Pending' = [Pending EXCEPT ![t] = c] /\ Pending'[t] = c
  <2>1. Contents = [r \in Queues |-> Held(r)] /\ Pending = [u \in Threads |-> CallOf(u)]
    BY DEF Contents, Pending
  <2> QED  BY <1>4, <1>5, <2>1
<1>9. F!Invoke(t)
  BY <1>1, <1>4, <1>6, <1>7, <1>8 DEF F!Invoke, F!NoCall, NoCall, F!NoAns, NoAns
<1> QED
  BY <1>4, <1>9 DEF F!FifoNext

LEMMA EnqueueStep ==
  ASSUME IInv, IInv', NEW s, Track(s), NEW t \in Threads, Enqueue(t)
  PROVE  (\E w : Track(w)') /\ F!FifoNext
<1>1. Others(t) /\ \E x \in free, q \in Queues : Enqueued(t, x, q)
  BY EnqueueIInv
<1>2. PICK x \in free, q \in Queues : Enqueued(t, x, q)
  BY <1>1
<1>3. PICK w : w = Put(s, HPlace(t), <<x>>)
  OBVIOUS
<1>4. Layout(w)' /\ HPlace(t) \in Places /\ x \in Nodes
  BY <1>1, <1>2, <1>3, EnqueueLayout, PlacesAre DEF Track, IInv, Types
<1>5. w[HPlace(t)] = <<x>> /\ \A c \in Places \ {HPlace(t)} : w[c] = s[c]
  BY <1>3, <1>4 DEF Put
<1>6. pc[t] = "idle" /\ pc'[t] = "xchg" /\ loc'[t].op = "append" /\ loc'[t].to = q
      /\ ans' = NoAns
  BY <1>2 DEF Enqueued, Enqueue, Goes
<1>7. w[QPlace(q)] = s[QPlace(q)] /\ s[QPlace(q)] \in Seq(Nodes)
  BY <1>5, PlacesAre DEF Track, Layout, Data
<1>8. /\ Track(w)' /\ Contents[q] = s[QPlace(q)]
      /\ Contents' = [Contents EXCEPT ![q] = w[QPlace(q)]]
      /\ Pending[t] = CallIn(s, t) /\ Pending' = [Pending EXCEPT ![t] = CallIn(w, t)']
  <2>1. Longer(s[QPlace(q)], w[QPlace(q)])
    BY <1>7, SameIsLonger
  <2> QED  BY <1>1, <1>4, <1>5, <1>6, <2>1, RowStep
<1>9. CallIn(s, t) = NoCall /\ CallIn(w, t)' = [op |-> "append", to |-> q, items |-> <<x>>]
  BY <1>5, <1>6 DEF CallIn
<1>10. PICK c : c = [op |-> "append", to |-> q, items |-> <<x>>]
  OBVIOUS
<1>11. c \in F!Calls
  <2>1. <<x>> \in Seq(Nodes) \ {<< >>}
    BY <1>4
  <2>2. c \in [op : {"append"}, items : Seq(Nodes) \ {<< >>}, to : Queues]
    BY <1>10, <2>1
  <2> QED  BY <2>2 DEF F!Calls
<1>12. Contents' = Contents /\ Pending' = [Pending EXCEPT ![t] = c] /\ Pending'[t] = c
  <2>1. Contents = [r \in Queues |-> Held(r)] /\ Pending = [u \in Threads |-> CallOf(u)]
    BY DEF Contents, Pending
  <2> QED  BY <1>7, <1>8, <1>9, <1>10, <2>1
<1>13. F!Invoke(t)
  BY <1>6, <1>8, <1>9, <1>11, <1>12 DEF F!Invoke, F!NoCall, NoCall, F!NoAns, NoAns
<1> QED
  BY <1>8, <1>13 DEF F!FifoNext

(* An append takes effect at its exchange of the tail.                       *)
LEMMA AppendXchgStep ==
  ASSUME IInv, IInv', NEW s, Track(s), NEW t \in Threads, AppendXchg(t)
  PROVE  (\E w : Track(w)') /\ F!FifoNext
<1>1. Others(t) /\ \E q \in Queues : Exchanged(t, q)
  BY AppendXchgIInv
<1>2. PICK q \in Queues : Exchanged(t, q)
  BY <1>1
<1>3. PICK a, b : a = QPlace(q) /\ b = HPlace(t)
  OBVIOUS
<1>4. a \in Places /\ b \in Places /\ a # b /\ Layout(s) /\ Data(s, free)
  BY <1>3, PlacesAre DEF Track, Layout
<1>5. PICK w : w = Join(s, a, b)
  OBVIOUS
<1>6. Layout(w)' /\ s[b] # << >>
  BY <1>1, <1>2, <1>3, <1>4, <1>5, AppendLayout
<1>7. /\ w[a] = s[a] \o s[b] /\ \A c \in Places \ {a, b} : w[c] = s[c]
      /\ Len(w[a]) = Len(s[a]) + Len(s[b])
      /\ \A i \in 1 .. Len(s[a]) : w[a][i] = s[a][i]
  <2>1. JoinAs(s, a, b)
    BY <1>4, JoinIs
  <2> QED  BY <1>5, <2>1 DEF JoinAs, Spots
<1>8. Longer(s[a], w[a])
  <2>1. PICK n, m, k : n = Len(s[a]) /\ m = Len(s[b]) /\ k = Len(w[a])
    OBVIOUS
  <2>2. n \in Nat /\ m \in Nat /\ k = n + m
    BY <1>4, <1>7, <2>1, LayoutFacts
  <2>3. n <= k
    BY <2>2
  <2> QED  BY <1>7, <2>1, <2>3 DEF Longer
<1>9. pc[t] = "xchg" /\ pc'[t] = "link" /\ loc[t].to = q /\ ans' = <<t, tail[q] # q>>
  BY <1>2 DEF Exchanged, AppendXchg
<1>10. /\ Track(w)' /\ Contents[q] = s[a] /\ Contents' = [Contents EXCEPT ![q] = w[a]]
       /\ Pending[t] = CallIn(s, t) /\ Pending' = [Pending EXCEPT ![t] = CallIn(w, t)']
  <2>1. \A c \in Places \ {QPlace(q), HPlace(t)} : w[c] = s[c]
    BY <1>3, <1>7
  <2>2. Longer(s[QPlace(q)], w[QPlace(q)])
    BY <1>3, <1>8
  <2> QED  BY <1>1, <1>3, <1>6, <1>9, <2>1, <2>2, RowStep
<1>11. CallIn(s, t) = [op |-> "append", to |-> q, items |-> s[b]] /\ CallIn(w, t)' = NoCall
  BY <1>3, <1>9 DEF CallIn
<1>12. (tail[q] # q) = (Contents[q] # << >>)
  BY <1>3, <1>4, <1>10, EmptyIs
<1>13. /\ Pending[t].op = "append" /\ Pending[t].to = q /\ Pending[t].items = s[b]
  BY <1>10, <1>11
<1>14. F!Answer(t, Contents[Pending[t].to] # << >>)
  BY <1>9, <1>10, <1>11, <1>12, <1>13 DEF F!Answer, F!NoCall, NoCall
<1>15. Contents' = [Contents EXCEPT ![Pending[t].to] = @ \o Pending[t].items]
  BY <1>7, <1>10, <1>13
<1>16. F!AppendTo(t)
  BY <1>13, <1>14, <1>15 DEF F!AppendTo
<1> QED
  BY <1>10, <1>16 DEF F!FifoNext

(* A step that changes a pointer, and that the FIFOs do not see.             *)
LEMMA HiddenStep ==
  ASSUME IInv, IInv', NEW s, Track(s), NEW t \in Threads, Others(t), Layout(s)',
         pc'[t] \notin {"next", "sync", "end"}, CallIn(s, t)' = CallIn(s, t), ans' = NoAns
  PROVE  Track(s)' /\ F!FifoNext
<1>1. F!FifoNext
  BY WorkStep DEF Track
<1>2. \A q \in Queues : Longer(s[QPlace(q)], s[QPlace(q)])
  BY SameIsLonger, PlacesAre DEF Track, Layout, Data
<1> QED
  BY <1>1, <1>2, TrackStep

LEMMA AppendLinkStep ==
  ASSUME IInv, IInv', NEW s, Track(s), NEW t \in Threads, AppendLink(t)
  PROVE  Track(s)' /\ F!FifoNext
<1>1. Others(t) /\ LinkSet(t) /\ pc[t] = "link" /\ pc'[t] = "idle" /\ ans' = NoAns
  BY AppendLinkIInv DEF LinkSet, AppendLink
<1>2. Layout(s)'
  BY <1>1, LinkLayout DEF Track
<1>3. CallIn(s, t)' = CallIn(s, t)
  BY <1>1 DEF CallIn
<1> QED
  BY <1>1, <1>2, <1>3, HiddenStep

LEMMA ClearStep ==
  ASSUME IInv, IInv', NEW s, Track(s), NEW t \in Threads, Clear(t)
  PROVE  Track(s)' /\ F!FifoNext
<1>1. Others(t) /\ \E q \in Queues : Cleared(t, q)
  BY ClearIInv
<1>2. PICK q \in Queues : Cleared(t, q)
  BY <1>1
<1>3. pc[t] = "clear" /\ pc'[t] = "cas" /\ loc'[t] = loc[t] /\ ans' = NoAns
  BY <1>2 DEF Cleared, Clear, Goes
<1>4. Layout(s)'
  BY <1>1, <1>2, ClearLayout DEF Track
<1>5. CallIn(s, t)' = CallIn(s, t)
  BY <1>3 DEF CallIn
<1> QED
  BY <1>1, <1>3, <1>4, <1>5, HiddenStep

LEMMA TakeStep ==
  ASSUME IInv, IInv', NEW s, Track(s), NEW t \in Threads, Take(t)
  PROVE  Track(s)' /\ F!FifoNext
<1>1. Others(t) /\ \E q \in Queues : Taken(t, q)
  BY TakeIInv
<1>2. PICK q \in Queues : Taken(t, q)
  BY <1>1
<1>3. /\ pc[t] = "take" /\ pc'[t] \in {"check", "taketail"} /\ ans' = NoAns
      /\ loc[t].op = "splice" /\ loc'[t].op = "splice"
      /\ loc'[t].q = loc[t].q /\ loc'[t].to = loc[t].to
  BY <1>2 DEF Taken, Take, Goes
<1>4. Layout(s)'
  BY <1>1, <1>2, TakeLayout DEF Track
<1>5. CallIn(s, t)' = CallIn(s, t)
  BY <1>3 DEF CallIn
<1> QED
  BY <1>1, <1>3, <1>4, <1>5, HiddenStep

(* A dequeue of a row that it takes the first node of.                       *)
LEMMA TakenFirst ==
  ASSUME IInv, IInv', NEW s, Track(s), NEW t \in Threads, Others(t), NEW q \in Queues,
         q = loc[t].q, loc[t].op = "dequeue", Inside(pc[t]), pc'[t] = "idle",
         NEW x \in Nodes, NEW v, s[QPlace(q)] # << >>, s[QPlace(q)][1] = x,
         v = Tail(s[QPlace(q)]), Layout(Put(s, QPlace(q), v))', ans' = <<t, x>>
  PROVE  (\E w : Track(w)') /\ F!FifoNext
<1>1. PICK w : w = Put(s, QPlace(q), v)
  OBVIOUS
<1>2. w[QPlace(q)] = v /\ \A c \in Places \ {QPlace(q), HPlace(t)} : w[c] = s[c]
  BY <1>1, PutIs, PlacesAre
<1>3. \A u \in Threads \ {t} : ~ (loc[u].op = "iterate" /\ loc[u].q = q)
  BY DEF IInv, Alone
<1>4. /\ Track(w)' /\ Contents[q] = s[QPlace(q)] /\ Contents' = [Contents EXCEPT ![q] = v]
      /\ Pending[t] = CallIn(s, t) /\ Pending' = [Pending EXCEPT ![t] = CallIn(w, t)']
  BY <1>1, <1>2, <1>3, RowStep
<1>5. CallIn(w, t)' = NoCall
  BY DEF CallIn
<1>6. Pending[t].op = "dequeue" /\ Pending[t].of = q
  BY <1>4, CallFields
<1>7. F!Answer(t, Head(Contents[q]))
  BY <1>4, <1>5 DEF F!Answer, F!NoCall, NoCall
<1>8. Contents' = [Contents EXCEPT ![q] = Tail(@)]
  BY <1>4
<1>9. F!Dequeue(t)
  BY <1>4, <1>6, <1>7, <1>8 DEF F!Dequeue
<1> QED
  BY <1>4, <1>9 DEF F!FifoNext

(* The compare-and-exchange takes the last node, or an append was faster.    *)
LEMMA CasStep ==
  ASSUME IInv, IInv', NEW s, Track(s), NEW t \in Threads, Cas(t)
  PROVE  (\E w : Track(w)') /\ F!FifoNext
<1>1. pc[t] = "cas" /\ Inside(pc[t]) /\ Locals(t)
  BY DEF Cas, Inside, IInv, Calls
<1>2. CASE Others(t) /\ \E q \in Queues : Emptied(t, q)
  <2>1. PICK q \in Queues : Emptied(t, q)
    BY <1>2
  <2>2. PICK x : x = loc[t].node
    OBVIOUS
  <2>3. /\ q = loc[t].q /\ loc[t].op = "dequeue" /\ pc'[t] = "idle" /\ x \in Nodes
        /\ tail[q] = x
    BY <2>1, <2>2 DEF Emptied
  <2>4. s[QPlace(q)] = <<x>> /\ Layout(Put(s, QPlace(q), << >>))'
    BY <1>2, <2>1, <2>2, EmptyLayout DEF Track
  <2>5. ans' = <<t, x>>
    BY <2>2, <2>3 DEF Cas, Says
  <2>6. <<x>> # << >> /\ <<x>>[1] = x /\ Tail(<<x>>) = << >>
    OBVIOUS
  <2> QED  BY <1>1, <1>2, <2>3, <2>4, <2>5, <2>6, TakenFirst
<1>3. CASE Kept(t)
  <2>1. loc[t].op = "dequeue"
    BY <1>1 DEF Locals, OpAt
  <2>2. tail[loc[t].q] # loc[t].node
    <3>1. loc[t].q \in Queues /\ loc[t].node # Null /\ loc[t].node \in Nodes \cup {Null}
      BY <1>1, <2>1, LocFields DEF Locals, IInv, Types
    <3>2. loc[t].q # loc[t].node
      BY <3>1, NullIsNone
    <3>3. tail' = tail
      BY <1>3 DEF Kept
    <3> QED  BY <3>1, <3>2, <3>3 DEF Cas, IInv, Types
  <2>3. Go(t, "sync") /\ loc' = loc /\ ans' = NoAns
    BY <2>2 DEF Cas, Goes
  <2>4. pc'[t] = "sync" /\ loc'[t] = loc[t]
    BY <2>3 DEF Go, IInv, Types
  <2>5. Inside(pc'[t])
    BY <2>4 DEF Inside
  <2>6. Track(s)' /\ F!FifoNext
    BY <1>1, <1>3, <2>1, <2>3, <2>4, <2>5, LookStep
  <2> QED  BY <2>6
<1> QED
  BY <1>2, <1>3, CasIInv

LEMMA MoveStep ==
  ASSUME IInv, IInv', NEW s, Track(s), NEW t \in Threads, Move(t)
  PROVE  (\E w : Track(w)') /\ F!FifoNext
<1>1. Others(t) /\ \E q \in Queues : Moved(t, q)
  BY MoveIInv
<1>2. PICK q \in Queues : Moved(t, q)
  BY <1>1
<1>3. PICK x, v : x = loc[t].node /\ v = Tail(s[QPlace(q)])
  OBVIOUS
<1>4. /\ q = loc[t].q /\ loc[t].op = "dequeue" /\ pc'[t] = "idle" /\ x \in Nodes
      /\ pc[t] = "move"
  BY <1>2, <1>3 DEF Moved
<1>5. /\ s[QPlace(q)] # << >> /\ s[QPlace(q)][1] = x /\ Layout(Put(s, QPlace(q), v))'
  BY <1>1, <1>2, <1>3, MoveLayout DEF Track
<1>6. ans' = <<t, x>> /\ Inside(pc[t])
  BY <1>3, <1>4 DEF Move, Says, Inside
<1> QED
  BY <1>1, <1>3, <1>4, <1>5, <1>6, TakenFirst

(* A splice takes effect at its exchange of the tail.                        *)
LEMMA TakeTailStep ==
  ASSUME IInv, IInv', NEW s, Track(s), NEW t \in Threads, TakeTail(t)
  PROVE  (\E w : Track(w)') /\ F!FifoNext
<1>1. Others(t) /\ \E q \in Queues : TailTaken(t, q)
  BY TakeTailIInv
<1>2. PICK q \in Queues : TailTaken(t, q)
  BY <1>1
<1>3. PICK a, b : a = QPlace(q) /\ b = HPlace(t)
  OBVIOUS
<1>4. a \in Places /\ b \in Places /\ a # b /\ Layout(s) /\ Data(s, free)
  BY <1>3, PlacesAre DEF Track, Layout
<1>5. PICK w : w = Join(s, b, a)
  OBVIOUS
<1>6. Layout(w)' /\ s[a] # << >> /\ s[b] = << >>
  BY <1>1, <1>2, <1>3, <1>4, <1>5, SpliceLayout
<1>7. w[b] = s[a] /\ w[a] = << >> /\ \A c \in Places \ {a, b} : w[c] = s[c]
  <2>1. w[b] = s[b] \o s[a] /\ w[a] = << >> /\ \A c \in Places \ {a, b} : w[c] = s[c]
    <3>1. JoinAs(s, b, a)
      BY <1>4, JoinIs
    <3> QED  BY <1>5, <3>1 DEF JoinAs
  <2>2. s[a] \in Seq(Nodes)
    BY <1>4, LayoutFacts
  <2> QED  BY <1>6, <2>1, <2>2, ConcatEmptySeq
<1>8. /\ pc[t] = "taketail" /\ pc'[t] = "xchg" /\ loc[t].q = q /\ loc[t].op = "splice"
      /\ loc'[t].to = loc[t].to /\ ans' = NoAns /\ Inside(pc[t])
  BY <1>2 DEF TailTaken, TakeTail, Goes, Inside
<1>9. \A u \in Threads \ {t} : ~ (loc[u].op = "iterate" /\ loc[u].q = q)
  BY <1>8 DEF IInv, Alone
<1>10. /\ Track(w)' /\ Contents[q] = s[a] /\ Contents' = [Contents EXCEPT ![q] = w[a]]
       /\ Pending[t] = CallIn(s, t) /\ Pending' = [Pending EXCEPT ![t] = CallIn(w, t)']
  BY <1>1, <1>3, <1>6, <1>7, <1>8, <1>9, RowStep
<1>11. /\ Pending[t].op = "splice" /\ Pending[t].of = q /\ Pending[t].to = loc[t].to
  BY <1>8, <1>10, CallFields
<1>12. CallIn(w, t)' = [op |-> "append", items |-> s[a], to |-> Pending[t].to]
  BY <1>3, <1>7, <1>8, <1>11 DEF CallIn
<1>13. F!Splice(t)
  BY <1>6, <1>7, <1>8, <1>10, <1>11, <1>12 DEF F!Splice, F!NoAns, NoAns
<1> QED
  BY <1>10, <1>13 DEF F!FifoNext

-----------------------------------------------------------------------------
(* Every step                                                                *)

NextIsFifo == (\E w : Track(w)') /\ F!FifoNext

LEMMA StepIsFifo ==
  ASSUME IInv, IInv', NEW s, Track(s), NEW t \in Threads, Step(t)
  PROVE  NextIsFifo
<1>1. CASE Appends(t)
  BY <1>1, AppendXchgStep, AppendLinkStep DEF Appends, NextIsFifo
<1>2. CASE Test(t)
  BY <1>2, TestHeadStep, TestTailStep DEF Test, NextIsFifo
<1>3. CASE Walk(t)
  BY <1>3, FirstStep, LoadNextStep, SyncNextStep, EndStep DEF Walk, NextIsFifo
<1>4. CASE Dequeue(t)
  BY <1>4, ClearStep, CasStep, MoveStep DEF Dequeue, NextIsFifo
<1>5. CASE Splice(t)
  BY <1>5, TakeStep, CheckStep, TakeTailStep DEF Splice, NextIsFifo
<1> QED
  BY <1>1, <1>2, <1>3, <1>4, <1>5 DEF Step

(* Whatever step the program takes, some rows fit the pointers afterwards,   *)
(* and the FIFOs take a step of theirs or none.                              *)
LEMMA NextTracks ==
  ASSUME IInv, IInv', NEW s, Track(s), [Next]_vars
  PROVE  (\E w : Track(w)') /\ [F!FifoNext]_(F!fifoVars)
<1>1. ASSUME NEW t \in Enqueuers, Enqueue(t) PROVE NextIsFifo
  <2>1. t \in Threads
    BY DEF Threads
  <2> QED  BY <1>1, <2>1, EnqueueStep DEF NextIsFifo
<1>2. ASSUME NEW t \in Takers, NEW q \in Queues, NEW op \in {"empty", "dequeue", "iterate"},
             Start(t, op, q, Null)
      PROVE  NextIsFifo
  <2>1. t \in Threads /\ op # "splice"
    BY DEF Threads
  <2> QED  BY <1>2, <2>1, StartStep DEF NextIsFifo
<1>3. ASSUME NEW t \in Splicers, NEW q \in Queues, NEW to \in Queues,
             Start(t, "splice", q, to)
      PROVE  NextIsFifo
  <2>1. t \in Threads
    BY DEF Threads
  <2> QED  BY <1>3, <2>1, StartStep DEF NextIsFifo
<1>4. CASE UNCHANGED vars
  <2>1. Layout(s)'
    BY <1>4, StutterLayout DEF Track
  <2>2. ASSUME NEW t \in Threads PROVE Iter(s, t)'
    <3>1. pc' = pc /\ loc' = loc /\ Iter(s, t)
      BY <1>4 DEF vars, Track
    <3> QED  BY <3>1 DEF Iter
  <2>3. Track(s)'
    BY <2>1, <2>2 DEF Track
  <2>4. Contents = AQ(s) /\ Pending = [t \in Threads |-> CallIn(s, t)]
    BY Mapped DEF Track
  <2>5. Contents' = AQ(s) /\ Pending' = [t \in Threads |-> CallIn(s, t)']
    BY <2>1, MappedThen
  <2>6. \A t \in Threads : CallIn(s, t)' = CallIn(s, t)
    BY <1>4 DEF CallIn, vars
  <2> HIDE DEF CallIn
  <2>7. Contents' = Contents /\ Pending' = Pending /\ ans' = ans
    BY <1>4, <2>4, <2>5, <2>6 DEF vars
  <2> QED  BY <2>3, <2>7 DEF F!fifoVars
<1>5. CASE Next
  <2>1. NextIsFifo
    BY <1>1, <1>2, <1>3, <1>5, StepIsFifo DEF Next
  <2> QED  BY <2>1 DEF NextIsFifo
<1> QED
  BY <1>4, <1>5

(* At first all rows are empty.                                              *)
LEMMA InitTracks ==
  ASSUME Init
  PROVE  (\E s : Track(s)) /\ F!FifoInit
<1>1. PICK s : s = [c \in Places |-> << >>]
  OBVIOUS
<1>2. \A c \in Places : s[c] = << >> /\ Len(s[c]) = 0 /\ Spots(s, c) = {}
  BY <1>1 DEF Spots
<1>3. Data(s, free)
  <2>1. s \in [Places -> Seq(Nodes)]
    BY <1>1
  <2>2. Apart(s)
    BY <1>2 DEF Apart
  <2>3. \A x \in Nodes : x \in free
    BY DEF Init
  <2> QED  BY <1>2, <2>1, <2>2, <2>3 DEF Data
<1>4. \A c \in Places : RowOf(s, c)
  BY <1>2 DEF RowOf
<1>5. \A q \in Queues : InQueue(s, q)
  BY <1>2, PlacesAre DEF InQueue, Init
<1>6. \A t \in Threads : Handed(s, t)
  BY <1>2, PlacesAre DEF Handed, Init
<1>7. \A t \in Threads : Iter(s, t)
  BY DEF Iter, Init
<1>8. Layout(s)
  BY <1>3, <1>4, <1>5, <1>6 DEF Layout
<1>9. IInv
  BY InitIInv
<1>10. Contents = AQ(s) /\ Pending = [t \in Threads |-> CallIn(s, t)]
  BY <1>8, <1>9, Mapped
<1>11. Contents = [q \in Queues |-> << >>]
  BY <1>2, <1>10, PlacesAre DEF AQ
<1>12. Pending = [t \in Threads |-> NoCall]
  BY <1>10 DEF CallIn, Init
<1>13. F!FifoInit
  BY <1>11, <1>12 DEF F!FifoInit, F!NoCall, F!NoAns, NoCall, NoAns, Init
<1> QED
  BY <1>7, <1>8, <1>13 DEF Track

Tracked == \E s : Track(s)

LEMMA NextTracked ==
  IInv /\ IInv' /\ Tracked /\ [Next]_vars => Tracked' /\ [F!FifoNext]_(F!fifoVars)
<1> SUFFICES ASSUME IInv, IInv', Tracked, [Next]_vars
             PROVE  Tracked' /\ [F!FifoNext]_(F!fifoVars)
  OBVIOUS
<1>1. PICK s : Track(s)
  BY DEF Tracked
<1>2. (\E w : Track(w)') /\ [F!FifoNext]_(F!fifoVars)
  BY <1>1, NextTracks
<1> QED
  BY <1>2 DEF Tracked

(* There are always rows that the pointers, the tails and the calls in       *)
(* progress fit, and every iteration has seen the first nodes of its row.    *)
THEOREM AlwaysTracked == Spec => []Tracked
<1>1. Init => Tracked
  BY InitTracks DEF Tracked
<1> QED
  BY <1>1, NextTracked, Invariant, PTL DEF Spec

(* Enqueue, dequeue, splice, iteration and wfcq_empty, step by step on       *)
(* shared pointers, answer as if each had happened at one instant: the       *)
(* queues implement the FIFOs of SpliceFifo, for any number of queues, nodes *)
(* and threads that keep to the synchronization table.                       *)
THEOREM RefinesSpliceFifo == Spec => ImplementsSpliceFifo
<1>1. Init => F!FifoInit
  BY InitTracks
<1> QED
  BY <1>1, NextTracked, Invariant, AlwaysTracked, PTL DEF Spec, ImplementsSpliceFifo, F!FifoSpec

(* A node that is not free is at one place of one row, and a free one at     *)
(* none.                                                                     *)
LEMMA TrackedConserves == IInv /\ Tracked => NodesConserved
<1> SUFFICES ASSUME IInv, Tracked, NEW x \in Nodes
    PROVE Cardinality({c \in Places \X (1 .. Cardinality(Nodes)) :
                        c[2] \in DOMAIN At(c[1]) /\ At(c[1])[c[2]] = x})
          = IF x \in free THEN 0 ELSE 1
  BY DEF NodesConserved
<1>1. PICK s : Track(s)
  BY DEF Tracked
<1>2. Layout(s) /\ Data(s, free)
  BY <1>1 DEF Track, Layout
<1>3. ASSUME NEW c \in Places PROVE At(c) = s[c]
  <2>1. /\ \A q \in Queues : Held(q) = s[QPlace(q)]
        /\ \A t \in Threads : InHand(t) = s[HPlace(t)]
    BY <1>2, Mapped
  <2>2. CASE \E q \in Queues : c = QPlace(q)
    <3>1. PICK q \in Queues : c = QPlace(q)
      BY <2>2
    <3>2. c[1] = "queue" /\ c[2] = q
      BY <3>1 DEF QPlace
    <3> QED  BY <2>1, <3>1, <3>2 DEF At
  <2>3. CASE \E t \in Threads : c = HPlace(t)
    <3>1. PICK t \in Threads : c = HPlace(t)
      BY <2>3
    <3>2. c[1] = "hand" /\ c[2] = t
      BY <3>1 DEF HPlace
    <3> QED  BY <2>1, <3>1, <3>2 DEF At
  <2> QED  BY <2>2, <2>3, PlacesAre
<1> DEFINE N == Cardinality(Nodes)
           A == {c \in Places \X (1 .. N) : c[2] \in DOMAIN At(c[1]) /\ At(c[1])[c[2]] = x}
<1>4. ASSUME NEW c \in Places, NEW i \in Spots(s, c) PROVE i \in 1 .. N
  <2>1. s[c] \in Seq(Nodes) /\ \A k, j \in 1 .. Len(s[c]) : s[c][k] = s[c][j] => k = j
    BY <1>2 DEF Data, Apart, Spots
  <2>2. Len(s[c]) \in 0 .. N
    BY <2>1, SeqFits, WfcAssumption
  <2>3. N \in Nat
    BY FS_CardinalityType, WfcAssumption
  <2> QED  BY <2>2, <2>3 DEF Spots
<1>5. A = {c \in Places \X Nat : c[2] \in Spots(s, c[1]) /\ s[c[1]][c[2]] = x}
  <2>1. ASSUME NEW c \in Places
        PROVE  DOMAIN At(c) = Spots(s, c) /\ Spots(s, c) \subseteq 1 .. N
               /\ Spots(s, c) \subseteq Nat
    <3>1. s[c] \in Seq(Nodes)
      BY <1>2 DEF Data
    <3> QED  BY <1>3, <1>4, <3>1, LenProperties DEF Spots
  <2> HIDE DEF N
  <2> QED  BY <1>3, <2>1
<1> HIDE DEF A, N
<1>6. CASE x \in free
  <2>1. A = {}
    BY <1>2, <1>5, <1>6 DEF Data
  <2> QED  BY <1>6, <2>1, FS_EmptySet DEF A, N
<1>7. CASE x \notin free
  <2>1. PICK d \in Places : \E i \in Spots(s, d) : s[d][i] = x
    BY <1>2, <1>7 DEF Data
  <2>2. PICK i \in Spots(s, d) : s[d][i] = x
    BY <2>1
  <2>3. A = {<<d, i>>}
    <3>1. <<d, i>> \in A
      <4>1. i \in Nat
        BY DEF Spots
      <4> QED  BY <1>5, <2>2, <4>1
    <3>2. ASSUME NEW c \in A PROVE c = <<d, i>>
      <4>1. /\ c \in Places \X Nat /\ c[1] \in Places /\ c[2] \in Spots(s, c[1])
            /\ s[c[1]][c[2]] = x
        BY <1>5
      <4>2. c[1] = d /\ c[2] = i
        BY <1>2, <2>2, <4>1 DEF Data, Apart
      <4> QED  BY <4>1, <4>2
    <3> QED  BY <3>1, <3>2
  <2>4. Cardinality(A) = 1
    BY <2>3, FS_Singleton
  <2> QED  BY <1>7, <2>4 DEF A, N
<1> QED
  BY <1>6, <1>7

(* Every node is free, or in one queue, or in the hand of one call, exactly  *)
(* once: no interleaving of appends, dequeues and splices loses a node or    *)
(* puts it in two places, a dequeued node being reused at once.              *)
THEOREM NodesAreConserved == Spec => []NodesConserved
BY Invariant, AlwaysTracked, TrackedConserves, PTL
=============================================================================
