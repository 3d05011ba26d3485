------------------------------ MODULE WfcQueue ------------------------------
(* include/linux/wfc_queue.h: a linked queue with wait-free enqueue and      *)
(* busy-waiting dequeue.  An enqueuer exchanges the tail first and links its *)
(* node to the old tail afterwards; in between the chain is broken, and      *)
(* whoever walks it waits.  A step is one access to memory that others use.  *)
(*                                                                           *)
(* A queue's name stands for the node in its head (struct wfcq_head), which  *)
(* is what tail->p points to when the queue is empty.                        *)
EXTENDS Integers, Sequences, FiniteSets

CONSTANTS
    Queues, Nodes, Null,
    Enqueuers,  \* threads that enqueue
    Takers,     \* threads that dequeue, iterate and test for emptiness
    Splicers    \* threads that splice

ASSUME WfcAssumption ==
    /\ Null \notin Queues \cup Nodes /\ Queues \cap Nodes = {}
    /\ IsFiniteSet(Nodes)

Threads == Enqueuers \cup Takers \cup Splicers

VARIABLES
    next,   \* the next pointer of every node, the heads' included
    tail,   \* tail->p of every queue
    free,   \* nodes that are in no queue and no call
    pc,     \* where each thread is
    loc,    \* its arguments and locals
    ans     \* what the last step decided to answer: to whom and what

vars == <<next, tail, free, pc, loc, ans>>

(* q: the queue worked on; to: a splice's destination; first, last: the      *)
(* nodes to append; old: old_tail; node, nxt: node and next of a dequeue or  *)
(* an iteration; visited: the nodes an iteration has seen.                   *)
NoLocals == [op |-> "none", q |-> Null, to |-> Null, first |-> Null, last |-> Null,
             old |-> Null, node |-> Null, nxt |-> Null, visited |-> << >>]
NoAns == << >>

(* wfcq_init *)
Init ==
    /\ next = [x \in Queues \cup Nodes |-> Null]
    /\ tail = [q \in Queues |-> q]
    /\ free = Nodes
    /\ pc   = [t \in Threads |-> "idle"]
    /\ loc  = [t \in Threads |-> NoLocals]
    /\ ans  = NoAns

(* The pairs marked "X" in the synchronization table, which the callers keep *)
(* apart: [3] dequeue, [4] splice (source), [5] and [6] an iteration.        *)
Conflicts_NoDequeue ==              \* FAULTY: two dequeues at a time
    {{"dequeue", "splice"}, {"dequeue", "iterate"}, {"splice", "iterate"}}
Conflicts ==
    {{"dequeue"}, {"dequeue", "splice"}, {"dequeue", "iterate"}, {"splice", "iterate"}}
MayStart(t, op, q) ==
    \A u \in Threads \ {t} : loc[u].q = q => {op, loc[u].op} \notin Conflicts

Go(t, label) == pc' = [pc EXCEPT ![t] = label]
Goes(t, label) == Go(t, label) /\ ans' = NoAns
Set(t, field, val) == loc' = [loc EXCEPT ![t][field] = val]
Return(t) == Go(t, "idle") /\ loc' = [loc EXCEPT ![t] = NoLocals]
Says(t, a) == Return(t) /\ ans' = <<t, a>>

-----------------------------------------------------------------------------
(* wfcq_enqueue: a node that the caller has initialised.                     *)
Enqueue(t) ==
    /\ pc[t] = "idle"
    /\ \E x \in free, q \in Queues :
         /\ free' = free \ {x}
         /\ next' = [next EXCEPT ![x] = Null]
         /\ loc'  = [loc EXCEPT ![t] = [NoLocals EXCEPT !.op = "append", !.to = q,
                                                        !.first = x, !.last = x]]
    /\ Goes(t, "xchg")
    /\ UNCHANGED tail

(* __wfcq_append; preemption is off from the exchange to the link.           *)
AppendXchg_Plain(t) ==              \* FAULTY: a load and a store, no exchange
    \/ /\ pc[t] = "xchg" /\ loc[t].old = Null
       /\ Set(t, "old", tail[loc[t].to])
       /\ Goes(t, "xchg")
       /\ UNCHANGED <<next, tail, free>>
    \/ /\ pc[t] = "xchg" /\ loc[t].old # Null
       /\ tail' = [tail EXCEPT ![loc[t].to] = loc[t].last]
       /\ Go(t, "link")
       /\ ans' = <<t, loc[t].old # loc[t].to>>
       /\ UNCHANGED <<next, free, loc>>

AppendXchg(t) ==
    /\ pc[t] = "xchg"
    /\ tail' = [tail EXCEPT ![loc[t].to] = loc[t].last]
    /\ Set(t, "old", tail[loc[t].to])
    /\ Go(t, "link")
    /\ ans' = <<t, tail[loc[t].to] # loc[t].to>>
    /\ UNCHANGED <<next, free>>

AppendLink(t) ==
    /\ pc[t] = "link"
    /\ next' = [next EXCEPT ![loc[t].old] = loc[t].first]
    /\ Return(t) /\ ans' = NoAns
    /\ UNCHANGED <<tail, free>>

-----------------------------------------------------------------------------
(* wfcq_empty, which starts the other operations too.                        *)
Start(t, op, q, to) ==
    /\ pc[t] = "idle" /\ MayStart(t, op, q)
    /\ loc' = [loc EXCEPT ![t] = [NoLocals EXCEPT !.op = op, !.q = q, !.to = to]]
    /\ Goes(t, "test")
    /\ UNCHANGED <<next, tail, free>>

(* What an operation makes of the test: wfcq_empty returns it, the others    *)
(* return NULL, no nodes or WFCQ_RET_SRC_EMPTY, or go on.                    *)
EmptyAnswer == [empty |-> TRUE, dequeue |-> Null, iterate |-> << >>, splice |-> "SRC_EMPTY"]
OnEmpty(t) == Says(t, EmptyAnswer[loc[t].op])
OnNodes(t) ==
    CASE loc[t].op = "empty"  -> Says(t, FALSE)
      [] loc[t].op = "splice" -> Goes(t, "take") /\ UNCHANGED loc
      [] OTHER                -> Goes(t, "first") /\ UNCHANGED loc

TestHead_Alone(t) ==                \* FAULTY: does not look at the tail
    /\ pc[t] = "test"
    /\ IF next[loc[t].q] = Null THEN OnEmpty(t) ELSE OnNodes(t)
    /\ UNCHANGED <<next, tail, free>>

TestHead(t) ==
    /\ pc[t] = "test"
    /\ IF next[loc[t].q] = Null THEN Goes(t, "testtail") /\ UNCHANGED loc ELSE OnNodes(t)
    /\ UNCHANGED <<next, tail, free>>

TestTail(t) ==
    /\ pc[t] = "testtail"
    /\ IF tail[loc[t].q] = loc[t].q THEN OnEmpty(t) ELSE OnNodes(t)
    /\ UNCHANGED <<next, tail, free>>

(* ___wfcq_node_sync_next(&head->node): waits for the link.                  *)
First(t) ==
    /\ pc[t] = "first"
    /\ next[loc[t].q] # Null
    /\ loc' = [loc EXCEPT ![t].node = next[loc[t].q],
                          ![t].visited = IF loc[t].op = "iterate"
                                         THEN <<next[loc[t].q]>> ELSE << >>]
    /\ Goes(t, "next")
    /\ UNCHANGED <<next, tail, free>>

(* The node after loc.node: a dequeue moves the head there, an iteration     *)
(* goes on from it.                                                          *)
Reached(t, x) ==
    \/ /\ loc[t].op = "dequeue"
       /\ Set(t, "nxt", x)
       /\ Goes(t, "move")
    \/ /\ loc[t].op = "iterate"
       /\ loc' = [loc EXCEPT ![t].node = x, ![t].visited = Append(@, x)]
       /\ Goes(t, "next")

LoadNext(t) ==
    /\ pc[t] = "next"
    /\ LET x == next[loc[t].node]
       IN  IF x # Null THEN Reached(t, x)
                       ELSE Goes(t, IF loc[t].op = "dequeue" THEN "clear" ELSE "end")
                            /\ UNCHANGED loc
    /\ UNCHANGED <<next, tail, free>>

(* ___wfcq_node_sync_next(node) *)
SyncNext(t) ==
    /\ pc[t] = "sync"
    /\ next[loc[t].node] # Null
    /\ Reached(t, next[loc[t].node])
    /\ UNCHANGED <<next, tail, free>>

End_Spin(t) ==                      \* FAULTY: waits for a link, whatever the tail
    /\ pc[t] = "end"
    /\ Goes(t, "next")
    /\ UNCHANGED <<next, tail, free, loc>>

(* __wfcq_next: the end of the queue, or a node about to be linked.          *)
End(t) ==
    /\ pc[t] = "end"
    /\ IF tail[loc[t].q] = loc[t].node
       THEN Says(t, loc[t].visited)
       ELSE Goes(t, "sync") /\ UNCHANGED loc
    /\ UNCHANGED <<next, tail, free>>

-----------------------------------------------------------------------------
(* __wfcq_dequeue *)
Clear(t) ==
    /\ pc[t] = "clear"
    /\ next' = [next EXCEPT ![loc[t].q] = Null]
    /\ Goes(t, "cas")
    /\ UNCHANGED <<tail, free, loc>>

Cas(t) ==
    /\ pc[t] = "cas"
    /\ \/ /\ tail[loc[t].q] = loc[t].node
          /\ tail' = [tail EXCEPT ![loc[t].q] = loc[t].q]
          /\ free' = free \cup {loc[t].node}
          /\ Says(t, loc[t].node)
       \/ /\ tail[loc[t].q] # loc[t].node
          /\ Goes(t, "sync")
          /\ UNCHANGED <<tail, free, loc>>
    /\ UNCHANGED next

Move(t) ==
    /\ pc[t] = "move"
    /\ next' = [next EXCEPT ![loc[t].q] = loc[t].nxt]
    /\ free' = free \cup {loc[t].node}
    /\ Says(t, loc[t].node)
    /\ UNCHANGED tail

-----------------------------------------------------------------------------
(* __wfcq_splice: takes the head's next, then the tail, then appends.        *)
Take(t) ==
    /\ pc[t] = "take"
    /\ next' = [next EXCEPT ![loc[t].q] = Null]
    /\ Set(t, "first", next[loc[t].q])
    /\ Goes(t, IF next[loc[t].q] = Null THEN "check" ELSE "taketail")
    /\ UNCHANGED <<tail, free>>

Check_Give(t) ==                    \* FAULTY: gives up when the chain is broken
    /\ pc[t] = "check"
    /\ Says(t, "SRC_EMPTY")
    /\ UNCHANGED <<next, tail, free>>

Check(t) ==
    /\ pc[t] = "check"
    /\ IF tail[loc[t].q] = loc[t].q
       THEN Says(t, "SRC_EMPTY")
       ELSE Goes(t, "take") /\ UNCHANGED loc
    /\ UNCHANGED <<next, tail, free>>

(* From here on the source is free for other calls of its kind.              *)
TakeTail(t) ==
    /\ pc[t] = "taketail"
    /\ tail' = [tail EXCEPT ![loc[t].q] = loc[t].q]
    /\ Set(t, "last", tail[loc[t].q])
    /\ Goes(t, "xchg")
    /\ UNCHANGED <<next, free>>

-----------------------------------------------------------------------------
Appends(t) == AppendXchg(t) \/ AppendLink(t)
Test(t)    == TestHead(t) \/ TestTail(t)
Walk(t)    == First(t) \/ LoadNext(t) \/ SyncNext(t) \/ End(t)
Dequeue(t) == Clear(t) \/ Cas(t) \/ Move(t)
Splice(t)  == Take(t) \/ Check(t) \/ TakeTail(t)
Step(t)    == Appends(t) \/ Test(t) \/ Walk(t) \/ Dequeue(t) \/ Splice(t)

Next ==
    \/ \E t \in Enqueuers : Enqueue(t)
    \/ \E t \in Takers, q \in Queues, op \in {"empty", "dequeue", "iterate"} :
          Start(t, op, q, Null)
    \/ \E t \in Splicers, q, to \in Queues : q # to /\ Start(t, "splice", q, to)
    \/ \E t \in Threads : Step(t)

(* A thread inside a call goes on; an enqueuer is not even preempted.        *)
Spec == Init /\ [][Next]_vars /\ \A t \in Threads : WF_vars(Step(t))

-----------------------------------------------------------------------------
(* Properties *)

TypeOK ==
    /\ next \in [Queues \cup Nodes -> Nodes \cup {Null}]
    /\ tail \in [Queues -> Queues \cup Nodes]
    /\ free \subseteq Nodes
    /\ pc \in [Threads -> {"idle", "xchg", "link", "test", "testtail", "first", "next", "sync",
                           "end", "clear", "cas", "move", "take", "check", "taketail"}]
    /\ \A t \in Threads :
         /\ loc[t].op = "none" <=> pc[t] = "idle"
         /\ pc[t] \in {"next", "sync", "end", "clear", "cas", "move"} => loc[t].node \in Nodes
         /\ pc[t] \in {"xchg", "link"} => {loc[t].first, loc[t].last} \subseteq Nodes
         /\ pc[t] = "link" => loc[t].old # Null

(* The chain as it will be when every enqueuer has linked what it appended:  *)
(* a next pointer, or the first node of the append that is about to set it.  *)
Linkers(x) == {t \in Threads : pc[t] = "link" /\ loc[t].old = x}
After(x) == IF next[x] # Null THEN next[x]
            ELSE IF Linkers(x) = {} THEN Null ELSE loc[CHOOSE t \in Linkers(x) : TRUE].first
Chain(from, to) ==
    LET at[k \in 1 .. Cardinality(Nodes)] ==
            IF k = 1 THEN from
            ELSE IF at[k - 1] \in {to, Null} THEN Null ELSE After(at[k - 1])
        ends == {k \in DOMAIN at : at[k] = to}
    IN  IF ends = {} THEN << >> ELSE [j \in 1 .. (CHOOSE k \in ends : TRUE) |-> at[j]]

(* While a dequeue or a splice has set the head's next to NULL, it alone     *)
(* knows the first node.                                                     *)
Knowing(q) == {t \in Threads : loc[t].q = q /\ pc[t] \in {"cas", "sync", "move", "taketail"}
                              /\ loc[t].op # "iterate"}
FirstOf(q) == IF After(q) # Null THEN After(q)
              ELSE IF Knowing(q) = {} THEN Null
              ELSE LET t == CHOOSE t \in Knowing(q) : TRUE
                   IN  IF pc[t] = "taketail" THEN loc[t].first ELSE loc[t].node
Held(q) == IF tail[q] = q THEN << >> ELSE Chain(FirstOf(q), tail[q])

(* The queues are FIFOs for any number of threads that keep to the table:    *)
(* an operation takes effect at its exchange of the tail, a dequeue that     *)
(* leaves nodes behind at its move of the head, and the answers about        *)
(* emptiness are true at one instant of the call.                            *)
NoCall == [op |-> "none"]
CallOf(t) ==
    IF pc[t] \in {"idle", "link"} THEN NoCall
    ELSE IF pc[t] = "xchg"
         THEN [op |-> "append", to |-> loc[t].to, items |-> Chain(loc[t].first, loc[t].last)]
    ELSE IF loc[t].op = "splice" THEN [op |-> "splice", of |-> loc[t].q, to |-> loc[t].to]
    ELSE [op |-> loc[t].op, of |-> loc[t].q]
Contents == [q \in Queues |-> Held(q)]
Pending  == [t \in Threads |-> CallOf(t)]
F == INSTANCE SpliceFifo WITH queue <- Contents, call <- Pending
ImplementsSpliceFifo == F!FifoSpec

(* No node is in two places, and none gets lost: a dequeued node may be      *)
(* reused at once.                                                           *)
InHand(t) == IF pc[t] = "xchg" THEN Chain(loc[t].first, loc[t].last) ELSE << >>
Places == {<<"queue", q>> : q \in Queues} \cup {<<"hand", t>> : t \in Threads}
At(pl) == IF pl[1] = "queue" THEN Held(pl[2]) ELSE InHand(pl[2])
NodesConserved ==
    \A x \in Nodes :
        Cardinality({c \in Places \X (1 .. Cardinality(Nodes)) :
                        c[2] \in DOMAIN At(c[1]) /\ At(c[1])[c[2]] = x})
        = IF x \in free THEN 0 ELSE 1

(* Every call returns: the enqueuers for which the others wait are never     *)
(* held up (the enqueue is wait-free), whatever else goes on.  Only a splice *)
(* can be overtaken, time and again, by other splices of the same queue.     *)
Overtaken(t) == \E u \in Threads \ {t} :
    loc[t].op = "splice" /\ loc[u].op = "splice" /\ loc[t].q = loc[u].q
CallsReturn == \A t \in Threads : pc[t] # "idle" ~> pc[t] = "idle" \/ Overtaken(t)
=============================================================================
