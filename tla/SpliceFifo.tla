----------------------------- MODULE SpliceFifo -----------------------------
(* What wfc_queue.h promises: unbounded FIFOs to which any thread appends a  *)
(* node, or all the nodes it spliced from another queue, at one instant that *)
(* also decides what "the queue was empty before" means, and from which it   *)
(* takes the oldest node, or all of them, at one instant.                    *)
EXTENDS Integers, Sequences

CONSTANTS Threads, Queues, Nodes, Null

VARIABLES
    queue,   \* queue[q]: the nodes, oldest first
    call,    \* call[t]: what t still has to do
    ans      \* what the last step decided to answer: to whom and what

fifoVars == <<queue, call, ans>>

NoCall == [op |-> "none"]
NoAns  == << >>
Rows   == {"empty", "dequeue", "iterate"}

Calls == [op : {"append"}, items : Seq(Nodes) \ {<< >>}, to : Queues]
         \cup [op : Rows, of : Queues]
         \cup [op : {"splice"}, of : Queues, to : Queues]

FifoInit ==
    /\ queue = [q \in Queues |-> << >>]
    /\ call  = [t \in Threads |-> NoCall]
    /\ ans   = NoAns

Invoke(t) ==
    /\ call[t] = NoCall
    /\ call'[t] \in Calls
    /\ call' = [call EXCEPT ![t] = call'[t]]
    /\ ans' = NoAns
    /\ UNCHANGED queue

Answer(t, a) ==
    /\ call' = [call EXCEPT ![t] = NoCall]
    /\ ans'  = <<t, a>>

(* wfcq_enqueue, and the second half of a splice: was the queue non-empty?   *)
AppendTo(t) ==
    /\ call[t].op = "append"
    /\ queue' = [queue EXCEPT ![call[t].to] = @ \o call[t].items]
    /\ Answer(t, queue[call[t].to] # << >>)

IsEmpty(t) ==
    /\ call[t].op = "empty"
    /\ Answer(t, queue[call[t].of] = << >>)
    /\ UNCHANGED queue

Dequeue(t) ==
    /\ call[t].op = "dequeue"
    /\ LET q == call[t].of
       IN  \/ /\ queue[q] = << >>
              /\ Answer(t, Null)
              /\ UNCHANGED queue
           \/ /\ queue[q] # << >>
              /\ queue' = [queue EXCEPT ![q] = Tail(@)]
              /\ Answer(t, Head(queue[q]))

(* The nodes that a loop over the queue visited are all of them.             *)
Iterate(t) ==
    /\ call[t].op = "iterate"
    /\ Answer(t, queue[call[t].of])
    /\ UNCHANGED queue

Splice(t) ==
    /\ call[t].op = "splice"
    /\ LET q == call[t].of
       IN  \/ /\ queue[q] = << >>
              /\ Answer(t, "SRC_EMPTY")
              /\ UNCHANGED queue
           \/ /\ queue[q] # << >>
              /\ queue' = [queue EXCEPT ![q] = << >>]
              /\ call' = [call EXCEPT ![t] =
                            [op |-> "append", items |-> queue[q], to |-> call[t].to]]
              /\ ans' = NoAns

(* A step inside a call. *)
Work == ans' = NoAns /\ UNCHANGED <<queue, call>>

FifoNext ==
    \/ \E t \in Threads : Invoke(t) \/ AppendTo(t) \/ IsEmpty(t) \/ Dequeue(t)
                                    \/ Iterate(t) \/ Splice(t)
    \/ Work

FifoSpec == FifoInit /\ [][FifoNext]_fifoVars
=============================================================================
