------------------------------ MODULE PtrFifo ------------------------------
(* What ptr_ring.h:13 promises: a "limited-size FIFO maintaining pointers in *)
(* FIFO order, with one CPU producing entries and another consuming entries  *)
(* from a FIFO", made safe for more CPUs by the two locks.  Every call takes *)
(* effect at one instant between its invocation and its answer, the answer   *)
(* is the truth at that instant, and a resize keeps the oldest pointers.     *)
EXTENDS Integers, Sequences

CONSTANTS
    Producers, Consumers, Resizers,
    Item,    \* the pointers
    Null,    \* the pointer that is none
    Sizes    \* sizes a ring may be given

VARIABLES
    queue,     \* the pointers, oldest first
    capacity,  \* how many it may hold; 0: no ring
    call,      \* call[t]: what t has called and what has not taken effect yet
    ans        \* the answer that the last step gave: who and what

fifoVars == <<queue, capacity, call, ans>>

Threads == Producers \cup Consumers \cup Resizers
NoCall  == [op |-> "none"]
NoAns   == << >>

Calls(t) ==
    (IF t \in Producers THEN [op : {"produce"}, item : Item] \cup [op : {"full"}] ELSE {})
    \cup (IF t \in Consumers THEN [op : {"consume", "peek"}] ELSE {})
    \cup (IF t \in Resizers THEN [op : {"resize"}, size : Sizes] ELSE {})

Prefix(s, n) == IF Len(s) <= n THEN s ELSE SubSeq(s, 1, n)
Oldest == IF queue = << >> THEN Null ELSE Head(queue)

FifoInit ==
    /\ queue = << >>
    /\ capacity \in Sizes
    /\ call = [t \in Threads |-> NoCall]
    /\ ans = NoAns

Invoke(t) ==
    /\ capacity # 0 /\ call[t] = NoCall
    /\ \E c \in Calls(t) : call' = [call EXCEPT ![t] = c]
    /\ ans' = NoAns
    /\ UNCHANGED <<queue, capacity>>

Answer(t, a) ==
    /\ call' = [call EXCEPT ![t] = NoCall]
    /\ ans'  = <<t, a>>

Produce(p) ==
    /\ call[p].op = "produce"
    /\ \/ /\ Len(queue) < capacity
          /\ queue' = Append(queue, call[p].item)
          /\ Answer(p, "ok")
       \/ /\ Len(queue) = capacity
          /\ Answer(p, "ENOSPC")
          /\ UNCHANGED queue
    /\ UNCHANGED capacity

Full(p) ==
    /\ call[p].op = "full"
    /\ Answer(p, IF Len(queue) = capacity THEN "yes" ELSE "no")
    /\ UNCHANGED <<queue, capacity>>

Consume(c) ==
    /\ call[c].op = "consume"
    /\ Answer(c, Oldest)
    /\ queue' = IF queue = << >> THEN queue ELSE Tail(queue)
    /\ UNCHANGED capacity

Peek(c) ==
    /\ call[c].op = "peek"
    /\ Answer(c, Oldest)
    /\ UNCHANGED <<queue, capacity>>

Resize(r) ==
    /\ call[r].op = "resize"
    /\ \/ /\ queue' = Prefix(queue, call[r].size)
          /\ capacity' = call[r].size
          /\ Answer(r, "ok")
       \/ /\ Answer(r, "ENOMEM")
          /\ UNCHANGED <<queue, capacity>>

Cleanup ==
    /\ capacity # 0 /\ \A t \in Threads : call[t] = NoCall
    /\ queue' = << >> /\ capacity' = 0
    /\ ans' = NoAns
    /\ UNCHANGED call

Setup ==
    /\ capacity = 0 /\ capacity' \in Sizes
    /\ ans' = NoAns
    /\ UNCHANGED <<queue, call>>

(* A step inside a call. *)
Work ==
    /\ ans' = NoAns
    /\ UNCHANGED <<queue, capacity, call>>

FifoNext ==
    \/ \E t \in Threads : Invoke(t)
    \/ \E p \in Producers : Produce(p) \/ Full(p)
    \/ \E c \in Consumers : Consume(c) \/ Peek(c)
    \/ \E r \in Resizers : Resize(r)
    \/ Cleanup \/ Setup \/ Work

FifoSpec == FifoInit /\ [][FifoNext]_fifoVars
=============================================================================
