-------------------------------- MODULE Fifo --------------------------------
(* What every queue of this code promises its callers: a bounded FIFO with   *)
(* bulk operations.  A producer offers an array of items, and the queue      *)
(* appends the array, or a prefix of it if the call allows that, at one      *)
(* instant, or refuses it; a consumer asks for a number of items, takes at   *)
(* most so many from the front at one instant, and is later handed exactly   *)
(* these.  alf_queue.h:8-14 and ring_queue.h:95-101 state it: "Bounded by    *)
(* the array size", "FIFO", "Bulk enqueue and dequeue support".              *)
EXTENDS Integers, Sequences

CONSTANTS
    Producers,  \* who offers items
    Consumers,  \* who takes items
    Capacity,   \* items the queue holds at most
    Item        \* what may be queued

VARIABLES
    queue,   \* the items, oldest first
    offer,   \* offer[p]: the items of p's call, and whether only all will do
    ask,     \* ask[c]: how many items c wants, and whether only all will do
    hand     \* hand[c]: items c took and was not handed yet

fifoVars == <<queue, offer, ask, hand>>

NoOffer == [items |-> << >>, whole |-> FALSE]
NoAsk   == [n |-> 0, whole |-> FALSE]

FifoInit ==
    /\ queue = << >>
    /\ offer = [p \in Producers |-> NoOffer]
    /\ ask   = [c \in Consumers |-> NoAsk]
    /\ hand  = [c \in Consumers |-> << >>]

Offer(p) ==
    /\ offer[p] = NoOffer
    /\ offer'[p] \in [items : Seq(Item) \ {<< >>}, whole : BOOLEAN]
    /\ offer' = [offer EXCEPT ![p] = offer'[p]]
    /\ UNCHANGED <<queue, ask, hand>>

(* No other producer's items come between those of a call.                   *)
Admit(p) ==
    /\ \E k \in 1 .. Len(offer[p].items) :
         /\ offer[p].whole => k = Len(offer[p].items)
         /\ Len(queue) + k <= Capacity
         /\ queue' = queue \o SubSeq(offer[p].items, 1, k)
    /\ offer' = [offer EXCEPT ![p] = NoOffer]
    /\ UNCHANGED <<ask, hand>>

Refuse(p) ==
    /\ offer[p] # NoOffer
    /\ offer' = [offer EXCEPT ![p] = NoOffer]
    /\ UNCHANGED <<queue, ask, hand>>

Ask(c) ==
    /\ ask[c] = NoAsk /\ hand[c] = << >>
    /\ ask'[c] \in [n : Nat \ {0}, whole : BOOLEAN]
    /\ ask' = [ask EXCEPT ![c] = ask'[c]]
    /\ UNCHANGED <<queue, offer, hand>>

Take(c) ==
    /\ \E k \in 1 .. Len(queue) :
         /\ k <= ask[c].n
         /\ ask[c].whole => k = ask[c].n
         /\ hand'  = [hand EXCEPT ![c] = SubSeq(queue, 1, k)]
         /\ queue' = SubSeq(queue, k + 1, Len(queue))
    /\ ask' = [ask EXCEPT ![c] = NoAsk]
    /\ UNCHANGED offer

Decline(c) ==
    /\ ask[c] # NoAsk
    /\ ask' = [ask EXCEPT ![c] = NoAsk]
    /\ UNCHANGED <<queue, offer, hand>>

Deliver(c) ==
    /\ hand[c] # << >>
    /\ hand' = [hand EXCEPT ![c] = << >>]
    /\ UNCHANGED <<queue, offer, ask>>

FifoNext ==
    \/ \E p \in Producers : Offer(p) \/ Admit(p) \/ Refuse(p)
    \/ \E c \in Consumers : Ask(c) \/ Take(c) \/ Decline(c) \/ Deliver(c)

FifoSpec == FifoInit /\ [][FifoNext]_fifoVars
=============================================================================
