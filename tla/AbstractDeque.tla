--------------------------- MODULE AbstractDeque ---------------------------
(***************************************************************************)
(* What a carrier's work deque promises to the pool.  Its items (fibers)   *)
(* form a double-ended queue.  Any thread appends at the bottom, only the  *)
(* owning carrier takes from the bottom (LIFO), every other carrier takes  *)
(* from the top (FIFO), and each of these happens in one indivisible step: *)
(* an item is obtained by exactly one thread, and never lost.              *)
(*                                                                         *)
(* WorkDeque implements this specification with loads, stores and          *)
(* compare-and-swaps; CarrierPool uses it as its deque.                    *)
(***************************************************************************)
EXTENDS Integers, Sequences

CONSTANTS Items,      \* the fibers
          Threads,    \* every thread that touches the deque
          Owner,      \* the carrier the deque belongs to
          NoItem      \* the null pointer

VARIABLES queue,      \* the items in the deque, top first
          hand,       \* hand[p]: the item p is pushing or has just taken
          loose       \* the items no thread holds and that are not queued

vars == <<queue, hand, loose>>

Init ==
    /\ queue = <<>>
    /\ hand = [p \in Threads |-> NoItem]
    /\ loose = Items

\* A thread picks up an item it is about to publish.
PickUp(p, x) ==
    /\ hand[p] = NoItem
    /\ x \in loose
    /\ hand' = [hand EXCEPT ![p] = x]
    /\ loose' = loose \ {x}
    /\ UNCHANGED queue

\* The item in p's hand becomes the new bottom.
Append_(p) ==
    /\ hand[p] # NoItem
    /\ queue' = Append(queue, hand[p])
    /\ hand' = [hand EXCEPT ![p] = NoItem]
    /\ UNCHANGED loose

\* The owner takes the newest item.
TakeBottom ==
    /\ queue # <<>>
    /\ hand[Owner] = NoItem
    /\ hand' = [hand EXCEPT ![Owner] = queue[Len(queue)]]
    /\ queue' = SubSeq(queue, 1, Len(queue) - 1)
    /\ UNCHANGED loose

\* A thief takes the oldest item.
TakeTop(p) ==
    /\ p # Owner
    /\ queue # <<>>
    /\ hand[p] = NoItem
    /\ hand' = [hand EXCEPT ![p] = Head(queue)]
    /\ queue' = Tail(queue)
    /\ UNCHANGED loose

\* The item p took leaves p's hand: it ran, and can be published again.
PutDown(p) ==
    /\ hand[p] # NoItem
    /\ loose' = loose \cup {hand[p]}
    /\ hand' = [hand EXCEPT ![p] = NoItem]
    /\ UNCHANGED queue

Next ==
    \/ TakeBottom
    \/ \E p \in Threads :
          \/ \E x \in Items : PickUp(p, x)
          \/ Append_(p)
          \/ TakeTop(p)
          \/ PutDown(p)

Spec == Init /\ [][Next]_vars
=============================================================================
