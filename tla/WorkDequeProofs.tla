-------------------------- MODULE WorkDequeProofs --------------------------
(***************************************************************************)
(* For every set of fibers, every set of threads and every capacity, the   *)
(* Chase-Lev deque hands each fiber to exactly one thread and loses none.  *)
(***************************************************************************)
EXTENDS WorkDeque, SequenceTheorems, TLAPS

(***************************************************************************)
(* The inductive invariant.  NoDoubleTake and NoLoss are not inductive by  *)
(* themselves: that a compare-and-swap on top still takes the item read    *)
(* before it rests on how far top and bottom can have moved meanwhile.     *)
(***************************************************************************)

\* deque_mutex covers a push and a pop from their first access to their last.
Locking ==
    /\ \A p \in Threads : pc[p] \in PushPcs \cup PopPcs <=> mutex = p
    /\ \A p \in Threads : pc[p] \in PopPcs => p = Owner
    /\ \A p \in Threads : pc[p] \in StealPcs => p # Owner

\* The local f is set exactly where a thread is pushing or has taken an item.
Locals ==
    \A p \in Threads :
        /\ pc[p] \in PushPcs \cup {"got"} => f[p] \in Items
        /\ pc[p] \in {"idle", "steal_bottom", "steal_slot"} => f[p] = NoItem
        /\ pc[p] \in PopPcs \ {"pop_fix"} => f[p] = NoItem

Indices ==
    /\ top <= Last
    /\ Last - top <= Cap
    /\ Last <= MaxSeq

Pushing ==
    \A p \in Threads :
        /\ pc[p] \in PushPcs => b[p] = bottom /\ bottom < MaxSeq
        /\ pc[p] \in {"push_slot", "push_publish"} => bottom - top < Cap
        /\ pc[p] = "push_publish" => slots[bottom % Cap] = f[p]

\* What the owner knows of top at each point of pop_bottom.
Popping ==
    /\ pc[Owner] \in PopPcs => b[Owner] = bottom
    /\ pc[Owner] = "pop_restore" => t[Owner] = bottom + 1 /\ top = bottom + 1
    /\ pc[Owner] = "pop_take" => top <= bottom
    /\ pc[Owner] = "pop_cas" => t[Owner] = bottom /\ bottom <= top
    /\ pc[Owner] = "pop_fix" => t[Owner] = bottom /\ top = bottom + 1

\* A thief whose compare-and-swap can still succeed has the item at top, and
\* the owner that took an item without a race is beyond the reach of thieves.
Stealing ==
    \A p \in Threads :
        /\ pc[p] \in StealPcs => t[p] <= top
        /\ pc[p] \in {"steal_slot", "steal_cas"} =>
              /\ t[p] < Last
              /\ pc[Owner] = "pop_take" => t[p] < bottom
        /\ pc[p] = "steal_cas" /\ t[p] = top => f[p] = slots[top % Cap]

IndInv ==
    /\ TypeOK
    /\ Locking
    /\ Locals
    /\ Indices
    /\ Pushing
    /\ Popping
    /\ Stealing
    /\ NoDoubleTake
    /\ NoLoss

-----------------------------------------------------------------------------
(* Slot arithmetic.                                                        *)

\* A slot index is one of the Cap slots of the circular array.
LEMMA SlotRange ==
    ASSUME NEW c \in Nat \ {0}, NEW i \in Nat
    PROVE  i % c \in 0..(c - 1)
  OBVIOUS

\* Two sequence numbers less than Cap apart never share a slot, which is what
\* push_bottom's overflow check buys: a push cannot overwrite a queued fiber.
LEMMA SlotsDistinct ==
    ASSUME NEW c \in Nat \ {0}, NEW i \in Nat, NEW j \in Nat,
           i < j, j < i + c
    PROVE  i % c # j % c
  <1> SUFFICES ASSUME i % c = j % c PROVE FALSE
    OBVIOUS
  <1> DEFINE qi == i \div c
             qj == j \div c
  <1>1. i = c * qi + (i % c) /\ qi \in Nat
    OBVIOUS
  <1>2. j = c * qj + (j % c) /\ qj \in Nat
    OBVIOUS
  <1>3. i % c \in Int
    BY SlotRange
  <1> HIDE DEF qi, qj
  <1>4. j - i = c * qj - c * qi
    BY <1>1, <1>2, <1>3
  <1>5. qj > qi
    <2> SUFFICES ASSUME qj <= qi PROVE FALSE
      BY <1>1, <1>2
    <2>1. c * qj <= c * qi
      BY <1>1, <1>2
    <2> QED
      BY <2>1, <1>1, <1>2, <1>4
  <1>6. c * (qj - qi) >= c
    BY <1>1, <1>2, <1>5
  <1>7. c * (qj - qi) = c * qj - c * qi
    BY <1>1, <1>2
  <1> QED
    BY <1>1, <1>2, <1>4, <1>6, <1>7

\* The pairs of distinct sequence numbers a window can hold have distinct slots.
LEMMA WindowSlots ==
    ASSUME IndInv, NEW i \in top..Last, NEW j \in top..Last,
           i % Cap = j % Cap, Last - top < Cap
    PROVE  i = j
  <1>1. top \in Nat /\ Last \in Int /\ Cap \in Nat \ {0}
    BY DequeAssumption DEF IndInv, TypeOK, Last
  <1>2. i \in Nat /\ j \in Nat /\ i < j + Cap /\ j < i + Cap
    BY <1>1
  <1>3. CASE i < j
    <2>1. i % Cap # j % Cap
      BY <1>1, <1>2, <1>3, SlotsDistinct
    <2> QED
      BY <2>1
  <1>4. CASE j < i
    <2>1. j % Cap # i % Cap
      BY <1>1, <1>2, <1>4, SlotsDistinct
    <2> QED
      BY <2>1
  <1> QED
    BY <1>2, <1>3, <1>4

-----------------------------------------------------------------------------
(* A step that moves no item between the queue, the hands and the rest.    *)

\* Steps that only read, lock or unlock keep every item where it is.
LEMMA Quiet ==
    ASSUME NoDoubleTake, NoLoss,
           Last' = Last, top' = top, slots' = slots, loose' = loose,
           \A p \in Threads : Hand(p)' = Hand(p)
    PROVE  NoDoubleTake' /\ NoLoss'
  <1>1. Window' = Window /\ Queued' = Queued
    BY DEF Window, Queued
  <1> QED
    BY <1>1 DEF NoDoubleTake, NoLoss

-----------------------------------------------------------------------------
(* Each step keeps the invariant.                                          *)

\* Taking deque_mutex to push moves the item from loose into a hand.
LEMMA PushLockInv ==
    ASSUME IndInv, NEW p \in Threads, NEW x \in Items, PushLock(p, x)
    PROVE  IndInv'
  <1> USE DequeAssumption DEF IndInv, PushPcs, PopPcs, StealPcs
  <1>1. TypeOK'
    BY DEF TypeOK, PushLock, Goto
  <1>2. Last' = Last
    BY DEF TypeOK, Last, PushLock, Goto, Locking
  <1>3. Locking' /\ Locals'
    BY DEF TypeOK, PushLock, Goto, Locking, Locals
  <1>4. Indices' /\ Pushing' /\ Popping' /\ Stealing'
    BY <1>2 DEF TypeOK, PushLock, Goto, Locking, Indices, Pushing, Popping, Stealing
  <1>5. NoDoubleTake' /\ NoLoss'
    <2>1. Window' = Window /\ Queued' = Queued
      BY <1>2 DEF Window, Queued, PushLock
    <2>2. /\ Hand(p) = NoItem /\ Hand(p)' = x
          /\ \A q \in Threads \ {p} : Hand(q)' = Hand(q)
      BY DEF Hand, PushLock, Goto, TypeOK, Locals
    <2> QED
      BY <2>1, <2>2 DEF NoDoubleTake, NoLoss, PushLock
  <1> QED
    BY <1>1, <1>3, <1>4, <1>5

\* A push that goes on has room: the slots between top and bottom are fewer than Cap.
LEMMA PushTopInv ==
    ASSUME IndInv, NEW p \in Threads, PushTop(p)
    PROVE  IndInv'
  <1> USE DequeAssumption DEF IndInv, PushPcs, PopPcs, StealPcs
  <1>1. TypeOK'
    BY DEF TypeOK, PushTop, Goto, Leave
  <1>2. Last' = Last
    BY DEF TypeOK, Last, PushTop, Goto, Leave, Locking, Popping
  <1>3. Locking' /\ Locals'
    <2>1. Locking'
      BY DEF TypeOK, PushTop, Goto, Leave, Locking, Locals
    <2>2. Locals'
      BY DEF TypeOK, PushTop, Goto, Leave, Locking, Locals
    <2> QED BY <2>1, <2>2
  <1>4. Indices' /\ Pushing' /\ Popping' /\ Stealing'
    BY <1>2 DEF TypeOK, PushTop, Goto, Leave, Locking, Locals, Indices, Pushing,
                Popping, Stealing, Last
  <1>5. NoDoubleTake' /\ NoLoss'
    <2>1. \A q \in Threads : Hand(q)' = Hand(q)
      BY DEF Hand, PushTop, Goto, Leave, TypeOK, Locals
    <2> QED
      BY <1>2, <2>1, Quiet DEF PushTop
  <1> QED
    BY <1>1, <1>3, <1>4, <1>5

\* Lowering bottom leaves the queue as it is while the owner is inside pop_bottom.
LEMMA PopLockInv ==
    ASSUME IndInv, PopLock
    PROVE  IndInv'
  <1> USE DequeAssumption DEF IndInv, PushPcs, PopPcs, StealPcs
  <1>1. TypeOK'
    BY DEF TypeOK, PopLock, Goto, Leave, Locking, Indices, Last
  <1>2. Last' = Last
    BY DEF TypeOK, Last, PopLock, Goto, Leave, Locking, Popping
  <1>3. Locking' /\ Locals'
    BY DEF TypeOK, PopLock, Goto, Leave, Locking, Locals
  <1>4. Indices' /\ Pushing' /\ Popping' /\ Stealing'
    BY <1>2 DEF TypeOK, PopLock, Goto, Leave, Locking, Locals, Indices, Pushing,
                Popping, Stealing, Last
  <1>5. NoDoubleTake' /\ NoLoss'
    <2>1. \A q \in Threads : Hand(q)' = Hand(q)
      BY DEF Hand, PopLock, Goto, Leave, TypeOK, Locals
    <2> QED
      BY <1>2, <2>1, Quiet DEF PopLock
  <1> QED
    BY <1>1, <1>3, <1>4, <1>5

\* What pop_bottom concludes from top it may still rely on later.
LEMMA PopTopInv ==
    ASSUME IndInv, PopTop
    PROVE  IndInv'
  <1> USE DequeAssumption DEF IndInv, PushPcs, PopPcs, StealPcs
  <1>1. TypeOK'
    BY DEF TypeOK, PopTop, Goto, Leave
  <1>2. Last' = Last
    BY DEF TypeOK, Last, PopTop, Goto, Leave, Locking, Popping
  <1>3. Locking' /\ Locals'
    BY DEF TypeOK, PopTop, Goto, Leave, Locking, Locals
  <1>4. Indices' /\ Pushing' /\ Popping' /\ Stealing'
    BY <1>2 DEF TypeOK, PopTop, Goto, Leave, Locking, Locals, Indices, Pushing,
                Popping, Stealing, Last
  <1>5. NoDoubleTake' /\ NoLoss'
    <2>1. \A q \in Threads : Hand(q)' = Hand(q)
      BY DEF Hand, PopTop, Goto, Leave, TypeOK, Locals
    <2> QED
      BY <1>2, <2>1, Quiet DEF PopTop
  <1> QED
    BY <1>1, <1>3, <1>4, <1>5

\* An empty pop puts bottom back where it was.
LEMMA PopRestoreInv ==
    ASSUME IndInv, PopRestore
    PROVE  IndInv'
  <1> USE DequeAssumption DEF IndInv, PushPcs, PopPcs, StealPcs
  <1>1. TypeOK'
    BY DEF TypeOK, PopRestore, Goto, Leave
  <1>2. Last' = Last
    BY DEF TypeOK, Last, PopRestore, Goto, Leave, Locking, Popping
  <1>3. Locking' /\ Locals'
    BY DEF TypeOK, PopRestore, Goto, Leave, Locking, Locals
  <1>4. Indices' /\ Pushing' /\ Popping' /\ Stealing'
    BY <1>2 DEF TypeOK, PopRestore, Goto, Leave, Locking, Locals, Indices, Pushing,
                Popping, Stealing, Last
  <1>5. NoDoubleTake' /\ NoLoss'
    <2>1. \A q \in Threads : Hand(q)' = Hand(q)
      BY DEF Hand, PopRestore, Goto, Leave, TypeOK, Locals
    <2> QED
      BY <1>2, <2>1, Quiet DEF PopRestore
  <1> QED
    BY <1>1, <1>3, <1>4, <1>5

\* After the race for the last item the deque is empty.
LEMMA PopFixInv ==
    ASSUME IndInv, PopFix
    PROVE  IndInv'
  <1> USE DequeAssumption DEF IndInv, PushPcs, PopPcs, StealPcs
  <1>1. TypeOK'
    BY DEF TypeOK, PopFix, Goto, Leave, Indices, Popping, Last
  <1>2. Last' = Last
    BY DEF TypeOK, Last, PopFix, Goto, Leave, Locking, Popping
  <1>3. Locking' /\ Locals'
    BY DEF TypeOK, PopFix, Goto, Leave, Locking, Locals
  <1>4. Indices' /\ Pushing' /\ Popping' /\ Stealing'
    BY <1>2 DEF TypeOK, PopFix, Goto, Leave, Locking, Locals, Indices, Pushing,
                Popping, Stealing, Last
  <1>5. NoDoubleTake' /\ NoLoss'
    <2>1. \A q \in Threads : Hand(q)' = Hand(q)
      BY DEF Hand, PopFix, Goto, Leave, TypeOK, Locals
    <2> QED
      BY <1>2, <2>1, Quiet DEF PopFix
  <1> QED
    BY <1>1, <1>3, <1>4, <1>5

\* A thief's first load disturbs nothing.
LEMMA StealTopInv ==
    ASSUME IndInv, NEW p \in Threads, StealTop(p)
    PROVE  IndInv'
  <1> USE DequeAssumption DEF IndInv, PushPcs, PopPcs, StealPcs
  <1>1. TypeOK'
    BY DEF TypeOK, StealTop, Goto, Leave
  <1>2. Last' = Last
    BY DEF TypeOK, Last, StealTop, Goto, Leave, Locking, Popping
  <1>3. Locking' /\ Locals'
    BY DEF TypeOK, StealTop, Goto, Leave, Locking, Locals
  <1>4. Indices' /\ Pushing' /\ Popping' /\ Stealing'
    BY <1>2 DEF TypeOK, StealTop, Goto, Leave, Locking, Locals, Indices, Pushing,
                Popping, Stealing, Last
  <1>5. NoDoubleTake' /\ NoLoss'
    <2>1. \A q \in Threads : Hand(q)' = Hand(q)
      BY DEF Hand, StealTop, Goto, Leave, TypeOK, Locals
    <2> QED
      BY <1>2, <2>1, Quiet DEF StealTop
  <1> QED
    BY <1>1, <1>3, <1>4, <1>5

\* A thief goes on only if it saw an item below bottom.
LEMMA StealBottomInv ==
    ASSUME IndInv, NEW p \in Threads, StealBottom(p)
    PROVE  IndInv'
  <1> USE DequeAssumption DEF IndInv, PushPcs, PopPcs, StealPcs
  <1>1. /\ p # Owner /\ mutex # p /\ pc[p] = "steal_bottom" /\ f[p] = NoItem
        /\ UNCHANGED <<top, bottom, slots, mutex, f, loose, aborted>>
    BY DEF StealBottom, Locking, Locals
  <1>2. CASE t[p] >= bottom
    <2>1. /\ pc' = [pc EXCEPT ![p] = "idle"]
          /\ b' = [b EXCEPT ![p] = 0]
          /\ t' = [t EXCEPT ![p] = 0]
      BY <1>2 DEF StealBottom, Goto, Leave
    <2>2. TypeOK' /\ Last' = Last
      BY <1>1, <2>1 DEF TypeOK, Last
    <2>3. Locking' /\ Locals'
      BY <1>1, <2>1 DEF TypeOK, Locking, Locals
    <2>4. Indices' /\ Pushing' /\ Popping' /\ Stealing'
      BY <1>1, <2>1, <2>2 DEF TypeOK, Indices, Pushing, Popping, Stealing
    <2>5. \A q \in Threads : Hand(q)' = Hand(q)
      BY <1>1, <2>1 DEF Hand, TypeOK
    <2> QED
      BY <1>1, <2>2, <2>3, <2>4, <2>5, Quiet
  <1>3. CASE t[p] < bottom
    <2>1. pc' = [pc EXCEPT ![p] = "steal_slot"] /\ b' = b /\ t' = t
      BY <1>3 DEF StealBottom, Goto, TypeOK
    <2>2. TypeOK' /\ Last' = Last
      BY <1>1, <2>1 DEF TypeOK, Last
    <2>3. Locking' /\ Locals'
      BY <1>1, <2>1 DEF TypeOK, Locking, Locals
    <2>4. Indices' /\ Pushing' /\ Popping'
      BY <1>1, <2>1, <2>2 DEF TypeOK, Indices, Pushing, Popping
    <2>5. Stealing'
      <3>1. t[p] < Last /\ t[p] <= top
        BY <1>1, <1>3 DEF TypeOK, Last, Stealing
      <3> QED
        BY <1>1, <1>3, <2>1, <2>2, <3>1 DEF TypeOK, Stealing
    <2>6. \A q \in Threads : Hand(q)' = Hand(q)
      BY <1>1, <2>1 DEF Hand, TypeOK
    <2> QED
      BY <1>1, <2>2, <2>3, <2>4, <2>5, <2>6, Quiet
  <1>4. t[p] >= bottom \/ t[p] < bottom
    <2>1. t[p] \in Int /\ bottom \in Int
      BY DEF TypeOK
    <2> QED
      BY <2>1
  <1> QED
    BY <1>2, <1>3, <1>4

\* A thief reads the slot before it owns it.
LEMMA StealSlotInv ==
    ASSUME IndInv, NEW p \in Threads, StealSlot(p)
    PROVE  IndInv'
  <1> USE DequeAssumption DEF IndInv, PushPcs, PopPcs, StealPcs
  <1>1. TypeOK'
    BY DEF TypeOK, StealSlot, Goto, Leave
  <1>2. Last' = Last
    BY DEF TypeOK, Last, StealSlot, Goto, Leave, Locking, Popping
  <1>3. Locking' /\ Locals'
    BY DEF TypeOK, StealSlot, Goto, Leave, Locking, Locals
  <1>4. Indices' /\ Pushing' /\ Popping' /\ Stealing'
    <2>1. Indices'
      BY <1>2 DEF TypeOK, StealSlot, Goto, Leave, Locking, Locals, Indices, Pushing,
                  Popping, Stealing, Last
    <2>2. Pushing'
      BY <1>2 DEF TypeOK, StealSlot, Goto, Leave, Locking, Locals, Indices, Pushing,
                  Popping, Stealing, Last
    <2>3. Popping'
      BY <1>2 DEF TypeOK, StealSlot, Goto, Leave, Locking, Locals, Indices, Pushing,
                  Popping, Stealing, Last
    <2>4. Stealing'
      BY <1>2 DEF TypeOK, StealSlot, Goto, Leave, Locking, Locals, Indices, Pushing,
                  Popping, Stealing, Last
    <2> QED BY <2>1, <2>2, <2>3, <2>4
  <1>5. NoDoubleTake' /\ NoLoss'
    <2>1. \A q \in Threads : Hand(q)' = Hand(q)
      BY DEF Hand, StealSlot, Goto, Leave, TypeOK, Locals
    <2> QED
      BY <1>2, <2>1, Quiet DEF StealSlot
  <1> QED
    BY <1>1, <1>3, <1>4, <1>5
\* Handing an item on returns it to the loose ones.
LEMMA ReleaseInv ==
    ASSUME IndInv, NEW p \in Threads, Release(p)
    PROVE  IndInv'
  <1> USE DequeAssumption DEF IndInv, PushPcs, PopPcs, StealPcs
  <1>1. TypeOK'
    BY DEF TypeOK, Release, Goto, Locals
  <1>2. Last' = Last
    BY DEF TypeOK, Last, Release, Goto
  <1>3. Locking' /\ Locals'
    BY DEF TypeOK, Release, Goto, Locking, Locals
  <1>4. Indices' /\ Pushing' /\ Popping' /\ Stealing'
    BY <1>2 DEF TypeOK, Release, Goto, Locking, Indices, Pushing, Popping, Stealing
  <1>5. NoDoubleTake' /\ NoLoss'
    <2>1. Window' = Window /\ Queued' = Queued
      BY <1>2 DEF Window, Queued, Release
    <2>2. /\ Hand(p) = f[p] /\ f[p] \in Items /\ Hand(p)' = NoItem
          /\ \A q \in Threads \ {p} : Hand(q)' = Hand(q)
      BY DEF Hand, Release, Goto, TypeOK, Locals
    <2>3. loose' = loose \cup {f[p]} /\ slots' = slots /\ loose \subseteq Items
      BY DEF Release, TypeOK
    <2>4. NoDoubleTake'
      BY <2>1, <2>2, <2>3 DEF NoDoubleTake
    <2>5. NoLoss'
      BY <2>1, <2>2, <2>3 DEF NoLoss
    <2> QED
      BY <2>4, <2>5
  <1> QED
    BY <1>1, <1>3, <1>4, <1>5

\* The slot a push writes is outside the queue, and is not the one that a
\* thief with a chance of winning has read.
LEMMA PushSlotInv ==
    ASSUME IndInv, NEW p \in Threads, PushSlot(p)
    PROVE  IndInv'
  <1> USE DequeAssumption DEF IndInv, PushPcs, PopPcs, StealPcs
  <1>1. /\ pc[Owner] \notin PopPcs /\ Last = bottom /\ Last' = bottom
        /\ b[p] = bottom /\ bottom \in Nat /\ top \in Nat
        /\ top <= bottom /\ bottom - top < Cap
    BY DEF TypeOK, Last, PushSlot, Goto, Locking, Pushing, Indices
  <1>2. bottom % Cap \in 0..(Cap - 1)
    BY <1>1, SlotRange
  <1>3. \A i \in Window : i % Cap # bottom % Cap
    <2> TAKE i \in Window
    <2>1. i \in top..Last /\ bottom \in top..Last /\ i # bottom
      BY <1>1 DEF Window
    <2> QED
      BY <1>1, <2>1, WindowSlots
  <1>4. \A i \in Window : i % Cap \in 0..(Cap - 1)
    <2> TAKE i \in Window
    <2>1. i \in Nat
      BY <1>1 DEF Window
    <2> QED
      BY <2>1, SlotRange
  <1>5. \A i \in Window : slots'[i % Cap] = slots[i % Cap]
    BY <1>1, <1>2, <1>3, <1>4 DEF PushSlot, TypeOK
  <1>6. Window' = Window /\ Queued' = Queued
    <2>1. Window' = Window
      BY <1>1 DEF Window, PushSlot
    <2> QED
      BY <2>1, <1>5 DEF Queued
  <1>7. TypeOK'
    BY <1>1, <1>2 DEF TypeOK, PushSlot, Goto
  <1>8. Locking' /\ Locals'
    BY DEF TypeOK, PushSlot, Goto, Locking, Locals
  <1>9. Indices' /\ Popping'
    BY <1>1 DEF TypeOK, PushSlot, Goto, Locking, Indices, Popping
  <1>10. Pushing'
    <2>1. slots'[bottom % Cap] = f[p]
      BY <1>1, <1>2 DEF PushSlot, TypeOK
    <2> QED
      BY <1>1, <2>1 DEF TypeOK, PushSlot, Goto, Locking, Pushing
  <1>11. Stealing'
    <2> SUFFICES ASSUME NEW q \in Threads
                 PROVE /\ pc'[q] \in StealPcs => t'[q] <= top'
                       /\ pc'[q] \in {"steal_slot", "steal_cas"} =>
                             /\ t'[q] < Last'
                             /\ pc'[Owner] = "pop_take" => t'[q] < bottom'
                       /\ pc'[q] = "steal_cas" /\ t'[q] = top' =>
                             f'[q] = slots'[top' % Cap]
      BY DEF Stealing
    <2>1. pc[q] = "steal_cas" /\ t[q] = top => top \in Window
      BY <1>1 DEF Stealing, Window, TypeOK
    <2> QED
      BY <1>1, <1>5, <2>1 DEF TypeOK, PushSlot, Goto, Stealing
  <1>12. NoDoubleTake' /\ NoLoss'
    <2>1. \A q \in Threads : Hand(q)' = Hand(q)
      BY DEF Hand, PushSlot, Goto, TypeOK
    <2> QED
      BY <1>5, <1>6, <2>1 DEF NoDoubleTake, NoLoss, PushSlot
  <1> QED
    BY <1>7, <1>8, <1>9, <1>10, <1>11, <1>12
\* Publishing makes the pushed fiber the newest one of the queue.
LEMMA PushPublishInv ==
    ASSUME IndInv, NEW p \in Threads, PushPublish(p)
    PROVE  IndInv'
  <1> USE DequeAssumption DEF IndInv, PushPcs, PopPcs, StealPcs
  <1>1. /\ pc[Owner] \notin PopPcs /\ Last = bottom /\ Last' = bottom + 1
        /\ b[p] = bottom /\ bottom \in Nat /\ top \in Nat /\ bottom < MaxSeq
        /\ top <= bottom /\ bottom - top < Cap
    BY DEF TypeOK, Last, PushPublish, Goto, Leave, Locking, Pushing, Indices
  <1>2. /\ UNCHANGED <<top, slots, loose, aborted>>
        /\ bottom' = bottom + 1
        /\ mutex' = NoThread
        /\ f' = [f EXCEPT ![p] = NoItem]
        /\ pc' = [pc EXCEPT ![p] = "idle"]
        /\ b' = [b EXCEPT ![p] = 0]
        /\ t' = [t EXCEPT ![p] = 0]
        /\ pc[p] = "push_publish"
        /\ f[p] \in Items
        /\ slots[bottom % Cap] = f[p]
        /\ loose \subseteq Items
    BY <1>1 DEF PushPublish, Goto, Leave, Pushing, Locals, TypeOK
  <1>3. TypeOK'
    BY <1>1, <1>2 DEF TypeOK
  <1>4. Locking' /\ Locals'
    BY <1>2 DEF TypeOK, Locking, Locals
  <1>5. Indices' /\ Pushing' /\ Popping'
    BY <1>1, <1>2 DEF TypeOK, Locking, Indices, Pushing, Popping
  <1>6. Stealing'
    BY <1>1, <1>2 DEF TypeOK, Stealing
  <1>7. Window' = Window \cup {bottom}
    BY <1>1, <1>2 DEF Window
  <1>8. Queued' = Queued \cup {f[p]}
    BY <1>2, <1>7 DEF Queued
  <1>9. /\ Hand(p) = f[p] /\ Hand(p)' = NoItem
        /\ \A q \in Threads \ {p} : Hand(q)' = Hand(q)
    BY <1>2 DEF Hand, TypeOK
  <1>10. NoDoubleTake'
    <2>1. \A i \in Window : slots[i % Cap] # f[p]
      BY <1>2, <1>9 DEF NoDoubleTake, Queued
    <2>2. \A i, j \in Window' : slots'[i % Cap] = slots'[j % Cap] => i = j
      BY <1>2, <1>7, <2>1 DEF NoDoubleTake
    <2> QED
      BY <1>2, <1>8, <1>9, <2>2 DEF NoDoubleTake
  <1>11. NoLoss'
    BY <1>2, <1>8, <1>9 DEF NoLoss
  <1> QED
    BY <1>3, <1>4, <1>5, <1>6, <1>10, <1>11

\* Without a race, the owner takes the newest fiber of the queue.
LEMMA PopTakeInv ==
    ASSUME IndInv, PopTake
    PROVE  IndInv'
  <1> USE DequeAssumption DEF IndInv, PushPcs, PopPcs, StealPcs
  <1> DEFINE x == slots[bottom % Cap]
  <1>1. /\ Last = bottom + 1 /\ Last' = bottom
        /\ b[Owner] = bottom /\ bottom \in Nat /\ top \in Nat
        /\ top <= bottom
    BY DEF TypeOK, Last, PopTake, Goto, Leave, Locking, Popping, Indices
  <1>2. /\ UNCHANGED <<top, bottom, slots, loose, aborted>>
        /\ mutex = Owner /\ mutex' = NoThread
        /\ f' = [f EXCEPT ![Owner] = x]
        /\ pc' = [pc EXCEPT ![Owner] = "got"]
        /\ b' = [b EXCEPT ![Owner] = 0]
        /\ t' = [t EXCEPT ![Owner] = 0]
        /\ pc[Owner] = "pop_take"
        /\ f[Owner] = NoItem
    BY <1>1 DEF PopTake, Goto, Leave, Locals, Locking
  <1>3. Window = Window' \cup {bottom} /\ bottom \notin Window'
    BY <1>1, <1>2 DEF Window
  <1>4. x \in Queued /\ x \in Items
    BY <1>3 DEF Queued, NoDoubleTake
  <1>5. Queued = Queued' \cup {x}
    BY <1>2, <1>3 DEF Queued
  <1>6. x \notin Queued'
    BY <1>2, <1>3 DEF NoDoubleTake, Queued
  <1> HIDE DEF x
  <1>7. TypeOK'
    BY <1>2, <1>4 DEF TypeOK
  <1>8. Locking' /\ Locals'
    BY <1>2, <1>4 DEF TypeOK, Locking, Locals
  <1>9. Indices' /\ Pushing' /\ Popping' /\ Stealing'
    BY <1>1, <1>2 DEF TypeOK, Locking, Indices, Pushing, Popping, Stealing
  <1>10. /\ Hand(Owner) = NoItem /\ Hand(Owner)' = x
         /\ \A q \in Threads \ {Owner} : Hand(q)' = Hand(q)
    BY <1>2 DEF Hand, TypeOK
  <1>11. NoDoubleTake'
    <2>1. \A i, j \in Window' : slots'[i % Cap] = slots'[j % Cap] => i = j
      BY <1>2, <1>3 DEF NoDoubleTake
    <2> QED
      BY <1>2, <1>4, <1>5, <1>6, <1>10, <2>1 DEF NoDoubleTake
  <1>12. NoLoss'
    BY <1>2, <1>5, <1>10 DEF NoLoss
  <1> QED
    BY <1>7, <1>8, <1>9, <1>11, <1>12
\* Whoever moves top with its compare-and-swap, owner or thief, takes the
\* oldest fiber of the queue.
LEMMA TakeTopInv ==
    ASSUME IndInv, NEW p \in Threads,
           top < Last, top' = top + 1, Last' = Last,
           slots' = slots, loose' = loose,
           Hand(p) = NoItem, Hand(p)' = slots[top % Cap],
           \A q \in Threads \ {p} : Hand(q)' = Hand(q)
    PROVE  NoDoubleTake' /\ NoLoss' /\ slots[top % Cap] \in Items
  <1> USE DEF IndInv
  <1> DEFINE x == slots[top % Cap]
  <1>1. top \in Nat /\ Last \in Int
    BY DEF TypeOK, Last
  <1>2. Window = Window' \cup {top} /\ top \notin Window'
    BY <1>1 DEF Window
  <1>3. x \in Queued /\ x \in Items
    BY <1>2 DEF Queued, NoDoubleTake
  <1>4. Queued = Queued' \cup {x}
    BY <1>2 DEF Queued
  <1>5. x \notin Queued'
    BY <1>2 DEF NoDoubleTake, Queued
  <1>6. \A i, j \in Window' : slots'[i % Cap] = slots'[j % Cap] => i = j
    BY <1>2 DEF NoDoubleTake
  <1> HIDE DEF x
  <1>7. Hand(p)' = x
    BY DEF x
  <1>8. NoDoubleTake'
    BY <1>3, <1>4, <1>5, <1>6, <1>7 DEF NoDoubleTake
  <1>9. NoLoss'
    BY <1>4, <1>7, DequeAssumption DEF NoLoss
  <1> QED
    BY <1>3, <1>8, <1>9 DEF x

\* The owner wins the last item exactly when top has not moved.
LEMMA PopCasInv ==
    ASSUME IndInv, PopCas
    PROVE  IndInv'
  <1> USE DequeAssumption DEF IndInv, PushPcs, PopPcs, StealPcs
  <1>1. /\ pc[Owner] = "pop_cas" /\ pc' = [pc EXCEPT ![Owner] = "pop_fix"]
        /\ Last = bottom + 1 /\ Last' = bottom + 1
        /\ b[Owner] = bottom /\ t[Owner] = bottom /\ bottom \in Nat
        /\ top \in Nat /\ bottom <= top /\ top <= bottom + 1 /\ f[Owner] = NoItem
        /\ UNCHANGED <<bottom, slots, mutex, b, t, loose, aborted>>
    BY DEF TypeOK, Last, PopCas, Goto, Popping, Indices, Locals
  <1>2. CASE top = bottom
    <2>1. top' = bottom + 1 /\ f' = [f EXCEPT ![Owner] = slots[top % Cap]]
      BY <1>1, <1>2 DEF PopCas
    <2>2. NoDoubleTake' /\ NoLoss' /\ slots[top % Cap] \in Items
      <3>1. /\ Hand(Owner) = NoItem /\ Hand(Owner)' = slots[top % Cap]
            /\ \A q \in Threads \ {Owner} : Hand(q)' = Hand(q)
        BY <1>1, <2>1 DEF Hand, TypeOK
      <3> QED
        BY <1>1, <1>2, <2>1, <3>1, TakeTopInv
    <2>3. TypeOK'
      BY <1>1, <2>1, <2>2 DEF TypeOK, Indices
    <2>4. Locking' /\ Locals'
      BY <1>1, <2>1, <2>2 DEF TypeOK, Locking, Locals
    <2>5. Indices' /\ Pushing' /\ Popping'
      BY <1>1, <1>2, <2>1 DEF TypeOK, Locking, Indices, Pushing, Popping
    <2>6. Stealing'
      BY <1>1, <1>2, <2>1 DEF TypeOK, Stealing, Locking
    <2> QED
      BY <2>2, <2>3, <2>4, <2>5, <2>6
  <1>3. CASE top = bottom + 1
    <2>1. top' = top /\ f' = f
      BY <1>1, <1>3 DEF PopCas
    <2>2. TypeOK'
      BY <1>1, <2>1 DEF TypeOK
    <2>3. Locking' /\ Locals'
      BY <1>1, <2>1 DEF TypeOK, Locking, Locals
    <2>4. Indices' /\ Pushing' /\ Popping' /\ Stealing'
      BY <1>1, <1>3, <2>1 DEF TypeOK, Locking, Indices, Pushing, Popping, Stealing
    <2>5. \A q \in Threads : Hand(q)' = Hand(q)
      BY <1>1, <2>1 DEF Hand, TypeOK
    <2> QED
      BY <1>1, <2>1, <2>2, <2>3, <2>4, <2>5, Quiet
  <1> QED
    BY <1>1, <1>2, <1>3

\* A thief whose compare-and-swap succeeds takes the item at top.
LEMMA StealCasInv ==
    ASSUME IndInv, NEW p \in Threads, StealCas(p)
    PROVE  IndInv'
  <1> USE DequeAssumption DEF IndInv, PushPcs, PopPcs, StealPcs
  <1>1. /\ p # Owner /\ mutex # p /\ pc[p] = "steal_cas"
        /\ UNCHANGED <<bottom, slots, mutex, loose, aborted>>
        /\ b' = [b EXCEPT ![p] = 0]
        /\ t' = [t EXCEPT ![p] = 0]
        /\ t[p] < Last /\ t[p] \in Nat /\ top \in Nat /\ Last \in Int
    BY DEF StealCas, Leave, Goto, Locking, TypeOK, Stealing, Last
  <1>2. CASE top = t[p]
    <2>1. top' = top + 1 /\ pc' = [pc EXCEPT ![p] = "got"] /\ f' = f
      BY <1>1, <1>2 DEF StealCas, Leave, Goto
    <2>2. f[p] = slots[top % Cap] /\ Last' = Last
      BY <1>1, <1>2, <2>1 DEF Stealing, Last, TypeOK
    <2>3. NoDoubleTake' /\ NoLoss' /\ slots[top % Cap] \in Items
      <3>1. /\ Hand(p) = NoItem /\ Hand(p)' = slots[top % Cap]
            /\ \A q \in Threads \ {p} : Hand(q)' = Hand(q)
        BY <1>1, <2>1, <2>2 DEF Hand, TypeOK
      <3> QED
        BY <1>1, <1>2, <2>1, <2>2, <3>1, TakeTopInv
    <2>4. TypeOK'
      BY <1>1, <1>2, <2>1 DEF TypeOK, Indices
    <2>5. Locking' /\ Locals'
      BY <1>1, <2>1, <2>2, <2>3 DEF TypeOK, Locking, Locals
    <2>6. Indices' /\ Pushing'
      <3>1. Indices'
        <4>1. Indices'
          BY <1>1, <1>2, <2>1, <2>2 DEF TypeOK, Indices
        <4> QED BY <4>1
      <3>2. \A q \in Threads \ {p} : /\ pc'[q] = pc[q] /\ b'[q] = b[q]
                                     /\ pc'[p] = "got"
        BY <1>1, <2>1 DEF TypeOK
      <3>3. top' = top + 1 /\ bottom' = bottom /\ bottom \in Int
        BY <1>1, <2>1 DEF TypeOK
      <3> QED
        BY <1>1, <2>1, <3>1, <3>2, <3>3 DEF Pushing
    <2>7. Popping'
      <3>1. pc[Owner] \in {"pop_restore", "pop_fix"} => FALSE
        BY <1>1, <1>2 DEF Popping, Last, TypeOK
      <3>2. pc[Owner] = "pop_take" => top < bottom
        BY <1>1, <1>2 DEF Stealing
      <3> QED
        BY <1>1, <1>2, <2>1, <3>1, <3>2 DEF TypeOK, Popping
    <2>8. Stealing'
      <3>1. /\ pc'[p] = "got" /\ pc'[Owner] = pc[Owner]
            /\ \A q \in Threads \ {p} : pc'[q] = pc[q] /\ t'[q] = t[q]
            /\ \A q \in Threads : t[q] \in Nat
        BY <1>1, <2>1 DEF TypeOK
      <3> QED
        BY <1>1, <2>1, <2>2, <3>1 DEF Stealing
    <2> QED
      BY <2>3, <2>4, <2>5, <2>6, <2>7, <2>8
  <1>3. CASE top # t[p]
    <2>1. /\ top' = top /\ pc' = [pc EXCEPT ![p] = "idle"]
          /\ f' = [f EXCEPT ![p] = NoItem]
      BY <1>1, <1>3 DEF StealCas, Leave, Goto
    <2>2. TypeOK' /\ Last' = Last
      BY <1>1, <2>1 DEF TypeOK, Last
    <2>3. Locking' /\ Locals'
      BY <1>1, <2>1 DEF TypeOK, Locking, Locals
    <2>4. Indices' /\ Pushing' /\ Popping' /\ Stealing'
      BY <1>1, <2>1, <2>2 DEF TypeOK, Locking, Indices, Pushing, Popping, Stealing
    <2>5. \A q \in Threads : Hand(q)' = Hand(q)
      BY <1>1, <2>1 DEF Hand, TypeOK
    <2> QED
      BY <1>1, <2>1, <2>2, <2>3, <2>4, <2>5, Quiet
  <1> QED
    BY <1>2, <1>3

-----------------------------------------------------------------------------
\* A fresh deque is empty.
LEMMA InitInv == Init => IndInv
  <1> SUFFICES ASSUME Init PROVE IndInv
    OBVIOUS
  <1> USE DequeAssumption DEF Init, PushPcs, PopPcs, StealPcs
  <1>1. TypeOK
    <2>1. top \in 0..MaxSeq /\ bottom \in -1..MaxSeq
      OBVIOUS
    <2>2. slots \in [0..(Cap - 1) -> Items \cup {NoItem}]
      OBVIOUS
    <2>3. b \in [Threads -> -1..MaxSeq] /\ t \in [Threads -> 0..MaxSeq]
      OBVIOUS
    <2> QED
      BY <2>1, <2>2, <2>3 DEF TypeOK
  <1>2. Last = 0 /\ Window = {} /\ Queued = {}
    BY DEF Last, Window, Queued
  <1>3. Locking /\ Locals
    BY DEF Locking, Locals
  <1>4. Indices /\ Pushing /\ Popping /\ Stealing
    BY <1>2 DEF Indices, Pushing, Popping, Stealing
  <1>5. NoDoubleTake /\ NoLoss
    BY <1>2 DEF NoDoubleTake, NoLoss, Hand
  <1> QED
    BY <1>1, <1>3, <1>4, <1>5 DEF IndInv

\* Every step keeps the invariant.
LEMMA NextInv == IndInv /\ [Next]_vars => IndInv'
  <1> SUFFICES ASSUME IndInv, [Next]_vars PROVE IndInv'
    OBVIOUS
  <1>1. CASE PopLock
    BY <1>1, PopLockInv
  <1>2. CASE PopTop
    BY <1>2, PopTopInv
  <1>3. CASE PopRestore
    BY <1>3, PopRestoreInv
  <1>4. CASE PopTake
    BY <1>4, PopTakeInv
  <1>5. CASE PopCas
    BY <1>5, PopCasInv
  <1>6. CASE PopFix
    BY <1>6, PopFixInv
  <1>7. ASSUME NEW p \in Threads, NEW x \in Items, PushLock(p, x) PROVE IndInv'
    BY <1>7, PushLockInv
  <1>8. ASSUME NEW p \in Threads,
               PushTop(p) \/ PushSlot(p) \/ PushPublish(p)
        PROVE  IndInv'
    BY <1>8, PushTopInv, PushSlotInv, PushPublishInv
  <1>9. ASSUME NEW p \in Threads,
               StealTop(p) \/ StealBottom(p) \/ StealSlot(p) \/ StealCas(p)
        PROVE  IndInv'
    BY <1>9, StealTopInv, StealBottomInv, StealSlotInv, StealCasInv
  <1>10. ASSUME NEW p \in Threads, Release(p) PROVE IndInv'
    BY <1>10, ReleaseInv
  <1>11. CASE UNCHANGED vars
    <2> USE <1>11 DEF vars, IndInv
    <2>1. TypeOK' /\ Locking' /\ Locals' /\ Last' = Last
      BY DEF TypeOK, Locking, Locals, Last
    <2>2. Indices' /\ Pushing' /\ Popping' /\ Stealing'
      BY <2>1 DEF Indices, Pushing, Popping, Stealing
    <2>3. NoDoubleTake' /\ NoLoss'
      BY <2>1, Quiet DEF Hand
    <2> QED
      BY <2>1, <2>2, <2>3
  <1> QED
    BY <1>1, <1>2, <1>3, <1>4, <1>5, <1>6, <1>7, <1>8, <1>9, <1>10, <1>11
    DEF Next, Step, Aborted

\* The locals, indices and slots of the deque code keep their types; above all
\* bottom never falls below -1 and top never passes the pushes made.
THEOREM DequeTypeOK == Spec => []TypeOK
  <1>1. Spec => []IndInv
    BY InitInv, NextInv, PTL DEF Spec
  <1>2. IndInv => TypeOK
    BY DEF IndInv
  <1> QED
    BY <1>1, <1>2, PTL

\* pop_bottom and steal never hand out a fiber twice, and no fiber that was
\* pushed is lost, for any number of threads and fibers and any capacity.
THEOREM DequeExactlyOnce == Spec => [](NoDoubleTake /\ NoLoss)
  <1>1. Spec => []IndInv
    BY InitInv, NextInv, PTL DEF Spec
  <1>2. IndInv => NoDoubleTake /\ NoLoss
    BY DEF IndInv
  <1> QED
    BY <1>1, <1>2, PTL

-----------------------------------------------------------------------------
(* The abstract deque.                                                     *)

\* The item with sequence number n, and those from lo up to hi.
At(s, n) == s[n % Cap]

Between(s, lo, hi) == [i \in 1..(hi - lo) |-> At(s, lo + i - 1)]

\* They are a sequence of items, one for each number.
LEMMA BetweenOK ==
    ASSUME NEW s, NEW lo \in Nat, NEW hi \in Nat, lo <= hi,
           \A n \in lo..(hi - 1) : At(s, n) \in Items
    PROVE  /\ Between(s, lo, hi) \in Seq(Items)
           /\ Len(Between(s, lo, hi)) = hi - lo
           /\ \A i \in 1..(hi - lo) : Between(s, lo, hi)[i] = At(s, lo + i - 1)
  <1>1. \A i \in 1..(hi - lo) : lo + i - 1 \in lo..(hi - 1)
    OBVIOUS
  <1>2. Between(s, lo, hi) \in [1..(hi - lo) -> Items]
    BY <1>1 DEF Between
  <1>3. hi - lo \in Nat
    OBVIOUS
  <1>4. Between(s, lo, hi) \in Seq(Items) /\ Len(Between(s, lo, hi)) = hi - lo
    BY <1>2, <1>3
  <1> QED BY <1>4 DEF Between

\* One item more at the bottom.
LEMMA BetweenAppend ==
    ASSUME NEW s, NEW lo \in Nat, NEW hi \in Nat, lo <= hi,
           \A n \in lo..hi : At(s, n) \in Items
    PROVE  Between(s, lo, hi + 1) = Append(Between(s, lo, hi), At(s, hi))
  <1> DEFINE u == Between(s, lo, hi)
             w == Between(s, lo, hi + 1)
  <1>1. /\ u \in Seq(Items) /\ Len(u) = hi - lo
        /\ \A i \in 1..(hi - lo) : u[i] = At(s, lo + i - 1)
    BY BetweenOK
  <1>2. /\ w \in Seq(Items) /\ Len(w) = hi + 1 - lo
        /\ \A i \in 1..(hi + 1 - lo) : w[i] = At(s, lo + i - 1)
    BY BetweenOK
  <1>3. At(s, hi) \in Items
    OBVIOUS
  <1> HIDE DEF u, w
  <1>4. /\ Append(u, At(s, hi)) \in Seq(Items) /\ Len(Append(u, At(s, hi))) = hi - lo + 1
        /\ \A i \in 1..(hi - lo) : Append(u, At(s, hi))[i] = u[i]
        /\ Append(u, At(s, hi))[hi - lo + 1] = At(s, hi)
    BY <1>1, <1>3, AppendProperties
  <1>5. \A i \in 1..(hi + 1 - lo) : w[i] = Append(u, At(s, hi))[i]
    <2> TAKE i \in 1..(hi + 1 - lo)
    <2>1. CASE i \in 1..(hi - lo)
      BY <1>1, <1>2, <1>4, <2>1
    <2>2. CASE i = hi - lo + 1
      <3>1. lo + i - 1 = hi
        BY <2>2
      <3> QED BY <1>2, <1>4, <2>2, <3>1
    <2>3. i \in 1..(hi - lo) \/ i = hi - lo + 1
      OBVIOUS
    <2> QED BY <2>1, <2>2, <2>3
  <1>6. w = Append(u, At(s, hi))
    BY <1>2, <1>4, <1>5, SeqEqual
  <1> QED BY <1>6 DEF u, w

\* One item less at the top.
LEMMA BetweenTail ==
    ASSUME NEW s, NEW lo \in Nat, NEW hi \in Nat, lo < hi,
           \A n \in lo..(hi - 1) : At(s, n) \in Items
    PROVE  /\ Between(s, lo, hi) # <<>>
           /\ Head(Between(s, lo, hi)) = At(s, lo)
           /\ Between(s, lo + 1, hi) = Tail(Between(s, lo, hi))
  <1> DEFINE u == Between(s, lo, hi)
             w == Between(s, lo + 1, hi)
  <1>1. /\ u \in Seq(Items) /\ Len(u) = hi - lo
        /\ \A i \in 1..(hi - lo) : u[i] = At(s, lo + i - 1)
    BY BetweenOK
  <1>2. /\ w \in Seq(Items) /\ Len(w) = hi - lo - 1
        /\ \A i \in 1..(hi - lo - 1) : w[i] = At(s, lo + i)
    <2>1. lo + 1 \in Nat /\ lo + 1 <= hi /\ \A n \in (lo + 1)..(hi - 1) : At(s, n) \in Items
      OBVIOUS
    <2>2. /\ w \in Seq(Items) /\ Len(w) = hi - (lo + 1)
          /\ \A i \in 1..(hi - (lo + 1)) : w[i] = At(s, lo + 1 + i - 1)
      BY <2>1, BetweenOK
    <2>3. hi - (lo + 1) = hi - lo - 1 /\ \A i \in Nat : lo + 1 + i - 1 = lo + i
      OBVIOUS
    <2> QED BY <2>2, <2>3
  <1> HIDE DEF u, w
  <1>3. u # <<>> /\ Head(u) = At(s, lo)
    <2>1. 1 \in 1..(hi - lo) /\ lo + 1 - 1 = lo
      OBVIOUS
    <2>2. u[1] = At(s, lo)
      BY <1>1, <2>1
    <2> QED BY <1>1, <2>2
  <1>4. /\ Tail(u) \in Seq(Items) /\ Len(Tail(u)) = hi - lo - 1
        /\ \A i \in 1..(hi - lo - 1) : Tail(u)[i] = u[i + 1]
    BY <1>1, <1>3, HeadTailProperties
  <1>5. \A i \in 1..(hi - lo - 1) : w[i] = Tail(u)[i]
    <2> TAKE i \in 1..(hi - lo - 1)
    <2>1. i + 1 \in 1..(hi - lo) /\ lo + (i + 1) - 1 = lo + i
      OBVIOUS
    <2>2. u[i + 1] = At(s, lo + i)
      BY <1>1, <2>1
    <2> QED BY <1>2, <1>4, <2>2
  <1>6. w = Tail(u)
    BY <1>2, <1>4, <1>5, SeqEqual
  <1> QED BY <1>3, <1>6 DEF u, w

\* One item less at the bottom.
LEMMA BetweenFront ==
    ASSUME NEW s, NEW lo \in Nat, NEW hi \in Nat, lo <= hi,
           \A n \in lo..hi : At(s, n) \in Items
    PROVE  LET u == Between(s, lo, hi + 1)
           IN  /\ u # <<>> /\ u[Len(u)] = At(s, hi)
               /\ Between(s, lo, hi) = SubSeq(u, 1, Len(u) - 1)
  <1> DEFINE u == Between(s, lo, hi + 1)
             w == Between(s, lo, hi)
  <1>1. /\ w \in Seq(Items) /\ Len(w) = hi - lo
        /\ \A i \in 1..(hi - lo) : w[i] = At(s, lo + i - 1)
    BY BetweenOK
  <1>2. u = Append(w, At(s, hi)) /\ At(s, hi) \in Items
    BY BetweenAppend
  <1> HIDE DEF u, w
  <1>3. /\ u \in Seq(Items) /\ Len(u) = Len(w) + 1 /\ u[Len(w) + 1] = At(s, hi)
        /\ \A i \in 1..Len(w) : u[i] = w[i]
    BY <1>1, <1>2, AppendProperties
  <1>4. /\ SubSeq(u, 1, Len(u) - 1) \in Seq(Items)
        /\ Len(SubSeq(u, 1, Len(u) - 1)) = Len(w)
        /\ \A i \in 1..Len(w) : SubSeq(u, 1, Len(u) - 1)[i] = w[i]
    BY <1>1, <1>3
  <1>5. w = SubSeq(u, 1, Len(u) - 1)
    BY <1>1, <1>4, SeqEqual
  <1>6. u # <<>> /\ u[Len(u)] = At(s, hi)
    BY <1>1, <1>3
  <1> QED BY <1>5, <1>6 DEF u, w

LEMMA QueueBetween ==
    /\ Queue = Between(slots, top, Last)
    /\ Queue' = Between(slots', top', Last')
  BY DEF Queue, Between, At

\* What is between top and bottom are items.
LEMMA QueueItems ==
    ASSUME IndInv
    PROVE  /\ top \in Nat /\ Last \in Nat /\ top <= Last
           /\ \A n \in top..(Last - 1) : At(slots, n) \in Items
  <1>1. top \in Nat /\ Last \in Int /\ top <= Last
    BY DEF IndInv, TypeOK, Indices, Last
  <1>2. \A n \in Window : At(slots, n) \in Queued
    BY DEF Queued, At
  <1> QED BY <1>1, <1>2 DEF IndInv, NoDoubleTake, Window

\* Steps that move no item change nothing of the abstract deque.
LEMMA Stutter ==
    ASSUME Last' = Last, top' = top, slots' = slots, loose' = loose,
           \A p \in Threads : Hand(p)' = Hand(p)
    PROVE  UNCHANGED Abstract!vars
  <1>1. Queue' = Queue
    BY QueueBetween
  <1>2. Hands' = Hands
    BY DEF Hands
  <1> QED BY <1>1, <1>2 DEF Abstract!vars

\* One thread's hand changes.
LEMMA OneHand ==
    ASSUME NEW p \in Threads, \A q \in Threads \ {p} : Hand(q)' = Hand(q)
    PROVE  /\ Hands[p] = Hand(p)
           /\ Hands' = [Hands EXCEPT ![p] = Hand(p)']
  BY DEF Hands

\* Who wins the compare-and-swap on top takes the oldest item at that moment;
\* for the owner it is the only one, so it is also the newest.
LEMMA Winner ==
    ASSUME IndInv, NEW p \in Threads,
           top < Last, top' = top + 1, Last' = Last, slots' = slots, loose' = loose,
           Hand(p) = NoItem, Hand(p)' = slots[top % Cap],
           \A q \in Threads \ {p} : Hand(q)' = Hand(q),
           p = Owner => Last = top + 1
    PROVE  Abstract!Next
  <1>1. /\ top \in Nat /\ Last \in Nat
        /\ \A n \in top..(Last - 1) : At(slots, n) \in Items
    BY QueueItems
  <1>2. /\ Queue # <<>> /\ Head(Queue) = At(slots, top) /\ Queue' = Tail(Queue)
    BY <1>1, BetweenTail, QueueBetween
  <1>3. Hands[p] = NoItem /\ Hands' = [Hands EXCEPT ![p] = At(slots, top)]
    BY OneHand DEF At
  <1>4. CASE p # Owner
    BY <1>2, <1>3, <1>4 DEF Abstract!Next, Abstract!TakeTop
  <1>5. CASE p = Owner
    <2>1. \A n \in top..top : At(slots, n) \in Items
      BY <1>1, <1>5
    <2>2. /\ Queue[Len(Queue)] = At(slots, top)
          /\ Between(slots, top, top) = SubSeq(Queue, 1, Len(Queue) - 1)
      BY <1>1, <1>5, <2>1, BetweenFront, QueueBetween
    <2>3. Queue' = Between(slots, top + 1, top + 1)
      BY <1>1, <1>5, QueueBetween
    <2>4. Between(slots, top + 1, top + 1) = Between(slots, top, top)
      BY <1>1 DEF Between
    <2>5. Abstract!TakeBottom
      BY <1>2, <1>3, <1>5, <2>2, <2>3, <2>4 DEF Abstract!TakeBottom
    <2> QED BY <2>5 DEF Abstract!Next
  <1> QED BY <1>4, <1>5

\* A step of the deque is a step of the abstract one, or changes nothing of it.
LEMMA AbstractStep == IndInv /\ [Next]_vars => [Abstract!Next]_(Abstract!vars)
  <1> SUFFICES ASSUME IndInv, [Next]_vars PROVE [Abstract!Next]_(Abstract!vars)
    OBVIOUS
  <1> USE DequeAssumption DEF PushPcs, PopPcs, StealPcs
  <1>1. /\ top \in Nat /\ Last \in Nat /\ top <= Last
        /\ \A n \in top..(Last - 1) : At(slots, n) \in Items
    BY QueueItems
  <1>2. CASE UNCHANGED vars
    <2>1. Last' = Last /\ \A p \in Threads : Hand(p)' = Hand(p)
      BY <1>2 DEF vars, Last, Hand
    <2> QED BY <1>2, <2>1, Stutter DEF vars
  <1>3. CASE PopLock
    <2>1. Last' = Last /\ \A p \in Threads : Hand(p)' = Hand(p)
      BY <1>3 DEF PopLock, Goto, Last, Hand, IndInv, TypeOK
    <2> QED BY <1>3, <2>1, Stutter DEF PopLock
  <1>4. CASE PopTop
    <2>1. Last' = Last /\ \A p \in Threads : Hand(p)' = Hand(p)
      BY <1>4 DEF PopTop, Goto, Last, Hand, IndInv, TypeOK
    <2> QED BY <1>4, <2>1, Stutter DEF PopTop
  <1>5. CASE PopRestore
    <2>1. Last' = Last /\ \A p \in Threads : Hand(p)' = Hand(p)
      BY <1>5 DEF PopRestore, Goto, Leave, Last, Hand, IndInv, TypeOK, Popping
    <2> QED BY <1>5, <2>1, Stutter DEF PopRestore
  <1>6. CASE PopFix
    <2>1. Last' = Last /\ \A p \in Threads : Hand(p)' = Hand(p)
      BY <1>6 DEF PopFix, Goto, Leave, Last, Hand, IndInv, TypeOK, Popping
    <2> QED BY <1>6, <2>1, Stutter DEF PopFix
  <1>7. CASE PopTake
    <2>1. /\ Last = bottom + 1 /\ Last' = bottom /\ bottom \in Nat /\ top <= bottom
          /\ UNCHANGED <<top, slots, loose>>
      BY <1>7 DEF PopTake, Goto, Leave, Last, IndInv, TypeOK, Popping
    <2>2. /\ Hand(Owner) = NoItem /\ Hand(Owner)' = At(slots, bottom)
          /\ \A q \in Threads \ {Owner} : Hand(q)' = Hand(q)
      BY <1>7 DEF PopTake, Goto, Leave, Hand, At, IndInv, TypeOK, Popping, Locals
    <2>3. \A n \in top..bottom : At(slots, n) \in Items
      BY <1>1, <2>1
    <2>4. /\ Queue # <<>> /\ Queue[Len(Queue)] = At(slots, bottom)
          /\ Queue' = SubSeq(Queue, 1, Len(Queue) - 1)
      BY <1>1, <2>1, <2>3, BetweenFront, QueueBetween
    <2>5. Hands[Owner] = NoItem /\ Hands' = [Hands EXCEPT ![Owner] = At(slots, bottom)]
      BY <2>2, OneHand
    <2> QED BY <2>1, <2>4, <2>5 DEF Abstract!Next, Abstract!TakeBottom
  <1>8. CASE PopCas
    <2>1. /\ pc[Owner] = "pop_cas" /\ pc' = [pc EXCEPT ![Owner] = "pop_fix"]
          /\ Last = bottom + 1 /\ Last' = bottom + 1
          /\ b[Owner] = bottom /\ t[Owner] = bottom /\ bottom <= top
          /\ bottom \in Nat /\ f[Owner] = NoItem /\ UNCHANGED <<slots, loose>>
      BY <1>8 DEF PopCas, Goto, Last, IndInv, TypeOK, Popping, Indices, Locals
    <2>2. CASE top = bottom
      <3>1. top' = top + 1 /\ f' = [f EXCEPT ![Owner] = slots[top % Cap]]
        BY <1>8, <2>1, <2>2 DEF PopCas
      <3>2. /\ Hand(Owner) = NoItem /\ Hand(Owner)' = slots[top % Cap]
            /\ \A q \in Threads \ {Owner} : Hand(q)' = Hand(q)
        BY <2>1, <3>1 DEF Hand, IndInv, TypeOK
      <3> QED BY <2>1, <2>2, <3>1, <3>2, Winner
    <2>3. CASE top # bottom
      <3>1. UNCHANGED <<top, f>>
        BY <1>8, <2>1, <2>3 DEF PopCas
      <3>2. \A q \in Threads : Hand(q)' = Hand(q)
        BY <2>1, <3>1 DEF Hand, IndInv, TypeOK
      <3> QED BY <2>1, <3>1, <3>2, Stutter
    <2> QED BY <2>2, <2>3
  <1>9. ASSUME NEW p \in Threads, NEW x \in Items, PushLock(p, x)
        PROVE  Abstract!Next
    <2>1. Last' = Last /\ UNCHANGED <<top, slots>>
      BY <1>9 DEF PushLock, Goto, Last, IndInv, TypeOK, Locking
    <2>2. /\ Hand(p) = NoItem /\ Hand(p)' = x
          /\ \A q \in Threads \ {p} : Hand(q)' = Hand(q)
      BY <1>9 DEF PushLock, Goto, Hand, IndInv, TypeOK, Locals
    <2>3. Queue' = Queue
      BY <2>1, QueueBetween
    <2>4. Hands[p] = NoItem /\ Hands' = [Hands EXCEPT ![p] = x]
      BY <2>2, OneHand
    <2> QED BY <1>9, <2>3, <2>4 DEF PushLock, Abstract!Next, Abstract!PickUp
  <1>10. ASSUME NEW p \in Threads, PushTop(p)
         PROVE  UNCHANGED Abstract!vars
    <2>1. Last' = Last /\ \A q \in Threads : Hand(q)' = Hand(q)
      BY <1>10 DEF PushTop, Goto, Last, Hand, IndInv, TypeOK, Locking
    <2> QED BY <1>10, <2>1, Stutter DEF PushTop
  <1>11. ASSUME NEW p \in Threads, PushSlot(p)
         PROVE  UNCHANGED Abstract!vars
    <2>0. /\ pc[p] = "push_slot" /\ pc' = [pc EXCEPT ![p] = "push_publish"]
          /\ UNCHANGED <<bottom, top, loose>> /\ pc[Owner] \notin PopPcs
          /\ b[p] = bottom /\ bottom - top < Cap
      BY <1>11 DEF PushSlot, Goto, IndInv, Locking, Pushing
    <2>1. /\ Last = bottom /\ Last' = Last /\ UNCHANGED <<top, loose>>
          /\ bottom - top < Cap /\ bottom \in Nat
      BY <1>1, <2>0 DEF Last, IndInv, TypeOK
    <2> DEFINE k == bottom % Cap
    <2>6. slots' = [slots EXCEPT ![k] = f[p]]
      BY <1>11, <2>0 DEF PushSlot
    <2>2. \A n \in top..(bottom - 1) : At(slots', n) = At(slots, n)
      <3> TAKE n \in top..(bottom - 1)
      <3>1. n \in Nat /\ n \in top..Last /\ bottom \in top..Last /\ n # bottom
        BY <1>1, <2>1
      <3>2. n % Cap # bottom % Cap
        BY <2>1, <3>1, WindowSlots
      <3>3. n % Cap # k
        BY <3>2
      <3> HIDE DEF k
      <3> QED BY <2>6, <3>3 DEF At, IndInv, TypeOK
    <2>3. Queue' = Queue
      <3>1. \A i \in 1..(bottom - top) : top + i - 1 \in top..(bottom - 1)
        BY <1>1, <2>1
      <3>2. Between(slots', top, bottom) = Between(slots, top, bottom)
        BY <2>2, <3>1 DEF Between
      <3> QED BY <2>1, <3>2, QueueBetween
    <2>4. \A q \in Threads : Hand(q)' = Hand(q)
      BY <1>11 DEF PushSlot, Goto, Hand, IndInv, TypeOK
    <2>5. Hands' = Hands
      BY <2>4 DEF Hands
    <2> QED BY <2>1, <2>3, <2>5 DEF Abstract!vars
  <1>12. ASSUME NEW p \in Threads, PushPublish(p)
         PROVE  Abstract!Next
    <2>0. /\ pc[p] = "push_publish" /\ pc' = [pc EXCEPT ![p] = "idle"]
          /\ UNCHANGED <<top, slots, loose>> /\ pc[Owner] \notin PopPcs
          /\ b[p] = bottom /\ bottom' = b[p] + 1 /\ f[p] \in Items
      BY <1>12 DEF PushPublish, Goto, Leave, IndInv, Locking, Pushing, Locals
    <2>1. /\ Last = bottom /\ Last' = bottom + 1 /\ bottom \in Nat
      BY <1>1, <2>0 DEF Last, IndInv, TypeOK
    <2>6. At(slots, bottom) = f[p]
      BY <2>0 DEF At, IndInv, Pushing
    <2>2. /\ Hand(p) = f[p] /\ Hand(p)' = NoItem
          /\ \A q \in Threads \ {p} : Hand(q)' = Hand(q)
      BY <1>12 DEF PushPublish, Goto, Leave, Hand, IndInv, TypeOK
    <2>3. \A n \in top..bottom : At(slots, n) \in Items
      BY <1>1, <2>0, <2>1, <2>6
    <2>4. Queue' = Append(Queue, f[p])
      <3>1. Between(slots, top, bottom + 1) = Append(Between(slots, top, bottom), f[p])
        BY <1>1, <2>1, <2>3, <2>6, BetweenAppend
      <3> QED BY <2>0, <2>1, <3>1, QueueBetween
    <2>5. Hands[p] = f[p] /\ Hands' = [Hands EXCEPT ![p] = NoItem]
      BY <2>2, OneHand
    <2> QED BY <2>0, <2>4, <2>5, DequeAssumption DEF Abstract!Next, Abstract!Append_
  <1>13. ASSUME NEW p \in Threads, StealTop(p)
         PROVE  UNCHANGED Abstract!vars
    <2>1. Last' = Last /\ \A q \in Threads : Hand(q)' = Hand(q)
      BY <1>13 DEF StealTop, Goto, Last, Hand, IndInv, TypeOK
    <2> QED BY <1>13, <2>1, Stutter DEF StealTop
  <1>14. ASSUME NEW p \in Threads, StealBottom(p)
         PROVE  UNCHANGED Abstract!vars
    <2>1. Last' = Last /\ \A q \in Threads : Hand(q)' = Hand(q)
      BY <1>14 DEF StealBottom, Goto, Leave, Last, Hand, IndInv, TypeOK, Locking
    <2> QED BY <1>14, <2>1, Stutter DEF StealBottom
  <1>15. ASSUME NEW p \in Threads, StealSlot(p)
         PROVE  UNCHANGED Abstract!vars
    <2>1. Last' = Last /\ \A q \in Threads : Hand(q)' = Hand(q)
      BY <1>15 DEF StealSlot, Goto, Last, Hand, IndInv, TypeOK, Locking, Locals
    <2> QED BY <1>15, <2>1, Stutter DEF StealSlot
  <1>16. ASSUME NEW p \in Threads, StealCas(p)
         PROVE  [Abstract!Next]_(Abstract!vars)
    <2>1. /\ p # Owner /\ pc[p] = "steal_cas" /\ UNCHANGED <<bottom, slots, loose>>
          /\ t[p] < Last /\ t[p] \in Nat
      BY <1>16 DEF StealCas, IndInv, Locking, Stealing, TypeOK
    <2>2. Last' = Last
      BY <1>16, <2>1 DEF StealCas, Leave, Goto, Last, IndInv, TypeOK
    <2>3. CASE top = t[p]
      <3>1. top' = top + 1 /\ pc' = [pc EXCEPT ![p] = "got"] /\ f' = f
        BY <1>16, <2>3 DEF StealCas, Leave, Goto
      <3>2. /\ Hand(p) = NoItem /\ Hand(p)' = slots[top % Cap]
            /\ \A q \in Threads \ {p} : Hand(q)' = Hand(q)
        BY <2>1, <2>3, <3>1 DEF Hand, IndInv, TypeOK, Stealing
      <3> QED BY <2>1, <2>2, <2>3, <3>1, <3>2, Winner
    <2>4. CASE top # t[p]
      <3>1. /\ top' = top /\ pc' = [pc EXCEPT ![p] = "idle"]
            /\ f' = [f EXCEPT ![p] = NoItem]
        BY <1>16, <2>4 DEF StealCas, Leave, Goto
      <3>2. \A q \in Threads : Hand(q)' = Hand(q)
        BY <2>1, <3>1 DEF Hand, IndInv, TypeOK
      <3> QED BY <2>1, <2>2, <3>1, <3>2, Stutter
    <2> QED BY <2>3, <2>4
  <1>17. ASSUME NEW p \in Threads, Release(p)
         PROVE  Abstract!Next
    <2>1. /\ Last' = Last /\ UNCHANGED <<top, slots>> /\ f[p] \in Items
          /\ loose' = loose \cup {f[p]}
      BY <1>17 DEF Release, Goto, Last, IndInv, TypeOK, Locals
    <2>2. /\ Hand(p) = f[p] /\ Hand(p)' = NoItem
          /\ \A q \in Threads \ {p} : Hand(q)' = Hand(q)
      BY <1>17 DEF Release, Goto, Hand, IndInv, TypeOK
    <2>3. Queue' = Queue
      BY <2>1, QueueBetween
    <2>4. Hands[p] = f[p] /\ Hands' = [Hands EXCEPT ![p] = NoItem]
      BY <2>2, OneHand
    <2> QED BY <2>1, <2>3, <2>4 DEF Abstract!Next, Abstract!PutDown
  <1> QED
    BY <1>2, <1>3, <1>4, <1>5, <1>6, <1>7, <1>8, <1>9, <1>10, <1>11, <1>12, <1>13,
       <1>14, <1>15, <1>16, <1>17
    DEF Next, Step, Aborted

\* The deque implements the abstract one: its loads, stores and
\* compare-and-swaps amount to pushes and pops at the bottom and steals at the
\* top that each happen at one point, for every capacity and any number of
\* thieves.
THEOREM DequeImplements == Spec => ImplementsDeque
  <1>1. Init => Abstract!Init
    <2> SUFFICES ASSUME Init PROVE Abstract!Init
      OBVIOUS
    <2>1. Last = 0 /\ top = 0
      BY DequeAssumption DEF Init, Last, PopPcs
    <2>2. Queue = <<>>
      BY <2>1 DEF Queue
    <2>3. Hands = [p \in Threads |-> NoItem]
      BY DEF Hands, Hand, Init
    <2> QED BY <2>2, <2>3 DEF Init, Abstract!Init
  <1> QED BY <1>1, AbstractStep, InitInv, NextInv, PTL DEF Spec, ImplementsDeque, Abstract!Spec
=============================================================================
