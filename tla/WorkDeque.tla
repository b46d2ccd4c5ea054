----------------------------- MODULE WorkDeque -----------------------------
(***************************************************************************)
(* The Chase-Lev work-stealing deque of one carrier                        *)
(* (cajeta_rt_concurrent_exec.c, struct cajeta_carrier_deque), one step    *)
(* per access to shared memory.                                            *)
(*                                                                         *)
(* Whoever pushes (publish_ready, steal_one's push-back) and the owner     *)
(* that pops hold the carrier's deque_mutex; thieves take no lock and      *)
(* settle their races with a compare-and-swap on top.  The seq_cst fences  *)
(* of pop_bottom and steal make the accesses that matter sequentially      *)
(* consistent, so the interleavings of the steps below are what the        *)
(* program can do.  A thief's read of a slot that a push overwrites is a   *)
(* data race in C: here it reads the old or the new pointer, whichever     *)
(* the interleaving gives.                                                 *)
(*                                                                         *)
(* bottom and top are int64_t counters that only MaxSeq bounds here.       *)
(***************************************************************************)
EXTENDS Integers, FiniteSets

CONSTANTS Items,      \* the fibers that pass through the deque
          Threads,    \* the carriers and the other threads that publish
          Owner,      \* the carrier that owns the deque
          NoItem,     \* the null pointer
          NoThread,   \* deque_mutex is free
          Cap,        \* CAJETA_DEQUE_CAP
          MaxSeq      \* bound on bottom: pushes stop there

ASSUME DequeAssumption ==
    /\ Cap \in Nat \ {0}
    /\ MaxSeq \in Nat
    /\ Owner \in Threads
    /\ NoItem \notin Items
    /\ NoThread \notin Threads

VARIABLES top, bottom, slots,   \* the shared structure
          mutex,                \* holder of deque_mutex
          pc, b, t, f,          \* where each thread is, and its locals
          loose,                \* items neither queued nor in a thread's hands
          aborted               \* the process has called abort()

vars == <<top, bottom, slots, mutex, pc, b, t, f, loose, aborted>>

PushPcs  == {"push_top", "push_slot", "push_publish"}
PopPcs   == {"pop_top", "pop_restore", "pop_take", "pop_cas", "pop_fix"}
StealPcs == {"steal_bottom", "steal_slot", "steal_cas"}

TypeOK ==
    /\ top \in 0..MaxSeq
    /\ bottom \in -1..MaxSeq
    /\ slots \in [0..(Cap - 1) -> Items \cup {NoItem}]
    /\ mutex \in Threads \cup {NoThread}
    /\ pc \in [Threads -> {"idle", "got"} \cup PushPcs \cup PopPcs \cup StealPcs]
    /\ b \in [Threads -> -1..MaxSeq]
    /\ t \in [Threads -> 0..MaxSeq]
    /\ f \in [Threads -> Items \cup {NoItem}]
    /\ loose \subseteq Items
    /\ aborted \in BOOLEAN

Init ==
    /\ top = 0
    /\ bottom = 0
    /\ slots = [i \in 0..(Cap - 1) |-> NoItem]
    /\ mutex = NoThread
    /\ pc = [p \in Threads |-> "idle"]
    /\ b = [p \in Threads |-> 0]
    /\ t = [p \in Threads |-> 0]
    /\ f = [p \in Threads |-> NoItem]
    /\ loose = Items
    /\ aborted = FALSE

Goto(p, l) == pc' = [pc EXCEPT ![p] = l]

\* Return from an operation: the locals b and t are gone.
Leave(p, l) ==
    /\ Goto(p, l)
    /\ b' = [b EXCEPT ![p] = 0]
    /\ t' = [t EXCEPT ![p] = 0]

-----------------------------------------------------------------------------
(* __cajeta_deque_push_bottom, under deque_mutex.                          *)

\* Lock, and load bottom (which only the mutex holder writes).
PushLock(p, x) ==
    /\ pc[p] = "idle"
    /\ mutex = NoThread
    /\ bottom < MaxSeq
    /\ x \in loose
    /\ mutex' = p
    /\ f' = [f EXCEPT ![p] = x]
    /\ loose' = loose \ {x}
    /\ b' = [b EXCEPT ![p] = bottom]
    /\ Goto(p, "push_top")
    /\ UNCHANGED <<top, bottom, slots, t, aborted>>

\* Load top; a full deque aborts the process.
PushTop(p) ==
    /\ pc[p] = "push_top"
    /\ t' = [t EXCEPT ![p] = top]
    /\ IF b[p] - top >= Cap
         THEN aborted' = TRUE /\ UNCHANGED pc
         ELSE Goto(p, "push_slot") /\ UNCHANGED aborted
    /\ UNCHANGED <<top, bottom, slots, mutex, b, f, loose>>

PushSlot(p) ==
    /\ pc[p] = "push_slot"
    /\ slots' = [slots EXCEPT ![b[p] % Cap] = f[p]]
    /\ Goto(p, "push_publish")
    /\ UNCHANGED <<top, bottom, mutex, b, t, f, loose, aborted>>

\* The release store of bottom, and unlock.
PushPublish(p) ==
    /\ pc[p] = "push_publish"
    /\ bottom' = b[p] + 1
    /\ mutex' = NoThread
    /\ f' = [f EXCEPT ![p] = NoItem]
    /\ Leave(p, "idle")
    /\ UNCHANGED <<top, slots, loose, aborted>>

-----------------------------------------------------------------------------
(* __cajeta_deque_pop_bottom, by the owner under deque_mutex.              *)

\* Lock; claim the last slot by lowering bottom.
PopLock ==
    /\ pc[Owner] = "idle"
    /\ mutex = NoThread
    /\ mutex' = Owner
    /\ b' = [b EXCEPT ![Owner] = bottom - 1]
    /\ bottom' = bottom - 1
    /\ Goto(Owner, "pop_top")
    /\ UNCHANGED <<top, slots, t, f, loose, aborted>>

PopTopNoRace ==        \* mutant: the last item is taken without the race
    /\ pc[Owner] = "pop_top"
    /\ t' = [t EXCEPT ![Owner] = top]
    /\ Goto(Owner, IF top > b[Owner] THEN "pop_restore" ELSE "pop_take")
    /\ UNCHANGED <<top, bottom, slots, mutex, b, f, loose, aborted>>

\* Load top: empty, more than one item, or the last one.
PopTop ==
    /\ pc[Owner] = "pop_top"
    /\ t' = [t EXCEPT ![Owner] = top]
    /\ Goto(Owner, CASE top > b[Owner] -> "pop_restore"
                     [] top < b[Owner] -> "pop_take"
                     [] OTHER          -> "pop_cas")
    /\ UNCHANGED <<top, bottom, slots, mutex, b, f, loose, aborted>>

\* Empty: put bottom back, unlock, return NULL.
PopRestore ==
    /\ pc[Owner] = "pop_restore"
    /\ bottom' = t[Owner]
    /\ mutex' = NoThread
    /\ Leave(Owner, "idle")
    /\ UNCHANGED <<top, slots, f, loose, aborted>>

\* More than one item: the claimed one is the owner's without a race.
PopTake ==
    /\ pc[Owner] = "pop_take"
    /\ f' = [f EXCEPT ![Owner] = slots[b[Owner] % Cap]]
    /\ mutex' = NoThread
    /\ Leave(Owner, "got")
    /\ UNCHANGED <<top, bottom, slots, loose, aborted>>

\* The last item: race the thieves for it.
PopCas ==
    /\ pc[Owner] = "pop_cas"
    /\ IF top = t[Owner]
         THEN /\ top' = t[Owner] + 1
              /\ f' = [f EXCEPT ![Owner] = slots[b[Owner] % Cap]]
         ELSE UNCHANGED <<top, f>>
    /\ Goto(Owner, "pop_fix")
    /\ UNCHANGED <<bottom, slots, mutex, b, t, loose, aborted>>

PopFix ==
    /\ pc[Owner] = "pop_fix"
    /\ bottom' = t[Owner] + 1
    /\ mutex' = NoThread
    /\ Leave(Owner, IF f[Owner] = NoItem THEN "idle" ELSE "got")
    /\ UNCHANGED <<top, slots, f, loose, aborted>>

-----------------------------------------------------------------------------
(* __cajeta_deque_steal, by any other carrier, without a lock.             *)

StealTop(p) ==
    /\ p # Owner
    /\ pc[p] = "idle"
    /\ t' = [t EXCEPT ![p] = top]
    /\ Goto(p, "steal_bottom")
    /\ UNCHANGED <<top, bottom, slots, mutex, b, f, loose, aborted>>

StealBottom(p) ==
    /\ pc[p] = "steal_bottom"
    /\ IF t[p] >= bottom
         THEN Leave(p, "idle")
         ELSE Goto(p, "steal_slot") /\ UNCHANGED <<b, t>>
    /\ UNCHANGED <<top, bottom, slots, mutex, f, loose, aborted>>

StealSlot(p) ==
    /\ pc[p] = "steal_slot"
    /\ f' = [f EXCEPT ![p] = slots[t[p] % Cap]]
    /\ Goto(p, "steal_cas")
    /\ UNCHANGED <<top, bottom, slots, mutex, b, t, loose, aborted>>

StealCasStore(p) ==    \* mutant: a plain store where the code compares
    /\ pc[p] = "steal_cas"
    /\ top' = t[p] + 1
    /\ Leave(p, "got")
    /\ UNCHANGED <<bottom, slots, mutex, f, loose, aborted>>

StealCas(p) ==
    /\ pc[p] = "steal_cas"
    /\ IF top = t[p]
         THEN top' = t[p] + 1 /\ Leave(p, "got") /\ UNCHANGED f
         ELSE f' = [f EXCEPT ![p] = NoItem] /\ Leave(p, "idle") /\ UNCHANGED top
    /\ UNCHANGED <<bottom, slots, mutex, loose, aborted>>

-----------------------------------------------------------------------------
\* The item a thread obtained leaves its hands (the fiber runs, parks, and
\* any thread may publish it again).
Release(p) ==
    /\ pc[p] = "got"
    /\ loose' = loose \cup {f[p]}
    /\ f' = [f EXCEPT ![p] = NoItem]
    /\ Goto(p, "idle")
    /\ UNCHANGED <<top, bottom, slots, mutex, b, t, aborted>>

Step ==
    \/ PopLock \/ PopTop \/ PopRestore \/ PopTake \/ PopCas \/ PopFix
    \/ \E p \in Threads :
          \/ \E x \in Items : PushLock(p, x)
          \/ PushTop(p) \/ PushSlot(p) \/ PushPublish(p)
          \/ StealTop(p) \/ StealBottom(p) \/ StealSlot(p) \/ StealCas(p)
          \/ Release(p)

\* abort() ends the process.
Aborted == aborted /\ UNCHANGED vars

Next == (~aborted /\ Step) \/ Aborted

Spec == Init /\ [][Next]_vars

-----------------------------------------------------------------------------
(* What is in the deque: pop_bottom lowers bottom before it knows whether  *)
(* it has an item, so while the owner is inside it the queue still ends at *)
(* bottom + 1.                                                             *)

Last == IF pc[Owner] \in PopPcs THEN bottom + 1 ELSE bottom

Window == top..(Last - 1)

Queued == {slots[i % Cap] : i \in Window}

\* What p holds: a thief that has read a slot owns the item only once its
\* compare-and-swap has succeeded.
Hand(p) == IF pc[p] = "steal_cas" THEN NoItem ELSE f[p]

\* No fiber is ever obtained twice: the queued items are distinct, and none
\* of them is in a thread's hands or with two threads, whatever the races of
\* pop_bottom with steal for the last item, of two thieves, and of a push that
\* wraps around onto a slot a slow thief is reading.
NoDoubleTake ==
    /\ \A i, j \in Window : slots[i % Cap] = slots[j % Cap] => i = j
    /\ \A p, q \in Threads : Hand(p) = Hand(q) /\ Hand(p) # NoItem => p = q
    /\ Queued \subseteq Items \ loose
    /\ \A p \in Threads : Hand(p) \notin Queued \cup loose

\* No fiber is ever lost: each is queued, in some thread's hands or loose.
NoLoss ==
    \A x \in Items : x \in Queued \cup loose \/ \E p \in Threads : Hand(p) = x

\* The queue from top to bottom, and what each thread holds.
Queue == [i \in 1..(Last - top) |-> slots[(top + i - 1) % Cap]]

Hands == [p \in Threads |-> Hand(p)]

\* The deque implements the abstract one: a push, a successful pop and a
\* successful steal each take effect in one step, on the right end.
Abstract == INSTANCE AbstractDeque WITH queue <- Queue, hand <- Hands

ImplementsDeque == Abstract!Spec
=============================================================================
