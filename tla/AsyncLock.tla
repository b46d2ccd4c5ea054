----------------------------- MODULE AsyncLock -----------------------------
(***************************************************************************)
(* The fiber-aware lock and condition variable of                          *)
(* cajeta_rt_concurrent_sync.c (struct cajeta_async_lock, struct           *)
(* cajeta_async_condvar), used by fibers and by OS threads, with scope     *)
(* cancellation arriving at any moment.                                    *)
(*                                                                         *)
(* A step is one critical section of the lock's or the condvar's pthread   *)
(* mutex.  A fiber taken off a wait queue is published after that section; *)
(* here it may run again from then on, which is when a carrier resumes it  *)
(* at the earliest (CarrierPool shows it is not resumed before its swap).  *)
(*                                                                         *)
(* Spec leaves the callers free to do anything a caller may: to acquire,   *)
(* and when holding the lock to wait on the condvar or release.  Mutex,    *)
(* Semaphore and Channel put their own code in place of that freedom.      *)
(***************************************************************************)
EXTENDS Integers, Sequences, FiniteSets, SequencesExt

CONSTANTS Fibers,      \* callers that park
          OsThreads,   \* callers that block: the program thread, foreign threads
          Cancellable  \* the fibers some scope may cancel

ASSUME LockAssumption ==
    /\ Fibers \cap OsThreads = {}
    /\ Cancellable \subseteq Fibers

Callers == Fibers \cup OsThreads

VARIABLES held,        \* lock->held
          waitq,       \* lock->wait_head ..: the fibers parked in lock_acquire
          relq,        \* the threads blocked on lock->released_cond
          cvq,         \* cv->wait_head ..: the fibers in condvar_wait
          cvblocked,   \* the threads blocked on cv->main_cond
          lpc,         \* where each caller is in the lock's code
          cancel       \* the fibers whose cancel_with is set

lockVars == <<held, waitq, relq, cvq, cvblocked, lpc, cancel>>

\* "out": not in the lock's code; "acquire": about to (re)enter lock_acquire's
\* loop; "parked": parked or blocked in it; "in": has the lock; "cv_enqueued":
\* on the condvar's queue, lock not yet released; "cv_wait": suspended in
\* condvar_wait; "thrown": cancelled out of lock_acquire.
LockPcs == {"out", "acquire", "parked", "in", "cv_enqueued", "cv_wait", "thrown"}

LockTypeOK ==
    /\ held \in BOOLEAN
    /\ waitq \in Seq(Fibers)
    /\ relq \subseteq OsThreads
    /\ cvq \in Seq(Fibers)
    /\ cvblocked \subseteq OsThreads
    /\ lpc \in [Callers -> LockPcs]
    /\ cancel \subseteq Fibers

LockInit ==
    /\ held = FALSE
    /\ waitq = <<>>
    /\ relq = {}
    /\ cvq = <<>>
    /\ cvblocked = {}
    /\ lpc = [p \in Callers |-> "out"]
    /\ cancel = {}

At(p, l) == lpc' = [lpc EXCEPT ![p] = l]

\* A caller inside the lock's code that can take its next step there: it was
\* never suspended, or has been taken off the queue it was suspended on.
Runnable(p) ==
    \/ lpc[p] = "acquire"
    \/ lpc[p] = "parked" /\ p \notin ToSet(waitq) \cup relq
    \/ lpc[p] = "cv_wait" /\ p \notin ToSet(cvq) \cup cvblocked

Holders == {p \in Callers : lpc[p] \in {"in", "cv_enqueued"}}

-----------------------------------------------------------------------------
(* lock_acquire.                                                           *)

CallAcquire(p) ==
    /\ lpc[p] = "out"
    /\ At(p, "acquire")
    /\ UNCHANGED <<held, waitq, relq, cvq, cvblocked, cancel>>

AcquireCancelledDrop(p) == \* mutant: the handoff dies with the cancelled fiber
    /\ Runnable(p)
    /\ p \in cancel
    /\ cancel' = cancel \ {p}
    /\ At(p, "thrown")
    /\ UNCHANGED <<held, waitq, relq, cvq, cvblocked>>

\* Cancelled: pass the handoff on if the lock is free, then throw.
AcquireCancelled(p) ==
    /\ Runnable(p)
    /\ p \in cancel
    /\ cancel' = cancel \ {p}
    /\ waitq' = IF held \/ waitq = <<>> THEN waitq ELSE Tail(waitq)
    /\ At(p, "thrown")
    /\ UNCHANGED <<held, relq, cvq, cvblocked>>

AcquireFreeOurs(p) == \* mutant: a woken fiber assumes the lock is its own
    /\ Runnable(p)
    /\ p \notin cancel
    /\ ~held \/ lpc[p] = "parked"
    /\ held' = TRUE
    /\ At(p, "in")
    /\ UNCHANGED <<waitq, relq, cvq, cvblocked, cancel>>

AcquireFree(p) ==
    /\ Runnable(p)
    /\ p \notin cancel
    /\ ~held
    /\ held' = TRUE
    /\ At(p, "in")
    /\ UNCHANGED <<waitq, relq, cvq, cvblocked, cancel>>

\* Held by another: a fiber parks at the tail of the queue, a thread blocks.
AcquirePark(p) ==
    /\ Runnable(p)
    /\ p \notin cancel
    /\ held
    /\ IF p \in Fibers THEN waitq' = Append(waitq, p) /\ UNCHANGED relq
                       ELSE relq' = relq \cup {p} /\ UNCHANGED waitq
    /\ At(p, "parked")
    /\ UNCHANGED <<held, cvq, cvblocked, cancel>>

Acquire(p) == AcquireCancelled(p) \/ AcquireFree(p) \/ AcquirePark(p)

\* lock_try_acquire, when it succeeds.
TryAcquire(p) ==
    /\ lpc[p] = "out"
    /\ ~held
    /\ held' = TRUE
    /\ At(p, "in")
    /\ UNCHANGED <<waitq, relq, cvq, cvblocked, cancel>>

-----------------------------------------------------------------------------
(* lock_release: clear held, hand off to the first parked fiber, and       *)
(* signal one blocked thread as well.                                      *)

Unlock ==
    /\ held' = FALSE
    /\ waitq' = IF waitq = <<>> THEN waitq ELSE Tail(waitq)
    /\ IF relq = {} THEN UNCHANGED relq
                    ELSE \E m \in relq : relq' = relq \ {m}

Release(p) ==
    /\ lpc[p] = "in"
    /\ Unlock
    /\ At(p, "out")
    /\ UNCHANGED <<cvq, cvblocked, cancel>>

-----------------------------------------------------------------------------
(* condvar_wait and condvar_notify_all.                                    *)

\* A fiber joins the condvar's queue before it lets go of the lock ...
CvEnqueue(p) ==
    /\ p \in Fibers
    /\ lpc[p] = "in"
    /\ cvq' = Append(cvq, p)
    /\ At(p, "cv_enqueued")
    /\ UNCHANGED <<held, waitq, relq, cvblocked, cancel>>

\* ... then releases it and is suspended.
CvRelease(p) ==
    /\ lpc[p] = "cv_enqueued"
    /\ Unlock
    /\ At(p, "cv_wait")
    /\ UNCHANGED <<cvq, cvblocked, cancel>>

\* A thread holds the condvar's mutex from the release to the wait.
CvBlock(p) ==
    /\ p \in OsThreads
    /\ lpc[p] = "in"
    /\ Unlock
    /\ cvblocked' = cvblocked \cup {p}
    /\ At(p, "cv_wait")
    /\ UNCHANGED <<cvq, cancel>>

NotifyOne ==           \* mutant: wake the longest waiter only
    /\ cvq' = IF cvq = <<>> THEN cvq ELSE Tail(cvq)
    /\ cvblocked' = IF cvq = <<>> THEN {} ELSE cvblocked

\* Empty the queue; everyone on it goes back to lock_acquire when it runs.
NotifyAll ==
    /\ cvq' = <<>>
    /\ cvblocked' = {}

-----------------------------------------------------------------------------
(* The environment.                                                        *)

\* scope_exit's first throw cancels a sibling; a task that is cancelled twice
\* before it notices sees one cancellation.
Cancel(p) ==
    /\ p \in Cancellable \ cancel
    /\ cancel' = cancel \cup {p}
    /\ UNCHANGED <<held, waitq, relq, cvq, cvblocked, lpc>>

\* POSIX lets a condition wait end for no reason.
SpuriousWake(p) ==
    /\ p \in relq \cup cvblocked
    /\ relq' = relq \ {p}
    /\ cvblocked' = cvblocked \ {p}
    /\ UNCHANGED <<held, waitq, cvq, lpc, cancel>>

\* The exception leaves the caller's code.
Unwind(p) ==
    /\ lpc[p] = "thrown"
    /\ At(p, "out")
    /\ UNCHANGED <<held, waitq, relq, cvq, cvblocked, cancel>>

Notify == NotifyAll /\ UNCHANGED <<held, waitq, relq, lpc, cancel>>

LockStep(p) ==
    \/ CallAcquire(p) \/ Acquire(p) \/ TryAcquire(p) \/ Release(p)
    \/ CvEnqueue(p) \/ CvRelease(p) \/ CvBlock(p)
    \/ Cancel(p) \/ SpuriousWake(p) \/ Unwind(p)

LockNext == Notify \/ \E p \in Callers : LockStep(p)

LockSpec == LockInit /\ [][LockNext]_lockVars

-----------------------------------------------------------------------------
(* Correctness.                                                            *)

\* One caller at a time has the lock, and held says whether one does: an
\* acquirer that barges in before the fiber a release handed the lock to, and
\* a cancelled fiber that gives the handoff up, take nothing away from this.
MutualExclusion ==
    /\ \A p, q \in Holders : p = q
    /\ held <=> Holders # {}

\* The queues are threaded through fiber->next, so a fiber is on at most one
\* of them, once, and only while it is suspended there; a thread is counted as
\* waiting only on the condition it blocks on.
OneQueue ==
    /\ IsInjective(waitq) /\ IsInjective(cvq)
    /\ \A p \in ToSet(waitq) \cup relq : lpc[p] = "parked"
    /\ \A p \in ToSet(cvq) : lpc[p] \in {"cv_enqueued", "cv_wait"}
    /\ \A p \in cvblocked : lpc[p] = "cv_wait"

\* No handoff is lost: while fibers wait for a free lock, a fiber that can run
\* is on its way to it, and while threads block on a free lock, a thread is.
NoStranded ==
    ~held => /\ waitq # <<>> => \E p \in Fibers : Runnable(p)
             /\ relq # {} => \E p \in OsThreads : Runnable(p)
=============================================================================
