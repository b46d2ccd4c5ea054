----------------------------- MODULE TimedWait -----------------------------
(***************************************************************************)
(* Timed waits of fibers: task_wait_timeout and fiber_sleep of             *)
(* cajeta_rt_concurrent_exec.c, the timer thread, and task_complete, which *)
(* wakes whoever is parked.                                                *)
(*                                                                         *)
(* A step is one critical section of __cajeta_task_mutex.  Time is kept as *)
(* the time left to each deadline, which Tick counts down: the timer list, *)
(* sorted by deadline, is then the set of its entries with their times     *)
(* left.  An entry lives on its fiber's stack and is named by the fiber.   *)
(*                                                                         *)
(* Reactor extends this module with the waits for descriptors, which use   *)
(* the same parked list, timer list and timer thread.                      *)
(***************************************************************************)
EXTENDS Integers, FiniteSets

CONSTANTS Fibers,
          Cancellable, \* the fibers some scope may cancel
          MaxTimeout   \* the longest timeout, in ticks

ASSUME TimedAssumption ==
    /\ Cancellable \subseteq Fibers
    /\ MaxTimeout \in Nat \ {0}

VARIABLES parked,      \* __cajeta_parked_head ..: the fibers parked there
          timers,      \* __cajeta_timer_head ..: the fibers with a listed entry
          left,        \* the time left to each fiber's deadline
          done,        \* the fibers whose wait is over: *done_addr, w.fired
          cancel,      \* the fibers whose cancel_with is set
          wpc,         \* where each fiber is in its wait
          asleep,      \* the timer thread is in its condition wait ...
          nap          \* ... for that long

timedVars == <<parked, timers, left, done, cancel, wpc, asleep, nap>>

\* "signal": about to signal the timer thread; "check": about to look whether
\* the wait is over; "parked": parked, or woken and not yet run; "leave": about
\* to cancel its timer entry and to return or throw.
WaitPcs == {"idle", "signal", "check", "parked", "leave"}

Forever == MaxTimeout + 1

TimedTypeOK ==
    /\ parked \subseteq Fibers
    /\ timers \subseteq Fibers
    /\ left \in [Fibers -> 0..MaxTimeout]
    /\ done \subseteq Fibers
    /\ cancel \subseteq Fibers
    /\ wpc \in [Fibers -> WaitPcs]
    /\ asleep \in BOOLEAN
    /\ nap \in 0..Forever

TimedInit ==
    /\ parked = {}
    /\ timers = {}
    /\ left = [p \in Fibers |-> 0]
    /\ done = {}
    /\ cancel = {}
    /\ wpc = [p \in Fibers |-> "idle"]
    /\ asleep = FALSE
    /\ nap = Forever

At(p, l) == wpc' = [wpc EXCEPT ![p] = l]
Woken(p) == wpc[p] = "parked" /\ p \notin parked

-----------------------------------------------------------------------------
(* The waiting fiber.                                                      *)

StartIfEmpty(p, t) ==  \* mutant: the thread is told of the first entry only
    /\ timers' = timers \cup {p}
    /\ left' = [left EXCEPT ![p] = t]
    /\ At(p, IF timers = {} THEN "signal" ELSE "check")

\* Insert the entry; the timer thread is signalled, after the unlock, when the
\* new deadline is before all others.
Start(p, t) ==
    /\ timers' = timers \cup {p}
    /\ left' = [left EXCEPT ![p] = t]
    /\ At(p, IF \A q \in timers : left[q] > t THEN "signal" ELSE "check")

\* The task may be done already, and the deadline past.
WaitTimeout(p, t) ==
    /\ wpc[p] = "idle"
    /\ Start(p, t)
    /\ done' \in {done, done \cup {p}}
    /\ UNCHANGED <<parked, cancel, asleep, nap>>

SignalTimer(p) ==
    /\ wpc[p] = "signal"
    /\ asleep' = FALSE
    /\ nap' = Forever
    /\ At(p, "check")
    /\ UNCHANGED <<parked, timers, left, done, cancel>>

Over(p) ==
    /\ wpc[p] = "check"
    /\ p \in done
    /\ At(p, "leave")
    /\ UNCHANGED <<parked, timers, left, done, cancel, asleep, nap>>

TooLate(p) ==
    /\ wpc[p] = "check"
    /\ p \notin done
    /\ left[p] = 0
    /\ At(p, "leave")
    /\ UNCHANGED <<parked, timers, left, done, cancel, asleep, nap>>

ParkUnchecked(p) ==    \* mutant: the flag is read before the lock is taken
    /\ wpc[p] = "check"
    /\ left[p] > 0
    /\ parked' = parked \cup {p}
    /\ At(p, "parked")
    /\ UNCHANGED <<timers, left, done, cancel, asleep, nap>>

Park(p) ==
    /\ wpc[p] = "check"
    /\ p \notin done
    /\ left[p] > 0
    /\ parked' = parked \cup {p}
    /\ At(p, "parked")
    /\ UNCHANGED <<timers, left, done, cancel, asleep, nap>>

Resume(p) ==
    /\ Woken(p)
    /\ p \notin cancel
    /\ At(p, "check")
    /\ UNCHANGED <<parked, timers, left, done, cancel, asleep, nap>>

ResumeCancelled(p) ==
    /\ Woken(p)
    /\ p \in cancel
    /\ cancel' = cancel \ {p}
    /\ At(p, "leave")
    /\ UNCHANGED <<parked, timers, left, done, asleep, nap>>

LeaveEntry(p) ==       \* mutant: the entry is left to the timer thread
    /\ wpc[p] = "leave"
    /\ done' = done \ {p}
    /\ left' = [left EXCEPT ![p] = 0]
    /\ At(p, "idle")
    /\ UNCHANGED <<parked, timers, cancel, asleep, nap>>

\* timer_cancel, then the return or the throw: the frame is gone.
Leave(p) ==
    /\ wpc[p] = "leave"
    /\ timers' = timers \ {p}
    /\ done' = done \ {p}
    /\ left' = [left EXCEPT ![p] = 0]
    /\ At(p, "idle")
    /\ UNCHANGED <<parked, cancel, asleep, nap>>

-----------------------------------------------------------------------------
(* The timer thread.                                                       *)

Expired == {p \in timers : left[p] = 0}

\* Sleep until the first deadline on the list, or until a signal.
Sleep(es) ==
    /\ asleep' = TRUE
    /\ IF es = {} THEN nap' = Forever
       ELSE \E h \in es : (\A q \in es : left[h] <= left[q]) /\ nap' = left[h]

\* One round: unlist the expired entries and take their fibers off the parked
\* list; with a fiber to publish go round again, otherwise sleep until the next
\* deadline.
TimerRound ==
    /\ ~asleep
    /\ timers' = timers \ Expired
    /\ parked' = parked \ Expired
    /\ IF parked \cap Expired # {}
       THEN UNCHANGED <<asleep, nap>>
       ELSE Sleep(timers')
    /\ UNCHANGED <<left, done, cancel, wpc>>

TimerWake ==
    /\ asleep
    /\ asleep' = FALSE
    /\ nap' = Forever
    /\ UNCHANGED <<parked, timers, left, done, cancel, wpc>>

\* The condition wait times out.
TimerTimeout == nap = 0 /\ TimerWake

-----------------------------------------------------------------------------
(* The environment.                                                        *)

\* Some task completes.  S are those that wait for it; every parked fiber is
\* woken, whatever it waits for.
Complete(S) ==
    /\ done' = done \cup S
    /\ parked' = {}
    /\ UNCHANGED <<timers, left, cancel, wpc, asleep, nap>>

Cancel(p) ==
    /\ p \in Cancellable \ cancel
    /\ cancel' = cancel \cup {p}
    /\ UNCHANGED <<parked, timers, left, done, wpc, asleep, nap>>

\* Time passes; nothing is left to a deadline that is past.
Tick ==
    /\ left' = [p \in Fibers |-> IF left[p] = 0 THEN 0 ELSE left[p] - 1]
    /\ nap' = IF nap \in {0, Forever} THEN nap ELSE nap - 1
    /\ UNCHANGED <<parked, timers, done, cancel, wpc, asleep>>
=============================================================================
