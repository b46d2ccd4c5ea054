------------------------------ MODULE Reactor ------------------------------
(***************************************************************************)
(* Waits for descriptors: io_wait, io_wait_timed, io_close_fd and the      *)
(* reactor thread of cajeta_rt_concurrent_exec.c, beside the timed waits   *)
(* of TimedWait, on one parked list.                                       *)
(*                                                                         *)
(* A descriptor number is in use again as soon as it is closed.  A wait on *)
(* a number that is not fails in epoll_ctl, withdraws its waiter again and *)
(* returns -1, which changes nothing.                                      *)
(***************************************************************************)
EXTENDS TimedWait

CONSTANTS Fds,         \* descriptor numbers
          Dirs,        \* CAJETA_IO_READ and CAJETA_IO_WRITE
          Interests    \* the sets of directions that are waited for

ASSUME ReactorAssumption ==
    /\ Fds \cap {"none", "task", "io"} = {}
    /\ Interests \subseteq (SUBSET Dirs) \ {{}}

VARIABLES waiters,     \* __cajeta_reactor_waiters
          reg,         \* the armed interest in each descriptor; {}: disarmed
          batch,       \* what epoll_wait has returned, until it is processed
          call         \* the wait each fiber is in; a descriptor: io_wait_timed's

ioVars == <<waiters, reg, batch, call>>
vars == <<timedVars, ioVars>>

TypeOK ==
    /\ TimedTypeOK
    /\ waiters \subseteq [fd : Fds, ev : Interests, fiber : Fibers, stack_owned : BOOLEAN]
    /\ reg \in [Fds -> SUBSET Dirs]
    /\ batch \in [Fds -> SUBSET Dirs]
    /\ call \in [Fibers -> {"none", "task", "io"} \cup Fds]

Init ==
    /\ TimedInit
    /\ waiters = {}
    /\ reg = [fd \in Fds |-> {}]
    /\ batch = [fd \in Fds |-> {}]
    /\ call = [p \in Fibers |-> "none"]

Enter(p, c) == wpc[p] = "idle" /\ call' = [call EXCEPT ![p] = c]

\* The interest of every waiter listed for the descriptor.
UnionEvents(ws, fd) == UNION {w.ev : w \in {x \in ws : x.fd = fd}}

\* List the waiter and arm its descriptor for all that are listed.  Waiters of one
\* fiber that are alike fire together, and are one here.
Register(p, fd, ev, stack) ==
    /\ waiters' = waiters \cup {[fd |-> fd, ev |-> ev, fiber |-> p, stack_owned |-> stack]}
    /\ reg' = [reg EXCEPT ![fd] = UnionEvents(waiters', fd)]

\* The fiber's waiter, if io_wait_timed has it on the list.
OnStack(p) == {w \in waiters : w.fiber = p /\ w.stack_owned}

\* reactor_cancel: unlist the waiter and arm for those that remain.
Withdraw(p) ==
    /\ waiters' = waiters \ OnStack(p)
    /\ reg' = [reg EXCEPT ![call[p]] = UnionEvents(waiters', call[p])]

-----------------------------------------------------------------------------
(* The waiting fiber.                                                      *)

TaskWait(p, t) ==
    /\ Enter(p, "task")
    /\ WaitTimeout(p, t)
    /\ UNCHANGED <<waiters, reg, batch>>

\* Registered and parked in one critical section, on a waiter from the heap.
IoWait(p, fd, ev) ==
    /\ Enter(p, "io")
    /\ Register(p, fd, ev, FALSE)
    /\ parked' = parked \cup {p}
    /\ At(p, "parked")
    /\ UNCHANGED <<timers, left, done, cancel, asleep, nap, batch>>

\* io_wait takes any wake for its event, and leaves a cancellation for later.
IoReturn(p) ==
    /\ Woken(p)
    /\ call[p] = "io"
    /\ call' = [call EXCEPT ![p] = "none"]
    /\ At(p, "idle")
    /\ UNCHANGED <<parked, timers, left, done, cancel, asleep, nap, waiters, reg, batch>>

\* A waiter and a timer entry, both on the fiber's stack.
IoWaitTimed(p, fd, ev, t) ==
    /\ Enter(p, fd)
    /\ Register(p, fd, ev, TRUE)
    /\ Start(p, t)
    /\ UNCHANGED <<parked, done, cancel, asleep, nap, batch>>

\* The deadline came first, or a cancellation: withdraw the waiter.  (A cancelled
\* fiber takes the lock for this; what happens before it does might as well have
\* happened before it looked.)
IoGiveUp(p) ==
    /\ call[p] \in Fds
    /\ TooLate(p) \/ ResumeCancelled(p)
    /\ Withdraw(p)
    /\ UNCHANGED <<batch, call>>

GiveUp(p) ==
    /\ call[p] = "task"
    /\ TooLate(p) \/ ResumeCancelled(p)
    /\ UNCHANGED ioVars

Return(p) ==
    /\ Leave(p)
    /\ call' = [call EXCEPT ![p] = "none"]
    /\ UNCHANGED <<waiters, reg, batch>>

\* The steps both timed waits take alike.
Waiting(p) ==
    /\ call[p] # "io"
    /\ SignalTimer(p) \/ Over(p) \/ Park(p) \/ Resume(p)
    /\ UNCHANGED ioVars

FiberStep(p) == IoReturn(p) \/ IoGiveUp(p) \/ GiveUp(p) \/ Return(p) \/ Waiting(p)

-----------------------------------------------------------------------------
(* The reactor thread and io_close_fd.                                     *)

NoEvents == batch = [fd \in Fds |-> {}]

\* epoll_wait returns some armed descriptors, and EPOLLONESHOT disarms them.
\* What fired is part of the interest, or both directions on an error.
EpollWait ==
    /\ NoEvents
    /\ batch' \in {b \in [Fds -> SUBSET Dirs] :
                      \A fd \in Fds : b[fd] # {} => reg[fd] # {} /\ (b[fd] \subseteq reg[fd] \/ b[fd] = Dirs)}
    /\ batch' # batch
    /\ reg' = [fd \in Fds |-> IF batch'[fd] = {} THEN reg[fd] ELSE {}]
    /\ UNCHANGED <<timedVars, waiters, call>>

\* Unlist the waiters, tell those that are on a stack, take the fibers off the
\* parked list.
Fire(hit) ==
    /\ waiters' = waiters \ hit
    /\ done' = done \cup {w.fiber : w \in {x \in hit : x.stack_owned}}
    /\ parked' = parked \ {w.fiber : w \in hit}
    /\ UNCHANGED <<timers, left, cancel, wpc, asleep, nap, call>>

ProcessNoRearm ==      \* mutant: the waiters that did not match stay disarmed
    /\ ~NoEvents
    /\ Fire({w \in waiters : w.ev \cap batch[w.fd] # {}})
    /\ batch' = [fd \in Fds |-> {}]
    /\ UNCHANGED reg

\* The whole batch is processed in one critical section; each descriptor is armed
\* again for the waiters that did not match.
Process ==
    /\ ~NoEvents
    /\ Fire({w \in waiters : w.ev \cap batch[w.fd] # {}})
    /\ batch' = [fd \in Fds |-> {}]
    /\ reg' = [fd \in Fds |-> IF batch[fd] = {} THEN reg[fd] ELSE UnionEvents(waiters', fd)]

\* Wake all that wait for the descriptor, and close it.
CloseFd(fd) ==
    /\ Fire({w \in waiters : w.fd = fd})
    /\ reg' = [reg EXCEPT ![fd] = {}]
    /\ UNCHANGED batch

-----------------------------------------------------------------------------
Calling(p) ==
    \/ \E t \in 0..MaxTimeout : TaskWait(p, t)
    \/ \E fd \in Fds, ev \in Interests : IoWait(p, fd, ev)
    \/ \E fd \in Fds, ev \in Interests, t \in 0..MaxTimeout : IoWaitTimed(p, fd, ev, t)

Timer == (TimerRound \/ TimerTimeout) /\ UNCHANGED ioVars

Environment ==
    /\ \/ \E S \in SUBSET {p \in Fibers : call[p] = "task"} : Complete(S)
       \/ \E p \in Fibers : Cancel(p)
       \/ TimerWake
       \/ Tick
    /\ UNCHANGED ioVars

Next ==
    \/ \E p \in Fibers : Calling(p) \/ FiberStep(p)
    \/ Timer \/ EpollWait \/ Process
    \/ \E fd \in Fds : CloseFd(fd)
    \/ Environment

Spec == Init /\ [][Next]_vars

-----------------------------------------------------------------------------
(* Correctness.                                                            *)

\* Timer entries and timed waiters are on the stack of the fiber that waits:
\* neither is on a list any more when the call that put it there is over.
FramesAlive ==
    /\ \A p \in timers : wpc[p] # "idle" /\ call[p] # "io"
    /\ \A w \in waiters : w.stack_owned => wpc[w.fiber] \notin {"idle", "leave"} /\ call[w.fiber] = w.fd

\* No arm is lost: whatever is registered, withdrawn, fired or closed in between,
\* a listed waiter's descriptor is armed for it, or an event that the reactor has
\* yet to process will arm it again.
Armed == \A w \in waiters : w.ev \subseteq reg[w.fd] \/ batch[w.fd] # {}

\* Whoever is parked will be woken: his wait is not over, his deadline, if he
\* has one, is still on the timer list, and so is his waiter on the reactor's.
WakeComing ==
    \A p \in parked :
        /\ p \notin done
        /\ call[p] # "io" => p \in timers
        /\ call[p] = "io" => \E w \in waiters : w.fiber = p /\ ~w.stack_owned
        /\ call[p] \in Fds => OnStack(p) # {}

\* The timer thread never sleeps past a deadline without a signal on its way.
NoOversleep ==
    asleep => \A p \in timers : nap <= left[p] \/ \E q \in Fibers : wpc[q] = "signal"
=============================================================================
