--------------------------- MODULE ReactorProofs ---------------------------
(***************************************************************************)
(* For any number of fibers, descriptors and timeouts: no list keeps an    *)
(* entry of a frame that is gone, no arm of a descriptor is lost, whoever  *)
(* is parked has somebody who will wake him, and the timer thread does not *)
(* sleep past a deadline.                                                  *)
(***************************************************************************)
EXTENDS Reactor, TLAPS

Waits == {"signal", "check", "parked"}

\* Where a fiber is and which wait it is in go together, and a wait has its timer
\* entry and its waiter until what they stand for has happened.
Coherent ==
    /\ \A p \in parked : wpc[p] = "parked"
    /\ \A p \in done : call[p] \in {"task"} \cup Fds /\ OnStack(p) = {}
    /\ \A w, x \in waiters : w.stack_owned /\ x.stack_owned /\ w.fiber = x.fiber => w = x
    /\ \A p \in Fibers :
          /\ wpc[p] = "idle" <=> call[p] = "none"
          /\ call[p] = "io" => wpc[p] = "parked"
          /\ wpc[p] \in Waits /\ call[p] # "io" => p \in timers \/ left[p] = 0
          /\ wpc[p] \in Waits /\ call[p] \in Fds
                => p \in done \/ OnStack(p) # {}

RInv == TypeOK /\ FramesAlive /\ Armed /\ WakeComing /\ NoOversleep /\ Coherent

WaiterType == [fd : Fds, ev : Interests, fiber : Fibers, stack_owned : BOOLEAN]

-----------------------------------------------------------------------------
(* Descriptors and their interest.                                         *)

\* The union covers every waiter on the list, and is a set of directions.
LEMMA UnionCovers ==
    ASSUME NEW ws \in SUBSET WaiterType
    PROVE  /\ \A w \in ws : w.ev \subseteq UnionEvents(ws, w.fd)
           /\ \A fd : UnionEvents(ws, fd) \subseteq Dirs
  BY ReactorAssumption DEF UnionEvents, WaiterType

-----------------------------------------------------------------------------
(* The timed wait.                                                         *)

\* A fiber's steps between its call and its end, which leave the lists of timers
\* and waiters alone.
LEMMA WaitingInv ==
    ASSUME RInv, NEW p \in Fibers, Waiting(p)
    PROVE  RInv'
  <1> USE DEF RInv
  <1>1. /\ UNCHANGED <<timers, left, done, waiters, reg, batch, call, cancel>>
        /\ call[p] # "io"
        /\ SignalTimer(p) \/ Over(p) \/ Park(p) \/ Resume(p)
    BY DEF Waiting, SignalTimer, Over, Park, Resume, ioVars
  <1>2. PICK l \in WaitPcs :
           /\ At(p, l) /\ wpc[p] \in Waits /\ l \notin {"idle", "signal"}
           /\ l = "leave" => p \in done /\ wpc[p] = "check"
           /\ wpc[p] = "signal" => asleep' = FALSE
    BY <1>1 DEF SignalTimer, Over, Park, Resume, Woken, WaitPcs, Waits
  <1>3. wpc' \in [Fibers -> WaitPcs] /\ wpc'[p] = l /\ \A q \in Fibers : q # p => wpc'[q] = wpc[q]
    BY <1>2 DEF TypeOK, TimedTypeOK, At
  <1>4. /\ asleep' \in BOOLEAN /\ nap' \in 0..Forever
        /\ asleep' => asleep /\ nap' = nap
        /\ parked' = parked \/ (parked' = parked \cup {p} /\ l = "parked" /\ p \notin done /\ left[p] > 0)
        /\ wpc[p] = "parked" => p \notin parked
    <2> USE DEF TypeOK, TimedTypeOK
    <2>1. CASE SignalTimer(p)
      <3>1. nap' \in 0..Forever
        BY <2>1, TimedAssumption DEF SignalTimer, Forever
      <3> QED BY <2>1, <3>1 DEF SignalTimer
    <2>2. CASE Over(p)
      BY <2>2 DEF Over
    <2>3. CASE Park(p)
      BY <2>3, <1>3 DEF Park, At
    <2>4. CASE Resume(p)
      BY <2>4 DEF Resume, Woken
    <2> QED BY <1>1, <2>1, <2>2, <2>3, <2>4
  <1>5. TypeOK'
    BY <1>1, <1>3, <1>4 DEF TypeOK, TimedTypeOK
  <1>6. FramesAlive'
    <2>1. \A w \in waiters : w.fiber \in Fibers
      BY DEF TypeOK
    <2>2. ASSUME l = "leave", NEW w \in waiters, w.stack_owned, w.fiber = p PROVE FALSE
      BY <1>2, <2>2 DEF Coherent, OnStack
    <2> QED BY <1>1, <1>2, <1>3, <2>1, <2>2 DEF FramesAlive, Waits, TypeOK, TimedTypeOK
  <1>7. Armed'
    BY <1>1 DEF Armed
  <1>8. WakeComing'
    BY <1>1, <1>2, <1>3, <1>4 DEF WakeComing, Coherent, OnStack, Waits
  <1>9. NoOversleep'
    BY <1>1, <1>2, <1>3, <1>4 DEF NoOversleep
  <1>10. Coherent'
    BY <1>1, <1>2, <1>3, <1>4 DEF Coherent, Waits, OnStack, TypeOK, TimedTypeOK
  <1> QED BY <1>5, <1>6, <1>7, <1>8, <1>9, <1>10

\* A wait for a task that is given up.
LEMMA GiveUpInv ==
    ASSUME RInv, NEW p \in Fibers, GiveUp(p)
    PROVE  RInv'
  <1> USE DEF RInv
  <1>1. /\ UNCHANGED <<parked, timers, left, done, asleep, nap, waiters, reg, batch, call>>
        /\ call[p] = "task" /\ At(p, "leave") /\ p \notin parked
        /\ wpc[p] \in {"check", "parked"} /\ cancel' \subseteq Fibers
    BY DEF GiveUp, TooLate, ResumeCancelled, ioVars, Woken, Coherent, TypeOK, TimedTypeOK
  <1>2. wpc' \in [Fibers -> WaitPcs] /\ wpc'[p] = "leave" /\ \A q \in Fibers : q # p => wpc'[q] = wpc[q]
    BY <1>1 DEF TypeOK, TimedTypeOK, At, WaitPcs
  <1>3. TypeOK'
    BY <1>1, <1>2 DEF TypeOK, TimedTypeOK
  <1>4. FramesAlive'
    <2>1. \A w \in waiters : w.fiber \in Fibers /\ w.fd \in Fds
      BY DEF TypeOK
    <2> QED BY <1>1, <1>2, <2>1, ReactorAssumption DEF FramesAlive, TypeOK, TimedTypeOK
  <1>5. Armed'
    BY <1>1 DEF Armed
  <1>6. WakeComing'
    BY <1>1 DEF WakeComing, OnStack
  <1>7. NoOversleep'
    BY <1>1, <1>2 DEF NoOversleep
  <1>8. Coherent'
    BY <1>1, <1>2 DEF Coherent, Waits, OnStack, TypeOK, TimedTypeOK
  <1> QED BY <1>3, <1>4, <1>5, <1>6, <1>7, <1>8

\* A wait for a descriptor that is given up: the waiter goes before the frame does.
LEMMA IoGiveUpInv ==
    ASSUME RInv, NEW p \in Fibers, IoGiveUp(p)
    PROVE  RInv'
  <1> USE DEF RInv
  <1>1. /\ UNCHANGED <<parked, timers, left, done, asleep, nap, batch, call>>
        /\ call[p] \in Fds /\ At(p, "leave") /\ p \notin parked
        /\ wpc[p] \in {"check", "parked"} /\ cancel' \subseteq Fibers
        /\ waiters' = waiters \ OnStack(p)
        /\ reg' = [reg EXCEPT ![call[p]] = UnionEvents(waiters', call[p])]
    BY DEF IoGiveUp, TooLate, ResumeCancelled, Woken, Coherent, TypeOK, TimedTypeOK, Withdraw
  <1>2. wpc' \in [Fibers -> WaitPcs] /\ wpc'[p] = "leave" /\ \A q \in Fibers : q # p => wpc'[q] = wpc[q]
    BY <1>1 DEF TypeOK, TimedTypeOK, At, WaitPcs
  <1>3. waiters' \in SUBSET WaiterType /\ \A w \in waiters' : w.fiber \in Fibers /\ w.fd \in Fds
    BY <1>1 DEF TypeOK, WaiterType
  <1>4. /\ \A w \in waiters' : w.ev \subseteq UnionEvents(waiters', w.fd)
        /\ UnionEvents(waiters', call[p]) \subseteq Dirs
    BY <1>3, UnionCovers
  <1>5. reg' \in [Fds -> SUBSET Dirs]
    BY <1>1, <1>4 DEF TypeOK
  <1>6. TypeOK'
    BY <1>1, <1>2, <1>3, <1>5 DEF TypeOK, TimedTypeOK, WaiterType
  <1>7. FramesAlive'
    BY <1>1, <1>2, <1>3, ReactorAssumption DEF FramesAlive, OnStack, TypeOK, TimedTypeOK
  <1>8. Armed'
    BY <1>1, <1>3, <1>4 DEF Armed, TypeOK
  <1>9. WakeComing'
    BY <1>1, ReactorAssumption DEF WakeComing, OnStack
  <1>10. NoOversleep'
    BY <1>1, <1>2 DEF NoOversleep
  <1>11. Coherent'
    <2>1. /\ \A q \in Fibers : q # p => OnStack(q)' = OnStack(q)
          /\ \A q \in done : OnStack(q)' = {}
      BY <1>1 DEF OnStack, Coherent
    <2>2. \A w, x \in waiters' : w.stack_owned /\ x.stack_owned /\ w.fiber = x.fiber => w = x
      BY <1>1 DEF Coherent
    <2> QED BY <1>1, <1>2, <2>1, <2>2, ReactorAssumption DEF Coherent, Waits, TypeOK, TimedTypeOK
  <1> QED BY <1>6, <1>7, <1>8, <1>9, <1>10, <1>11

\* The return from a timed wait, and from io_wait.
LEMMA ReturnInv ==
    ASSUME RInv, NEW p \in Fibers, Return(p) \/ IoReturn(p)
    PROVE  RInv'
  <1> USE DEF RInv
  <1>1. /\ UNCHANGED <<parked, cancel, asleep, nap, waiters, reg, batch>>
        /\ At(p, "idle") /\ p \notin parked /\ OnStack(p) = {}
        /\ call' = [call EXCEPT ![p] = "none"]
        /\ timers' = timers \ {p} /\ done' = done \ {p}
        /\ wpc[p] # "signal"
    <2>1. CASE Return(p)
      BY <2>1 DEF Return, Leave, Coherent, FramesAlive, OnStack
    <2>2. CASE IoReturn(p)
      <3>1. p \notin timers /\ p \notin done /\ OnStack(p) = {}
        BY <2>2, ReactorAssumption DEF IoReturn, FramesAlive, Coherent, OnStack, TypeOK
      <3> QED BY <2>2, <3>1 DEF IoReturn, Woken
    <2> QED BY <2>1, <2>2
  <1>2. /\ left' \in [Fibers -> 0..MaxTimeout]
        /\ \A q \in Fibers : q # p => left'[q] = left[q]
    BY TimedAssumption DEF Return, Leave, IoReturn, TypeOK, TimedTypeOK
  <1>3. /\ wpc' \in [Fibers -> WaitPcs] /\ wpc'[p] = "idle"
        /\ call'[p] = "none"
        /\ \A q \in Fibers : q # p => wpc'[q] = wpc[q] /\ call'[q] = call[q]
        /\ call' \in [Fibers -> {"none", "task", "io"} \cup Fds]
    BY <1>1 DEF TypeOK, TimedTypeOK, At, WaitPcs
  <1>4. TypeOK'
    BY <1>1, <1>2, <1>3 DEF TypeOK, TimedTypeOK
  <1>5. FramesAlive'
    <2>1. \A w \in waiters : w.fiber \in Fibers /\ (w.stack_owned => w.fiber # p)
      BY <1>1 DEF TypeOK, OnStack
    <2> QED BY <1>1, <1>3, <2>1 DEF FramesAlive, TypeOK, TimedTypeOK
  <1>6. Armed'
    BY <1>1 DEF Armed
  <1>7. WakeComing'
    BY <1>1, <1>3 DEF WakeComing, OnStack, TypeOK, TimedTypeOK
  <1>8. NoOversleep'
    BY <1>1, <1>2, <1>3 DEF NoOversleep, TypeOK, TimedTypeOK
  <1>9. Coherent'
    BY <1>1, <1>2, <1>3, ReactorAssumption DEF Coherent, Waits, OnStack, TypeOK, TimedTypeOK
  <1> QED BY <1>4, <1>5, <1>6, <1>7, <1>8, <1>9

-----------------------------------------------------------------------------
(* Entering a wait.                                                        *)

\* The timer thread learns of a deadline before the one it sleeps for.
LEMMA StartKeeps ==
    ASSUME RInv, NEW p \in Fibers, NEW t \in 0..MaxTimeout, wpc[p] = "idle",
           Start(p, t), UNCHANGED <<asleep, nap>>
    PROVE  /\ NoOversleep'
           /\ left' \in [Fibers -> 0..MaxTimeout]
           /\ wpc' \in [Fibers -> WaitPcs] /\ wpc'[p] \in {"signal", "check"}
           /\ \A q \in Fibers : q # p => wpc'[q] = wpc[q] /\ left'[q] = left[q]
           /\ p \notin timers
  <1>1. /\ left' \in [Fibers -> 0..MaxTimeout] /\ left'[p] = t
        /\ wpc' \in [Fibers -> WaitPcs] /\ wpc'[p] \in {"signal", "check"}
        /\ \A q \in Fibers : q # p => wpc'[q] = wpc[q] /\ left'[q] = left[q]
    BY DEF Start, At, RInv, TypeOK, TimedTypeOK, WaitPcs
  <1>2. p \notin timers /\ timers \subseteq Fibers
    BY DEF RInv, FramesAlive, TypeOK, TimedTypeOK
  <1>3. ASSUME asleep', NEW q \in timers' PROVE nap' <= left'[q] \/ \E x \in Fibers : wpc'[x] = "signal"
    <2>1. CASE wpc'[p] = "signal"
      BY <2>1
    <2>2. CASE q # p
      BY <1>1, <1>2, <1>3, <2>2 DEF Start, RInv, NoOversleep
    <2>3. CASE q = p /\ wpc'[p] # "signal"
      <3>1. PICK x \in timers : ~(left[x] > t)
        BY <2>3 DEF Start, At, RInv, TypeOK, TimedTypeOK
      <3>2. nap <= left[x] \/ \E y \in Fibers : wpc[y] = "signal"
        BY <1>3, <3>1 DEF RInv, NoOversleep
      <3>3. left[x] \in 0..MaxTimeout /\ nap \in 0..Forever
        BY <1>2, <3>1 DEF RInv, TypeOK, TimedTypeOK
      <3> QED BY <1>1, <2>3, <3>1, <3>2, <3>3, TimedAssumption DEF Forever
    <2> QED BY <2>1, <2>2, <2>3
  <1> QED BY <1>1, <1>2, <1>3 DEF NoOversleep

LEMMA TaskWaitInv ==
    ASSUME RInv, NEW p \in Fibers, NEW t \in 0..MaxTimeout, TaskWait(p, t)
    PROVE  RInv'
  <1> USE DEF RInv
  <1>1. /\ wpc[p] = "idle" /\ call[p] = "none" /\ Start(p, t)
        /\ UNCHANGED <<parked, cancel, asleep, nap, waiters, reg, batch>>
        /\ timers' = timers \cup {p}
        /\ done' \in {done, done \cup {p}}
        /\ call' = [call EXCEPT ![p] = "task"]
    BY DEF TaskWait, Enter, WaitTimeout, Start, Coherent
  <1>2. /\ NoOversleep'
        /\ left' \in [Fibers -> 0..MaxTimeout]
        /\ wpc' \in [Fibers -> WaitPcs] /\ wpc'[p] \in {"signal", "check"}
        /\ \A q \in Fibers : q # p => wpc'[q] = wpc[q] /\ left'[q] = left[q]
    BY <1>1, StartKeeps
  <1>3. /\ call' \in [Fibers -> {"none", "task", "io"} \cup Fds] /\ call'[p] = "task"
        /\ \A q \in Fibers : q # p => call'[q] = call[q]
    BY <1>1 DEF TypeOK
  <1>4. TypeOK'
    BY <1>1, <1>2, <1>3 DEF TypeOK, TimedTypeOK
  <1>5. \A w \in waiters : w.fiber \in Fibers /\ (w.stack_owned => w.fiber # p)
    BY <1>1 DEF TypeOK, FramesAlive
  <1>6. FramesAlive'
    BY <1>1, <1>2, <1>3, <1>5 DEF FramesAlive, TypeOK, TimedTypeOK
  <1>7. Armed'
    BY <1>1 DEF Armed
  <1>8. p \notin parked /\ OnStack(p) = {}
    BY <1>1, <1>5 DEF Coherent, OnStack
  <1>9. WakeComing'
    BY <1>1, <1>3, <1>8 DEF WakeComing, OnStack, TypeOK, TimedTypeOK
  <1>10. Coherent'
    BY <1>1, <1>2, <1>3, <1>8, ReactorAssumption DEF Coherent, Waits, OnStack, TypeOK, TimedTypeOK
  <1> QED BY <1>2, <1>4, <1>6, <1>7, <1>9, <1>10

\* Listing a waiter arms its descriptor for it and for its peers.
LEMMA RegisterArms ==
    ASSUME RInv, NEW p \in Fibers, NEW fd \in Fds, NEW ev \in Interests, NEW stack \in BOOLEAN,
           Register(p, fd, ev, stack), UNCHANGED batch
    PROVE  /\ Armed'
           /\ waiters' \in SUBSET WaiterType
           /\ reg' \in [Fds -> SUBSET Dirs]
  <1>1. waiters' \in SUBSET WaiterType
    BY DEF Register, RInv, TypeOK, WaiterType
  <1>2. /\ \A w \in waiters' : w.ev \subseteq UnionEvents(waiters', w.fd)
        /\ UnionEvents(waiters', fd) \subseteq Dirs
    BY <1>1, UnionCovers
  <1>3. reg' \in [Fds -> SUBSET Dirs] /\ reg'[fd] = UnionEvents(waiters', fd)
        /\ \A d \in Fds : d # fd => reg'[d] = reg[d]
    BY <1>2 DEF Register, RInv, TypeOK
  <1>4. ASSUME NEW w \in waiters' PROVE w.ev \subseteq reg'[w.fd] \/ batch'[w.fd] # {}
    <2>1. CASE w.fd = fd
      BY <1>2, <1>3, <2>1
    <2>2. CASE w.fd # fd
      <3>1. w \in waiters /\ w.fd \in Fds
        BY <1>1, <2>2 DEF Register, WaiterType
      <3> QED BY <1>3, <2>2, <3>1 DEF RInv, Armed
    <2> QED BY <2>1, <2>2
  <1> QED BY <1>1, <1>3, <1>4 DEF Armed

LEMMA IoWaitInv ==
    ASSUME RInv, NEW p \in Fibers, NEW fd \in Fds, NEW ev \in Interests, IoWait(p, fd, ev)
    PROVE  RInv'
  <1> USE DEF RInv
  <1>1. /\ wpc[p] = "idle" /\ call[p] = "none" /\ Register(p, fd, ev, FALSE)
        /\ UNCHANGED <<timers, left, done, cancel, asleep, nap, batch>>
        /\ parked' = parked \cup {p} /\ At(p, "parked")
        /\ call' = [call EXCEPT ![p] = "io"]
    BY DEF IoWait, Enter, Coherent
  <1>2. Armed' /\ waiters' \in SUBSET WaiterType /\ reg' \in [Fds -> SUBSET Dirs]
    BY <1>1, RegisterArms
  <1>3. /\ wpc' \in [Fibers -> WaitPcs] /\ wpc'[p] = "parked" /\ call'[p] = "io"
        /\ \A q \in Fibers : q # p => wpc'[q] = wpc[q] /\ call'[q] = call[q]
        /\ call' \in [Fibers -> {"none", "task", "io"} \cup Fds]
    BY <1>1 DEF TypeOK, TimedTypeOK, At, WaitPcs
  <1>4. TypeOK'
    BY <1>1, <1>2, <1>3 DEF TypeOK, TimedTypeOK, WaiterType
  <1> DEFINE new == [fd |-> fd, ev |-> ev, fiber |-> p, stack_owned |-> FALSE]
  <1>5. waiters' = waiters \cup {new} /\ new.fiber = p /\ new.fd = fd /\ ~new.stack_owned
    BY <1>1 DEF Register
  <1> HIDE DEF new
  <1>6. \A w \in waiters : w.fiber \in Fibers /\ (w.stack_owned => w.fiber # p)
    BY <1>1 DEF TypeOK, FramesAlive
  <1>7. p \notin timers /\ p \notin done
    BY <1>1, ReactorAssumption DEF FramesAlive, Coherent
  <1>8. FramesAlive'
    BY <1>1, <1>3, <1>5, <1>6, <1>7 DEF FramesAlive, TypeOK, TimedTypeOK
  <1>9. \A q \in Fibers : OnStack(q)' = OnStack(q)
    BY <1>5 DEF OnStack
  <1>10. WakeComing'
    BY <1>1, <1>3, <1>5, <1>7, <1>9, ReactorAssumption DEF WakeComing, TypeOK, TimedTypeOK
  <1>11. NoOversleep'
    BY <1>1, <1>3 DEF NoOversleep
  <1>12. Coherent'
    BY <1>1, <1>3, <1>5, <1>7, <1>9, ReactorAssumption DEF Coherent, Waits, TypeOK, TimedTypeOK
  <1> QED BY <1>2, <1>4, <1>8, <1>10, <1>11, <1>12

LEMMA IoWaitTimedInv ==
    ASSUME RInv, NEW p \in Fibers, NEW fd \in Fds, NEW ev \in Interests,
           NEW t \in 0..MaxTimeout, IoWaitTimed(p, fd, ev, t)
    PROVE  RInv'
  <1> USE DEF RInv
  <1>1. /\ wpc[p] = "idle" /\ call[p] = "none" /\ Register(p, fd, ev, TRUE) /\ Start(p, t)
        /\ UNCHANGED <<parked, done, cancel, asleep, nap, batch>>
        /\ timers' = timers \cup {p}
        /\ call' = [call EXCEPT ![p] = fd]
    BY DEF IoWaitTimed, Enter, Coherent, Start
  <1>2. Armed' /\ waiters' \in SUBSET WaiterType /\ reg' \in [Fds -> SUBSET Dirs]
    BY <1>1, RegisterArms
  <1>3. /\ NoOversleep'
        /\ left' \in [Fibers -> 0..MaxTimeout]
        /\ wpc' \in [Fibers -> WaitPcs] /\ wpc'[p] \in {"signal", "check"}
        /\ \A q \in Fibers : q # p => wpc'[q] = wpc[q] /\ left'[q] = left[q]
    BY <1>1, StartKeeps
  <1>4. /\ call' \in [Fibers -> {"none", "task", "io"} \cup Fds] /\ call'[p] = fd
        /\ \A q \in Fibers : q # p => call'[q] = call[q]
    BY <1>1 DEF TypeOK
  <1>5. TypeOK'
    BY <1>1, <1>2, <1>3, <1>4 DEF TypeOK, TimedTypeOK, WaiterType
  <1> DEFINE new == [fd |-> fd, ev |-> ev, fiber |-> p, stack_owned |-> TRUE]
  <1>6. waiters' = waiters \cup {new} /\ new.fiber = p /\ new.fd = fd /\ new.stack_owned
    BY <1>1 DEF Register
  <1> HIDE DEF new
  <1>7. \A w \in waiters : w.fiber \in Fibers /\ (w.stack_owned => w.fiber # p)
    BY <1>1 DEF TypeOK, FramesAlive
  <1>8. p \notin parked /\ p \notin done
    BY <1>1, ReactorAssumption DEF Coherent
  <1>9. FramesAlive'
    BY <1>1, <1>3, <1>4, <1>6, <1>7, ReactorAssumption DEF FramesAlive, TypeOK, TimedTypeOK
  <1>10. (\A q \in Fibers : q # p => OnStack(q)' = OnStack(q)) /\ OnStack(p)' # {}
    BY <1>6 DEF OnStack
  <1>11. WakeComing'
    BY <1>1, <1>4, <1>6, <1>8, <1>10 DEF WakeComing, TypeOK, TimedTypeOK
  <1>12. Coherent'
    BY <1>1, <1>3, <1>4, <1>6, <1>7, <1>8, <1>10, ReactorAssumption
       DEF Coherent, Waits, TypeOK, TimedTypeOK
  <1> QED BY <1>2, <1>3, <1>5, <1>9, <1>11, <1>12

-----------------------------------------------------------------------------
(* The timer thread.                                                       *)

\* A round takes each expired entry off its list together with its fiber off the
\* other, and then sleeps no longer than the next deadline allows.
LEMMA TimerRoundInv ==
    ASSUME RInv, TimerRound, UNCHANGED ioVars
    PROVE  RInv'
  <1> USE DEF RInv
  <1>1. /\ UNCHANGED <<left, done, cancel, wpc, waiters, reg, batch, call>>
        /\ timers' = timers \ Expired /\ parked' = parked \ Expired
        /\ timers \subseteq Fibers /\ left \in [Fibers -> 0..MaxTimeout]
    BY DEF TimerRound, ioVars, TypeOK, TimedTypeOK
  <1>2. /\ asleep' \in BOOLEAN /\ nap' \in 0..Forever
        /\ asleep' => \A p \in timers' : nap' <= left[p]
    <2>1. CASE parked \cap Expired # {}
      <3>1. asleep' = FALSE /\ nap' = nap
        BY <2>1 DEF TimerRound, TypeOK, TimedTypeOK
      <3> QED BY <3>1 DEF TypeOK, TimedTypeOK
    <2>2. CASE parked \cap Expired = {}
      <3>1. Sleep(timers')
        BY <2>2 DEF TimerRound
      <3>2. CASE timers' = {}
        BY <3>1, <3>2, TimedAssumption DEF Sleep, Forever
      <3>3. CASE timers' # {}
        <4>1. PICK h \in timers' : (\A q \in timers' : left[h] <= left[q]) /\ nap' = left[h]
          BY <3>1, <3>3 DEF Sleep
        <4>2. left[h] \in 0..MaxTimeout
          BY <1>1, <4>1
        <4>3. nap' \in 0..Forever
          BY <4>1, <4>2, TimedAssumption DEF Forever
        <4>4. asleep' = TRUE
          BY <3>1 DEF Sleep
        <4> QED BY <4>1, <4>3, <4>4
      <3> QED BY <3>2, <3>3
    <2> QED BY <2>1, <2>2
  <1>3. TypeOK'
    BY <1>1, <1>2 DEF TypeOK, TimedTypeOK
  <1>4. FramesAlive' /\ Armed'
    BY <1>1 DEF FramesAlive, Armed
  <1>5. WakeComing'
    BY <1>1 DEF WakeComing, OnStack
  <1>6. NoOversleep'
    BY <1>1, <1>2 DEF NoOversleep
  <1>7. Coherent'
    BY <1>1 DEF Coherent, Expired, OnStack
  <1> QED BY <1>3, <1>4, <1>5, <1>6, <1>7

\* A wake of the timer thread, a completion, a cancellation's arrival, a tick.
LEMMA EnvironmentInv ==
    ASSUME RInv, Environment \/ (TimerTimeout /\ UNCHANGED ioVars)
    PROVE  RInv'
  <1> USE DEF RInv
  <1>1. CASE TimerWake /\ UNCHANGED ioVars
    <2>1. /\ UNCHANGED <<parked, timers, left, done, cancel, wpc, waiters, reg, batch, call>>
          /\ asleep' = FALSE /\ nap' = Forever
      BY <1>1 DEF TimerWake, ioVars
    <2>2. nap' \in 0..Forever
      BY <2>1, TimedAssumption DEF Forever
    <2>3. TypeOK'
      BY <2>1, <2>2 DEF TypeOK, TimedTypeOK
    <2> QED BY <2>1, <2>3 DEF FramesAlive, Armed, WakeComing, NoOversleep, Coherent, OnStack
  <1>2. ASSUME NEW S \in SUBSET {p \in Fibers : call[p] = "task"}, Complete(S), UNCHANGED ioVars
        PROVE  RInv'
    <2>1. /\ UNCHANGED <<timers, left, cancel, wpc, asleep, nap, waiters, reg, batch, call>>
          /\ done' = done \cup S /\ parked' = {}
      BY <1>2 DEF Complete, ioVars
    <2>2. TypeOK'
      BY <2>1 DEF TypeOK, TimedTypeOK
    <2>3. \A w \in waiters : w.stack_owned => w.fiber \notin S
      BY ReactorAssumption DEF FramesAlive, TypeOK
    <2>4. Coherent'
      BY <2>1, <2>3 DEF Coherent, OnStack
    <2> QED BY <2>1, <2>2, <2>4 DEF FramesAlive, Armed, WakeComing, NoOversleep
  <1>3. ASSUME NEW p \in Fibers, Cancel(p), UNCHANGED ioVars PROVE RInv'
    <2>1. /\ UNCHANGED <<parked, timers, left, done, wpc, asleep, nap, waiters, reg, batch, call>>
          /\ cancel' = cancel \cup {p}
      BY <1>3 DEF Cancel, ioVars
    <2>2. TypeOK'
      BY <2>1 DEF TypeOK, TimedTypeOK
    <2> QED BY <2>1, <2>2 DEF FramesAlive, Armed, WakeComing, NoOversleep, Coherent, OnStack
  <1>4. CASE Tick /\ UNCHANGED ioVars
    <2>1. /\ UNCHANGED <<parked, timers, done, cancel, wpc, asleep, waiters, reg, batch, call>>
          /\ left' = [p \in Fibers |-> IF left[p] = 0 THEN 0 ELSE left[p] - 1]
          /\ nap' = IF nap \in {0, Forever} THEN nap ELSE nap - 1
      BY <1>4 DEF Tick, ioVars
    <2>2. left \in [Fibers -> 0..MaxTimeout] /\ nap \in 0..Forever /\ timers \subseteq Fibers
      BY DEF TypeOK, TimedTypeOK
    <2>3. left' \in [Fibers -> 0..MaxTimeout] /\ nap' \in 0..Forever
      BY <2>1, <2>2, TimedAssumption DEF Forever
    <2>4. TypeOK'
      BY <2>1, <2>3 DEF TypeOK, TimedTypeOK
    <2>5. \A p \in timers : nap <= left[p] => nap' <= left'[p]
      BY <2>1, <2>2, TimedAssumption DEF Forever
    <2>6. NoOversleep'
      BY <2>1, <2>5 DEF NoOversleep
    <2>7. Coherent'
      BY <2>1, <2>2 DEF Coherent, OnStack
    <2> QED BY <2>1, <2>4, <2>6, <2>7 DEF FramesAlive, Armed, WakeComing, OnStack
  <1> QED BY <1>1, <1>2, <1>3, <1>4 DEF Environment, TimerTimeout

-----------------------------------------------------------------------------
(* The reactor thread and io_close_fd.                                     *)

LEMMA EpollWaitInv ==
    ASSUME RInv, EpollWait
    PROVE  RInv'
  <1> USE DEF RInv
  <1>1. /\ UNCHANGED <<parked, timers, left, done, cancel, wpc, asleep, nap, waiters, call>>
        /\ batch' \in [Fds -> SUBSET Dirs]
        /\ reg' = [fd \in Fds |-> IF batch'[fd] = {} THEN reg[fd] ELSE {}]
        /\ \A fd \in Fds : batch[fd] = {}
    BY DEF EpollWait, timedVars, NoEvents
  <1>2. TypeOK'
    BY <1>1 DEF TypeOK, TimedTypeOK
  <1>3. Armed'
    BY <1>1 DEF Armed, TypeOK
  <1> QED BY <1>1, <1>2, <1>3 DEF FramesAlive, WakeComing, NoOversleep, Coherent, OnStack

\* Waiters that are fired are off the list, and their fibers, told or awake, off
\* the parked one.
LEMMA FireInv ==
    ASSUME RInv, NEW hit \in SUBSET waiters, Fire(hit),
           reg' \in [Fds -> SUBSET Dirs], batch' \in [Fds -> SUBSET Dirs], Armed'
    PROVE  RInv'
  <1> USE DEF RInv
  <1>1. /\ UNCHANGED <<timers, left, cancel, wpc, asleep, nap, call>>
        /\ waiters' = waiters \ hit
        /\ done' = done \cup {w.fiber : w \in {x \in hit : x.stack_owned}}
        /\ parked' = parked \ {w.fiber : w \in hit}
    BY DEF Fire
  <1>2. \A w \in waiters : w.fiber \in Fibers /\ w.fd \in Fds
    BY DEF TypeOK
  <1>3. TypeOK'
    BY <1>1, <1>2 DEF TypeOK, TimedTypeOK
  <1>4. FramesAlive'
    BY <1>1 DEF FramesAlive
  <1>5. \A p \in Fibers : \/ OnStack(p)' = OnStack(p)
                          \/ OnStack(p)' = {} /\ p \in done' /\ p \notin parked' /\ call[p] \in Fds
    BY <1>1, <1>2 DEF OnStack, Coherent, FramesAlive
  <1>6. \A p \in done' : p \in done \/ (OnStack(p)' = {} /\ p \notin parked' /\ call[p] \in Fds)
    BY <1>1, <1>2 DEF OnStack, Coherent, FramesAlive
  <1>7. WakeComing'
    BY <1>1, <1>5, <1>6 DEF WakeComing, TypeOK, TimedTypeOK
  <1>8. NoOversleep'
    BY <1>1 DEF NoOversleep
  <1>9. Coherent'
    BY <1>1, <1>5, <1>6 DEF Coherent, TypeOK, TimedTypeOK
  <1> QED BY <1>3, <1>4, <1>7, <1>8, <1>9

LEMMA ReactorInv ==
    ASSUME RInv, Process \/ \E fd \in Fds : CloseFd(fd)
    PROVE  RInv'
  <1>0. waiters \in SUBSET WaiterType
    BY DEF RInv, TypeOK, WaiterType
  <1>1. CASE Process
    <2> DEFINE hit == {w \in waiters : w.ev \cap batch[w.fd] # {}}
    <2>1. /\ Fire(hit) /\ waiters' = waiters \ hit
          /\ batch' = [fd \in Fds |-> {}]
          /\ reg' = [fd \in Fds |-> IF batch[fd] = {} THEN reg[fd] ELSE UnionEvents(waiters', fd)]
      BY <1>1 DEF Process, Fire
    <2>2. waiters' \in SUBSET WaiterType
      BY <1>0, <2>1
    <2>3. /\ \A w \in waiters' : w.ev \subseteq UnionEvents(waiters', w.fd)
          /\ \A fd : UnionEvents(waiters', fd) \subseteq Dirs
      BY <2>2, UnionCovers
    <2>4. reg' \in [Fds -> SUBSET Dirs] /\ batch' \in [Fds -> SUBSET Dirs]
      BY <2>1, <2>3 DEF RInv, TypeOK
    <2>5. Armed'
      BY <2>1, <2>2, <2>3 DEF RInv, Armed, WaiterType
    <2> QED BY <2>1, <2>4, <2>5, FireInv
  <1>2. ASSUME NEW fd \in Fds, CloseFd(fd) PROVE RInv'
    <2> DEFINE hit == {w \in waiters : w.fd = fd}
    <2>1. /\ Fire(hit) /\ waiters' = waiters \ hit /\ UNCHANGED batch
          /\ reg' = [reg EXCEPT ![fd] = {}]
      BY <1>2 DEF CloseFd, Fire
    <2>2. reg' \in [Fds -> SUBSET Dirs] /\ batch' \in [Fds -> SUBSET Dirs]
      BY <2>1 DEF RInv, TypeOK
    <2>3. Armed'
      BY <1>0, <2>1 DEF RInv, Armed, TypeOK, WaiterType
    <2> QED BY <2>1, <2>2, <2>3, FireInv
  <1> QED BY <1>1, <1>2

-----------------------------------------------------------------------------

LEMMA ReactorInit == Init => RInv
  <1> SUFFICES ASSUME Init PROVE RInv
    OBVIOUS
  <1> USE DEF Init, TimedInit
  <1>1. TimedTypeOK
    <2>1. asleep \in BOOLEAN
      OBVIOUS
    <2>2. nap \in 0..Forever /\ 0 \in 0..MaxTimeout
      BY TimedAssumption DEF Forever
    <2>3. left \in [Fibers -> 0..MaxTimeout] /\ wpc \in [Fibers -> WaitPcs]
      BY <2>2 DEF WaitPcs
    <2> QED BY <2>1, <2>2, <2>3 DEF TimedTypeOK
  <1>2. TypeOK
    BY <1>1 DEF TypeOK
  <1>3. FramesAlive
    BY DEF FramesAlive
  <1>4. Armed
    BY DEF Armed
  <1>5. WakeComing
    BY DEF WakeComing
  <1>6. NoOversleep
    BY DEF NoOversleep
  <1>7. Coherent
    BY ReactorAssumption DEF Coherent, OnStack
  <1> QED BY <1>2, <1>3, <1>4, <1>5, <1>6, <1>7 DEF RInv

LEMMA ReactorNext == RInv /\ [Next]_vars => RInv'
  <1> SUFFICES ASSUME RInv, [Next]_vars PROVE RInv'
    OBVIOUS
  <1>1. CASE UNCHANGED vars
    BY <1>1 DEF vars, timedVars, ioVars, RInv, TypeOK, TimedTypeOK, FramesAlive, Armed,
                WakeComing, NoOversleep, Coherent, OnStack
  <1>2. ASSUME NEW p \in Fibers, Calling(p) PROVE RInv'
    BY <1>2, TaskWaitInv, IoWaitInv, IoWaitTimedInv DEF Calling
  <1>3. ASSUME NEW p \in Fibers, FiberStep(p) PROVE RInv'
    BY <1>3, ReturnInv, IoGiveUpInv, GiveUpInv, WaitingInv DEF FiberStep
  <1>4. CASE Timer
    BY <1>4, TimerRoundInv, EnvironmentInv DEF Timer
  <1> QED BY <1>1, <1>2, <1>3, <1>4, EpollWaitInv, ReactorInv, EnvironmentInv DEF Next

\* The lists, the deadlines and the armed interests stay in their types.
THEOREM ReactorTypeCorrect == Spec => []TypeOK
  <1>1. RInv => TypeOK
    BY DEF RInv
  <1> QED BY <1>1, ReactorInit, ReactorNext, PTL DEF Spec

\* task_wait_timeout and io_wait_timed leave nothing of their frames on the timer
\* list or the reactor's list, also when a cancellation throws out of them.
THEOREM ReactorFramesAlive == Spec => []FramesAlive
  <1>1. RInv => FramesAlive
    BY DEF RInv
  <1> QED BY <1>1, ReactorInit, ReactorNext, PTL DEF Spec

\* One-shot registrations shared by the waiters of a descriptor lose none of them.
THEOREM ReactorArmed == Spec => []Armed
  <1>1. RInv => Armed
    BY DEF RInv
  <1> QED BY <1>1, ReactorInit, ReactorNext, PTL DEF Spec

\* Whoever is parked has on the lists what will wake him, and the timer thread
\* sleeps past no deadline.
THEOREM ReactorWakes == Spec => [](WakeComing /\ NoOversleep)
  <1>1. RInv => WakeComing /\ NoOversleep
    BY DEF RInv
  <1> QED BY <1>1, ReactorInit, ReactorNext, PTL DEF Spec

\* The second half by itself.
THEOREM ReactorKeepsTime == Spec => []NoOversleep
  BY ReactorWakes, PTL
=============================================================================
