---------------------------- MODULE CarrierPool ----------------------------
(***************************************************************************)
(* The multi-carrier fiber executor of cajeta_rt_concurrent_exec.c: the    *)
(* carrier loop, the publication of ready fibers, work stealing with       *)
(* home-carrier pinning, parking in task_wait, completion, sleeping and    *)
(* waking of idle carriers, and shutdown.                                  *)
(*                                                                         *)
(* A step is a critical section of __cajeta_task_mutex, an operation on a  *)
(* deque (one indivisible step: WorkDeque implements AbstractDeque), or a  *)
(* context switch.  The deques' top counters are not kept: a thief between *)
(* its look at the top and its compare-and-swap is told by `lost' that top *)
(* has moved.                                                              *)
(*                                                                         *)
(* Fiber bodies are arbitrary programs that spawn their children (at most  *)
(* once each), join them with task_wait (by await, Task drop or scope      *)
(* exit), and return once they are joined, or throw at any time.           *)
(* Timers, I/O, locks and cancellation, which park and publish fibers      *)
(* through the same operations, have modules of their own.                 *)
(***************************************************************************)
EXTENDS Integers, FiniteSets, Sequences, SequencesExt

CONSTANTS Fibers,      \* the tasks of a run, one fiber each
          N,           \* __cajeta_carrier_count
          Main,        \* the program thread
          Spawner,     \* Spawner[f]: the fiber (or Main) that may spawn f
          Detached,    \* the fibers spawned with task_run_detached
          None,        \* the null pointer / carrier -1
          Backstop     \* whether the 50 ms condvar timeout may fire

Carriers == 0..(N - 1)
Threads  == Carriers \cup {Main}

ASSUME PoolAssumption ==
    /\ N \in Nat \ {0}
    /\ Main \notin Fibers \cup Carriers
    /\ None \notin Fibers \cup Carriers
    /\ Spawner \in [Fibers -> Fibers \cup {Main}]
    /\ Detached \subseteq Fibers
    /\ Backstop \in BOOLEAN

VARIABLES
    \* fibers
    st,         \* fiber->state, or "new" before task_run, "freed" after free()
    home,       \* fiber->home_carrier
    saved,      \* fiber->ctx holds the fiber's suspended execution
    await,      \* the task a fiber is inside task_wait for
    done,       \* the task's done flag
    joined,     \* the tasks whose spawner has returned from task_wait on them
    \* pool
    deque,      \* deque[c], top first
    parked,     \* __cajeta_parked_head, newest first
    signalled,  \* sleeping carriers whose condvar wait is over
    started,    \* __cajeta_task_workers_started
    shutdown,   \* __cajeta_task_shutdown_requested
    \* threads
    pc,
    cur,        \* __cajeta_current_fiber of each carrier
    got,        \* the fiber a carrier has taken from a deque
    pub,        \* the fibers a thread has still to publish_ready
    step,       \* steal_one's loop counter
    lost,       \* top has moved since the thief looked at its victim
    pinned      \* pinned_rounds

fiberVars  == <<st, home, saved, await, done, joined>>
poolVars   == <<deque, parked, signalled, started, shutdown>>
threadVars == <<pc, cur, got, pub, step, lost, pinned>>
vars == <<fiberVars, poolVars, threadVars>>

MaxPinnedRounds == 2

CarrierPcs == {"off", "pop", "look", "cas", "pushback", "broadcast", "decide",
               "asleep", "dispatch", "run", "publish", "signal", "swap",
               "retire", "exited"}
MainPcs    == {"main", "publish", "signal", "join", "over"}

TypeOK ==
    /\ st \in [Fibers -> {"new", "READY", "RUNNING", "PARKED", "DONE", "freed"}]
    /\ home \in [Fibers -> Carriers \cup {None}]
    /\ saved \in [Fibers -> BOOLEAN]
    /\ await \in [Fibers -> Fibers \cup {None}]
    /\ done \in [Fibers -> BOOLEAN]
    /\ joined \subseteq Fibers
    /\ deque \in [Carriers -> Seq(Fibers)]
    /\ parked \in Seq(Fibers)
    /\ signalled \subseteq Carriers
    /\ started \in BOOLEAN
    /\ shutdown \in BOOLEAN
    /\ pc \in [Threads -> CarrierPcs \cup MainPcs]
    /\ cur \in [Carriers -> Fibers \cup {None}]
    /\ got \in [Carriers -> Fibers \cup {None}]
    /\ pub \in [Threads -> Seq(Fibers)]
    /\ step \in [Carriers -> 0..(N - 1)]
    /\ lost \in [Carriers -> BOOLEAN]
    /\ pinned \in [Carriers -> 0..MaxPinnedRounds]

Init ==
    /\ st = [f \in Fibers |-> "new"]
    /\ home = [f \in Fibers |-> None]
    /\ saved = [f \in Fibers |-> FALSE]
    /\ await = [f \in Fibers |-> None]
    /\ done = [f \in Fibers |-> FALSE]
    /\ joined = {}
    /\ deque = [c \in Carriers |-> <<>>]
    /\ parked = <<>>
    /\ signalled = {}
    /\ started = FALSE
    /\ shutdown = FALSE
    /\ pc = [p \in Threads |-> IF p = Main THEN "main" ELSE "off"]
    /\ cur = [c \in Carriers |-> None]
    /\ got = [c \in Carriers |-> None]
    /\ pub = [p \in Threads |-> <<>>]
    /\ step = [c \in Carriers |-> 0]
    /\ lost = [c \in Carriers |-> FALSE]
    /\ pinned = [c \in Carriers |-> 0]

Goto(p, l) == pc' = [pc EXCEPT ![p] = l]

Asleep == {c \in Carriers : pc[c] = "asleep"}

\* The fiber (or Main) whose code thread p runs.
Me(p) == IF p = Main THEN Main ELSE cur[p]

\* p runs user code: outside task_wait's loop, before task_complete.
InBody(p) ==
    IF p = Main THEN pc[p] = "main"
                ELSE pc[p] = "run" /\ await[cur[p]] = None /\ ~done[cur[p]]

Unjoined(f) ==
    {g \in Fibers \ Detached : Spawner[g] = f /\ st[g] # "new" /\ g \notin joined}

-----------------------------------------------------------------------------
(* Publishing ready fibers, by a carrier or by the program thread.         *)

\* __cajeta_task_run_impl; the first one starts the carriers.
Spawn(p, g) ==
    /\ InBody(p)
    /\ st[g] = "new"
    /\ Spawner[g] = Me(p)
    /\ st' = [st EXCEPT ![g] = "READY"]
    /\ pub' = [pub EXCEPT ![p] = <<g>>]
    /\ started' = TRUE
    /\ pc' = [q \in Threads |->
                CASE q = p                      -> "publish"
                  [] q \in Carriers /\ ~started -> "pop"
                  [] OTHER                      -> pc[q]]
    /\ UNCHANGED <<home, saved, await, done, joined, deque, parked, signalled,
                   shutdown, cur, got, step, lost, pinned>>

\* A started fiber goes to its home, a fresh one to the publisher's carrier.
Target(p, f) ==
    IF home[f] # None THEN home[f] ELSE IF p \in Carriers THEN p ELSE 0

\* publish_ready: the push ...
Push(p) ==
    /\ pc[p] = "publish"
    /\ LET f == Head(pub[p])
           c == Target(p, f)
       IN  /\ st' = [st EXCEPT ![f] = "READY"]
           /\ deque' = [deque EXCEPT ![c] = Append(@, f)]
    /\ pub' = [pub EXCEPT ![p] = Tail(@)]
    /\ Goto(p, "signal")
    /\ UNCHANGED <<home, saved, await, done, joined, parked, signalled, started,
                   shutdown, cur, got, step, lost, pinned>>

\* ... and then, under the task mutex, the signal if some carrier sleeps.
Signal(p) ==
    /\ pc[p] = "signal"
    /\ \/ Asleep \subseteq signalled /\ UNCHANGED signalled
       \/ \E c \in Asleep \ signalled : signalled' = signalled \cup {c}
    /\ Goto(p, IF pub[p] # <<>> THEN "publish"
               ELSE IF p = Main THEN "main" ELSE "run")
    /\ UNCHANGED <<fiberVars, deque, parked, started, shutdown, cur, got, pub,
                   step, lost, pinned>>

-----------------------------------------------------------------------------
(* What a running fiber does.                                              *)

WaitStale(c, g) ==     \* mutant: the flag was read before taking the mutex
    /\ pc[c] = "run"
    /\ InBody(c) /\ g \in Unjoined(cur[c])
    /\ await' = [await EXCEPT ![cur[c]] = g]
    /\ st' = [st EXCEPT ![cur[c]] = "PARKED"]
    /\ parked' = <<cur[c]>> \o parked
    /\ Goto(c, "swap")
    /\ UNCHANGED <<home, saved, done, joined, deque, signalled, started,
                   shutdown, cur, got, pub, step, lost, pinned>>

\* task_wait by a fiber: check the flag and park in one critical section.
\* The fiber is on the parked list before its context is saved.
Wait(c, g) ==
    /\ pc[c] = "run"
    /\ IF await[cur[c]] = None THEN InBody(c) /\ g \in Unjoined(cur[c])
                               ELSE g = await[cur[c]]
    /\ IF done[g]
         THEN /\ joined' = joined \cup {g}
              /\ await' = [await EXCEPT ![cur[c]] = None]
              /\ UNCHANGED <<st, parked, pc>>
         ELSE /\ await' = [await EXCEPT ![cur[c]] = g]
              /\ st' = [st EXCEPT ![cur[c]] = "PARKED"]
              /\ parked' = <<cur[c]>> \o parked
              /\ Goto(c, "swap")
              /\ UNCHANGED joined
    /\ UNCHANGED <<home, saved, done, deque, signalled, started, shutdown, cur,
                   got, pub, step, lost, pinned>>

\* The swap back to the carrier loop.
Swap(c) ==
    /\ pc[c] = "swap"
    /\ saved' = [saved EXCEPT ![cur[c]] = TRUE]
    /\ cur' = [cur EXCEPT ![c] = None]
    /\ Goto(c, "pop")
    /\ UNCHANGED <<st, home, await, done, joined, poolVars, got, pub, step,
                   lost, pinned>>

CompleteNoDetach(c) == \* mutant: the parked list is published but not emptied
    /\ pc[c] = "run"
    /\ InBody(c)
    /\ done' = [done EXCEPT ![cur[c]] = TRUE]
    /\ pub' = [pub EXCEPT ![c] = parked]
    /\ Goto(c, IF parked = <<>> THEN "run" ELSE "publish")
    /\ UNCHANGED <<st, home, saved, await, joined, parked, deque, signalled,
                   started, shutdown, cur, got, step, lost, pinned>>

CompleteNoWake(c) ==   \* mutant: only the program thread's condvar is told
    /\ pc[c] = "run"
    /\ InBody(c)
    /\ done' = [done EXCEPT ![cur[c]] = TRUE]
    /\ UNCHANGED <<st, home, saved, await, joined, poolVars, threadVars>>

\* task_complete: set done, detach every parked fiber, publish them after the
\* mutex is released.  A body that returns has joined its tasks; one that throws
\* leaves behind those that it has not, since the trampoline's catch stores the
\* exception and joins none.
Complete(c) ==
    /\ pc[c] = "run"
    /\ InBody(c)
    /\ done' = [done EXCEPT ![cur[c]] = TRUE]
    /\ pub' = [pub EXCEPT ![c] = parked]
    /\ parked' = <<>>
    /\ Goto(c, IF parked = <<>> THEN "run" ELSE "publish")
    /\ UNCHANGED <<st, home, saved, await, joined, deque, signalled, started,
                   shutdown, cur, got, step, lost, pinned>>

\* __cajeta_fiber_entry: the trampoline has returned.
Return(c) ==
    /\ pc[c] = "run"
    /\ done[cur[c]]
    /\ st' = [st EXCEPT ![cur[c]] = "DONE"]
    /\ Goto(c, "retire")
    /\ UNCHANGED <<home, saved, await, done, joined, poolVars, cur, got, pub,
                   step, lost, pinned>>

\* The carrier loop frees a fiber that came back DONE.
Retire(c) ==
    /\ pc[c] = "retire"
    /\ st' = [st EXCEPT ![cur[c]] = "freed"]
    /\ cur' = [cur EXCEPT ![c] = None]
    /\ Goto(c, "pop")
    /\ UNCHANGED <<home, saved, await, done, joined, poolVars, got, pub, step,
                   lost, pinned>>

-----------------------------------------------------------------------------
(* The carrier loop: pop, else steal, else sleep.                          *)

\* The peer a thief is at, round-robin after itself.
Victim(c) == (c + 1 + step[c]) % N

\* Thieves that looked at d's deque lose their race when its top moves.
TopMoved(d) ==
    lost' = [c \in Carriers |-> lost[c] \/ (pc[c] = "cas" /\ Victim(c) = d)]

Take(c, f) ==
    /\ got' = [got EXCEPT ![c] = f]
    /\ pinned' = [pinned EXCEPT ![c] = 0]
    /\ Goto(c, "dispatch")

\* Own deque, newest first.  Taking the last fiber moves top.
Pop(c) ==
    /\ pc[c] = "pop"
    /\ IF deque[c] = <<>>
         THEN /\ Goto(c, "look")
              /\ step' = [step EXCEPT ![c] = 0]
              /\ UNCHANGED <<deque, got, pinned, lost>>
         ELSE /\ Take(c, Last(deque[c]))
              /\ deque' = [deque EXCEPT ![c] = Front(@)]
              /\ IF Len(deque[c]) = 1 THEN TopMoved(c) ELSE UNCHANGED lost
              /\ UNCHANGED step
    /\ UNCHANGED <<fiberVars, parked, signalled, started, shutdown, cur, pub>>

NextVictim(c) ==
    /\ Goto(c, "look")
    /\ step' = [step EXCEPT ![c] = @ + 1]

\* steal_one's loop over the peers (the last index is the thief itself):
\* look at a peer's top ...
Look(c) ==
    /\ pc[c] = "look"
    /\ \/ step[c] = N - 1 /\ Goto(c, "decide") /\ UNCHANGED <<step, lost>>
       \/ /\ step[c] < N - 1
          /\ deque[Victim(c)] = <<>>
          /\ NextVictim(c)
          /\ UNCHANGED lost
       \/ /\ step[c] < N - 1
          /\ deque[Victim(c)] # <<>>
          /\ Goto(c, "cas")
          /\ lost' = [lost EXCEPT ![c] = FALSE]
          /\ UNCHANGED step
    /\ UNCHANGED <<fiberVars, poolVars, cur, got, pub, pinned>>

\* ... and take it if top has not moved.  A started fiber of another home is
\* not for this carrier.
StealAny(c) ==         \* mutant: a stolen fiber runs wherever it was stolen
    /\ pc[c] = "cas"
    /\ IF lost[c]
         THEN /\ NextVictim(c)
              /\ UNCHANGED <<deque, got, pinned, lost>>
         ELSE /\ Take(c, Head(deque[Victim(c)]))
              /\ deque' = [deque EXCEPT ![Victim(c)] = Tail(@)]
              /\ TopMoved(Victim(c))
              /\ UNCHANGED step
    /\ UNCHANGED <<fiberVars, parked, signalled, started, shutdown, cur, pub>>

Steal(c) ==
    /\ pc[c] = "cas"
    /\ IF lost[c]
         THEN /\ NextVictim(c)
              /\ UNCHANGED <<deque, got, pinned, lost>>
         ELSE LET f == Head(deque[Victim(c)])
              IN  /\ deque' = [deque EXCEPT ![Victim(c)] = Tail(@)]
                  /\ TopMoved(Victim(c))
                  /\ IF home[f] \in {None, c}
                       THEN Take(c, f)
                       ELSE /\ got' = [got EXCEPT ![c] = f]
                            /\ Goto(c, "pushback")
                            /\ UNCHANGED pinned
                  /\ UNCHANGED step
    /\ UNCHANGED <<fiberVars, parked, signalled, started, shutdown, cur, pub>>

PushBack(c) ==
    /\ pc[c] = "pushback"
    /\ deque' = [deque EXCEPT ![home[got[c]]] = Append(@, got[c])]
    /\ got' = [got EXCEPT ![c] = None]
    /\ Goto(c, "broadcast")
    /\ UNCHANGED <<fiberVars, parked, signalled, started, shutdown, cur, pub,
                   step, lost, pinned>>

Broadcast(c) ==
    /\ pc[c] = "broadcast"
    /\ signalled' = Asleep
    /\ NextVictim(c)
    /\ UNCHANGED <<fiberVars, deque, parked, started, shutdown, cur, got, pub,
                   lost, pinned>>

\* pool_total_work reads the sizes without the deques' mutexes: the deque of
\* a peer in the middle of a pop that finds it empty reads as -1.
MidPop(c) == {d \in Carriers \ {c} : pc[d] = "pop" /\ deque[d] = <<>>}

TotalLen == SumFunction([d \in Carriers |-> Len(deque[d])])

\* An idle carrier that may go round up to k times beside work it cannot take.
DecideWithin(c, D, k) ==
    /\ pc[c] = "decide"
    /\ LET work == TotalLen - Cardinality(D)
       IN  \/ /\ shutdown
              /\ Goto(c, IF work = 0 THEN "exited" ELSE "pop")
              /\ UNCHANGED pinned
           \/ /\ ~shutdown /\ work > 0 /\ pinned[c] < k
              /\ pinned' = [pinned EXCEPT ![c] = @ + 1]
              /\ Goto(c, "pop")
           \/ /\ ~shutdown /\ ~(work > 0 /\ pinned[c] < k)
              /\ pinned' = [pinned EXCEPT ![c] = 0]
              /\ Goto(c, "asleep")
    /\ step' = [step EXCEPT ![c] = 0]
    /\ UNCHANGED <<fiberVars, poolVars, cur, got, pub, lost>>

DecideOffByOne(c, D) == \* mutant: one pinned round too many
    DecideWithin(c, D, MaxPinnedRounds + 1)

DecideDeaf(c, D) ==    \* mutant: an idle carrier does not look at the shutdown flag
    /\ pc[c] = "decide"
    /\ pinned' = [pinned EXCEPT ![c] = 0]
    /\ Goto(c, "asleep")
    /\ step' = [step EXCEPT ![c] = 0]
    /\ UNCHANGED <<fiberVars, poolVars, cur, got, pub, lost>>

\* Nothing to run: exit, go round again, or sleep, in one critical section;
\* D are the peers whose size was read in the middle of a pop.
DecideWith(c, D) == DecideWithin(c, D, MaxPinnedRounds)

Decide(c) == \E D \in SUBSET MidPop(c) : DecideWith(c, D)

\* The condvar wait ends: signalled, or after 50 ms.
Wake(c) ==
    /\ pc[c] = "asleep"
    /\ c \in signalled \/ Backstop
    /\ signalled' = signalled \ {c}
    /\ Goto(c, "pop")
    /\ UNCHANGED <<fiberVars, deque, parked, started, shutdown, cur, got, pub,
                   step, lost, pinned>>

\* Run the fiber taken; the first dispatch gives it its home.
Dispatch(c) ==
    /\ pc[c] = "dispatch"
    /\ LET f == got[c]
       IN  /\ home' = [home EXCEPT ![f] = IF @ = None THEN c ELSE @]
           /\ st' = [st EXCEPT ![f] = "RUNNING"]
           /\ saved' = [saved EXCEPT ![f] = FALSE]
           /\ cur' = [cur EXCEPT ![c] = f]
    /\ got' = [got EXCEPT ![c] = None]
    /\ Goto(c, "run")
    /\ UNCHANGED <<await, done, joined, poolVars, pub, step, lost, pinned>>

-----------------------------------------------------------------------------
(* The program thread.                                                     *)

\* task_wait outside a fiber: a condvar wait for the flag.
MainWait(g) ==
    /\ pc[Main] = "main"
    /\ g \in Unjoined(Main)
    /\ done[g]
    /\ joined' = joined \cup {g}
    /\ UNCHANGED <<st, home, saved, await, done, poolVars, threadVars>>

\* __cajeta_task_shutdown, once the program's own tasks are joined.
Shutdown ==
    /\ pc[Main] = "main"
    /\ Unjoined(Main) = {}
    /\ IF started
         THEN /\ shutdown' = TRUE
              /\ signalled' = Asleep
              /\ Goto(Main, "join")
         ELSE Goto(Main, "over") /\ UNCHANGED <<shutdown, signalled>>
    /\ UNCHANGED <<fiberVars, deque, parked, started, cur, got, pub, step, lost,
                   pinned>>

\* Every carrier joined: free the fibers still parked, reset the pool.
Reset ==
    /\ pc[Main] = "join"
    /\ \A c \in Carriers : pc[c] = "exited"
    /\ st' = [f \in Fibers |-> IF f \in ToSet(parked) THEN "freed" ELSE st[f]]
    /\ parked' = <<>>
    /\ shutdown' = FALSE
    /\ started' = FALSE
    /\ pc' = [p \in Threads |-> IF p = Main THEN "over" ELSE "off"]
    /\ UNCHANGED <<home, saved, await, done, joined, deque, signalled, cur, got,
                   pub, step, lost, pinned>>

Over == pc[Main] = "over" /\ UNCHANGED vars

-----------------------------------------------------------------------------
RunFiber(c) ==
    \/ \E g \in Fibers : Wait(c, g)
    \/ Swap(c) \/ Complete(c) \/ Return(c) \/ Retire(c)

RunLoop(c) ==
    \/ Pop(c) \/ Look(c) \/ Steal(c) \/ PushBack(c) \/ Broadcast(c)
    \/ Decide(c) \/ Wake(c) \/ Dispatch(c)

Publish(p) == Push(p) \/ Signal(p) \/ \E g \in Fibers : Spawn(p, g)

CarrierStep(c) == RunFiber(c) \/ RunLoop(c) \/ Publish(c)

MainStep == Publish(Main) \/ (\E g \in Fibers : MainWait(g)) \/ Shutdown \/ Reset

Next == MainStep \/ (\E c \in Carriers : CarrierStep(c)) \/ Over

Spec == Init /\ [][Next]_vars

\* Every carrier thread and the program thread keep being scheduled, but the
\* program need not come to its end and shut the pool down.  Two coincidences
\* are assumed not to recur for ever: a carrier reading the sizes exactly when
\* its peers are in the few instructions of an empty pop, and a carrier looking
\* at its own deque exactly when a thief holds the fiber that it is about to
\* push back there.
Fairness ==
    /\ WF_vars(Publish(Main) \/ (\E g \in Fibers : MainWait(g)) \/ Reset)
    /\ \A c \in Carriers :
          /\ WF_vars(CarrierStep(c))
          /\ SF_vars(DecideWith(c, {}))
          /\ []<>(pc[c] = "pop") /\ []<>(deque[c] # <<>>)
                => []<><<Pop(c) /\ deque[c] # <<>>>>_vars

FairSpec == Spec /\ Fairness

-----------------------------------------------------------------------------
(* Correctness.                                                            *)

\* Where the pool refers to fiber f, other than as a carrier's current fiber.
Refs(f) ==
    (UNION {{<<"deque", c, i>> : i \in {j \in DOMAIN deque[c] : deque[c][j] = f}}
              : c \in Carriers})
    \cup (UNION {{<<"pub", p, i>> : i \in {j \in DOMAIN pub[p] : pub[p][j] = f}}
              : p \in Threads})
    \cup {<<"parked", i>> : i \in {j \in DOMAIN parked : parked[j] = f}}
    \cup {<<"got", c>> : c \in {d \in Carriers : got[d] = f}}

\* A live fiber is in exactly one place - one slot of one deque, the parked
\* list, a publisher's list, a carrier's hands, or running - with one exception
\* the code allows: between parking and the swap a fiber is still current on
\* its carrier and may already be queued again.  A fiber that was freed is
\* nowhere, so nothing can touch its memory.
OnePlace ==
    \A f \in Fibers :
        /\ Cardinality(Refs(f)) <= 1
        /\ st[f] \in {"new", "DONE", "freed"} => Refs(f) = {}
        /\ st[f] \in {"READY", "RUNNING", "PARKED"} =>
              Refs(f) # {} \/ \E c \in Carriers : cur[c] = f
        /\ \A c \in Carriers : cur[c] = f =>
              /\ st[f] \notin {"new", "freed"}
              /\ Refs(f) = {} \/ pc[c] = "swap"
              /\ \A d \in Carriers : cur[d] = f => c = d

\* A started fiber is resumed only by the carrier that first dispatched it, and
\* only once its context has been saved there, although wakers may queue it
\* before the swap and thieves may take it out of its home's deque.
PinnedResume ==
    \A c \in Carriers :
        /\ pc[c] = "dispatch" =>
              home[got[c]] = None \/ (home[got[c]] = c /\ saved[got[c]])
        /\ cur[c] # None => home[cur[c]] = c

\* No lost wakeup: a fiber on the parked list waits for a task that is not
\* complete, since task_complete empties the list when it sets done.
NoLostWakeup ==
    \A f \in ToSet(parked) : await[f] # None /\ ~done[await[f]]

\* A task that is not done and that nobody joins: it was detached, or its spawner
\* threw and left it behind.
Loose(f) ==
    /\ st[f] # "new" /\ ~done[f]
    /\ f \in Detached \/ (Spawner[f] \in Fibers /\ done[Spawner[f]])

\* A task that is not done and whose home, which alone may resume it, has exited.
Homeless(f) == st[f] # "new" /\ ~done[f] /\ home[f] # None /\ pc[home[f]] = "exited"

\* The shutdown has come before a task that nobody joins was done, and a carrier
\* has left although a fiber of its own still had to be woken.
Overtaken == (\E f \in Fibers : Loose(f)) /\ (\E f \in Fibers : Homeless(f))

\* Every task that is spawned completes, whatever steals, wakes, sleeps and throws
\* intervene, unless the shutdown overtakes a task that nobody joins.
SpawnedCompletes ==
    []<>(Overtaken \/ \A f \in Fibers : st[f] # "new" => done[f])

\* __cajeta_task_shutdown joins the carriers and returns, unless it overtakes a task
\* that nobody joins: the other carriers then wait for ever for work they cannot take.
ShutdownReturns == pc[Main] = "join" ~> pc[Main] = "over" \/ Overtaken
=============================================================================
