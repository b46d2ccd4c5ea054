# Verification of the Cajeta concurrent runtime

Cajeta is a compiled language with structured concurrency. Its compiler (C++,
LLVM) lowers `spawn`, `await`, `scope` and the classes of `cajeta.concurrent` to
calls of a C runtime, and that runtime decides whether a Cajeta program
deadlocks, loses a wakeup or runs one fiber on two threads. This project models
that runtime and the standard library's primitives on top of it in TLA+, checks
them with TLC on small instances and proves the central facts with TLAPS.

Source files named below without a path are in `src/runtime/native/` (`exec.c`
is `cajeta_rt_concurrent_exec.c`, `sync.c` is `cajeta_rt_concurrent_sync.c`) or
in `src/runtime/src/cajeta/concurrent/` (`*.cajeta`).

## 1. The system

| Component | State | Operations | Modelled in |
|---|---|---|---|
| Work-stealing deque (`exec.c` 294-383) | `top`, `bottom`, a ring of slots, the deque mutex | `push_bottom`, `pop_bottom`, `steal`, `size` | `WorkDeque`, `AbstractDeque` |
| Carrier pool (`exec.c` 384-1052) | fibers with state, home and saved context; deques; parked list; sleepers; shutdown flag | `task_run`, `publish_ready`, carrier loop, `steal_one`, `task_wait`, `task_complete`, `task_shutdown` | `CarrierPool` |
| Async lock and condvar (`sync.c` 214-453) | `held`, queue of parked fibers, blocked threads | acquire, try, release, wait, notify all | `AsyncLock` |
| Read-write lock (`sync.c` 457-632, `RwLock.cajeta`) | reader count, writer flag, waiting writers, two queues | `rdlock`, `wrlock`, unlocks; `read`, `withWrite` | `RwLock` |
| `Channel<T>` | ring buffer, `head`, `tail`, `size`, `closed` | `send`, `trySend`, `receive`, `tryReceive`, `close`, `isClosed` | `Channel`, `AbstractChannel` |
| `Mutex<T>`, `LockGuard`, `Lock` | the value, the guard | `withLock`, `withLockWhen`, `get`, drop | `Mutex` |
| `Semaphore` | `count` | `acquire`, `release`, `withPermit`, `availablePermits` | `Semaphore` |
| Scopes and tasks (`sync.c` 1-211, `Tasks.cajeta`, the code emitted for spawn, await, scope, try) | scope frames, task objects, drop chains, `cancel_with` | spawn, reap, join, first-throw cancel, await, `withTimeout`, throw, task drop, completion | `ScopeTasks` |
| Timer (`exec.c` 1054-1283) | deadline list on fiber stacks | `task_wait_timeout`, `fiber_sleep`, timer thread | `TimedWait` |
| I/O reactor (`exec.c` 1285-1802) | waiters, armed interest per descriptor | `io_wait`, `io_wait_timed`, `io_close_fd`, reactor thread | `Reactor` |
| Ready sets (`exec.c` 1314-1419, 1804-2028, `ReadySet.cajeta`) | members with their armed and dead flags, ring of events, parked fiber | add, remove, wait, destroy | `ReadySet` |
| Component scopes and singletons (`sync.c` 849-1160, the inject helper) | anchor frames, reference-counted tables of build-once slots | inject, acquire, publish, abandon, inherit, end | `AnchorTable` |
| Epochs, shared titles (`cajeta_rt_epoch.c`, `cajeta_rt_shared.c`) | a stack of registry extents, a table of counts | push, pop, retain, release | not modelled (section 8) |
| Compiler, build tool, DAP/MCP servers, notebook kernel, GPU dispatch | - | - | not modelled (section 8) |

How they interact. A task is a fiber. Fibers run on *carriers* (OS threads), each
with its own deque; an idle carrier steals from its peers. A fiber that has to
wait puts itself on a queue - the pool's parked list, a lock's queue, a
condvar's queue - and swaps back to its carrier. Whoever ends the wait takes it
off that queue and calls `publish_ready`, which pushes it on the deque of its
*home*, the carrier that ran it first: a started fiber runs nowhere else. The
program's main thread and other foreign threads use the same primitives but
block in pthread condition variables. A scope cancels a fiber by setting
`cancel_with`, which the fiber notices in `task_wait` and `lock_acquire`, and
which these then throw. A spawned task inherits its spawner's anchor frame, and
with it the table in which the components of that scope are built.

What is hard. Nearly every wait is a queue insertion, an unlock and a context
switch, with wakers running in between; deques are read without locks; a wake
goes to whoever happens to sleep; a cancellation throws out of the middle of an
acquisition; fibers and blocking threads share one lock; a throw drops variables
and leaves scopes in an order of its own, while the children it leaves behind
still run. The hazards in
`PROJECT.json` list these with their lines.

## 2. Modules

Each specification module has its `MC` module and configurations for TLC; the
`Proofs` modules hold the theorems. `PROJECT.json` maps each definition to the
lines it models.

**`WorkDeque`** takes one step per access to shared memory. Two kinds of owner
step (push under the deque mutex, pop under the deque mutex) run against any
number of thieves. `slots` is a ring of `Cap` entries indexed modulo `Cap`;
`top` and `bottom` grow. A push into a full deque aborts the program, as in the
code. `AbstractDeque` is the promise: a sequence whose push appends and whose
pop and steal remove an end atomically, or come back empty. `ImplementsDeque`
maps the slots between `top` and the linearised `bottom` to that sequence (`Queue`),
and what each thread has in its hand (`Hands`).

**`CarrierPool`** uses deques as `AbstractDeque` promises them. Its steps are the
critical sections of `__cajeta_task_mutex`, deque operations and context
switches. `saved` says whether a fiber's context has been saved since it was
dispatched: the code queues a fiber before that (`exec.c` 681-683), and being
pinned to its home is what keeps it from being resumed too early. `lost` stands
for a moved `top` between a thief's look and its compare-and-swap. `MidPop` is
the size of -1 that a lock-free reader can see in a peer's empty pop. A body may
complete (`Complete`) before it has joined its children: a return leaves its scopes
first, but a throw ends in the spawn trampoline's catch (`Expression.cpp` 5628-5658),
which stores the exception and calls `task_complete` at once. A child left behind so is
from then on like a detached task: nobody waits for it (`Loose`).

**`AsyncLock`** has two layers: the operations, and `LockSpec`, in which callers
do anything a caller may do. `Channel`, `Mutex` and `Semaphore` extend it and
put their code in place of that freedom, with names of their own (`ChanCall`,
`MutexCall`, `SemCall`), so that one module can prove about all. `Unlock`, `CvEnqueue`, `CvRelease`,
`CvBlock` and `NotifyAll` are the critical sections of `lock_release`,
`condvar_wait` (fiber, thread) and `condvar_notify_all`. `cancel` is the set of
fibers with `cancel_with` set.

**`Channel`**, **`Mutex`**, **`Semaphore`** follow their classes statement by
statement: between two statements other callers run, so a value that is read and
written back is read in one step and written in another, and `withLockWhen`'s test of the
predicate is one step and its going to sleep the next. `AbstractChannel` is a
bounded FIFO that is closed once.

**`RwLock`** holds both the C lock and the two methods of the class. The value
has two words, read and written one at a time. The wait queues are sets, since
every wake empties them.

**`ScopeTasks`** puts the C functions of a scope together with the code the
compiler emits around them, since neither makes sense alone. A body is an
arbitrary sequence of operations: enter a scope or a try block, spawn (with the
handle bound to a variable, or discarded), await, `withTimeout`, sleep, end a
block, return, throw. `frames` are the scope frames with their entries and
capacities, `drops` is the drop chain of task variables, `blocks` remembers for
each block how long both were when it was entered, as the emitted code does with
its watermarks. A throw (`unwind`) runs the drops down to the handler's mark and
lands in the handler, which leaves the frames above its own, or in the trampoline,
which leaves none. Dropping a task waits for it, clears its entry in every frame of
this fiber (`DropTask`) and frees it; leaving a frame frees what it owns
(`PopFrame`); a full frame is reaped (`Registered`). `task_complete` clears the
fiber slot and sets the flag in one step and wakes everybody in another, and
`taskCancel` reads the slot in one and writes in another, so that a task can be
freed by its spawner while its own fiber is still in `task_complete`. `Subsequence`,
in a module `Subsequences` shared with `ReadySet`, is what a loop leaves of an array it
compacts in place: the elements at the places it keeps, moved down in order. Only one
exception is told apart from none. Steps of a fiber that touch nothing but its own
state (`Own`) are taken before anything else (`Turn`): they commute with every step
of the others, so this leaves out orders and no outcomes. The liveness property
survives it because an `Own` step is always enabled and ends after finitely many.

**`AnchorTable`** has a method that anchors a scope, run by the program thread, and
tasks that it spawns. `inj` is each caller's stack of injections: a constructor
that injects puts another on top. `MakeTable` is the compare-and-swap of a new
table into a scope that had none; the five `Acquire` actions are the ways through a
pass of the loop of `acquire_in`, each a critical section of the table's lock;
`Publish` and `Abandon` end a build and wake all who wait in that table.
`epoch` counts the abandoned builds of a table, and a waiter compares it with what
it was when he went to sleep. The life of the method's table is `refs` against
`frames`. A method that returns has left its scopes, and so joined its children, before
its drops run (`AnchorReturn`); a throw runs the drops at once (`AnchorThrow`), and the
table is left to the copies of the children that still run. `lost` is history: the
waiters whose awaited build has failed, until a newcomer claims the component. Singletons never end, and are stored in a global before they are published
(`StoreGlobal`).

**`TimedWait`** models the timed waits of fibers: the parked list, the timer list,
`task_wait_timeout` from the insertion of its timer entry to its removal
(`fiber_sleep` is one whose task never completes), and the timer thread. Time is
the time left to each deadline, counted down by `Tick`, so the sorted list is a set
with a countdown. **`Reactor`** extends it with `io_wait`, `io_wait_timed`, the
reactor thread and `io_close_fd`, which share its lists. `reg` is what the kernel
has armed: `epoll_wait` may return any of it and disarms what it returns; between
that and the critical section in which `batch` is processed, waiters come and go
and descriptors are closed and their numbers used again. A timed wait's entry and
waiter are on its fiber's stack; an `io_wait`'s waiter is on the heap and stays
listed when a completing task wakes the fiber first.

**`ReadySet`** models the sets of descriptors one fiber waits for. A member is on the
reactor's waiter list exactly while it is armed, so the list is not kept beside the
members. `ready` is what a descriptor is ready for, and level-triggered: `EpollWait`
returns all that is armed and ready, `Process` records it in the rings (`Record`, as
does `CloseFd`) and arms again what did not match, and the next `Wait` arms what has
fired. A fiber goes from one look at the ring to parking in one critical section
(`Look`); the timer or a completing task may take it off the parked list while its
set still has it down as parked (`known`). Timed and untimed waits are one action: an
untimed wait is one whose deadline never comes. The same holds of cancellation, which
a fiber finds, or does not find, when it is resumed. `gone` and `lost` are history.

Composition. `WorkDeque` is proved to implement the atomic deque `CarrierPool` is
built on, `Channel` to implement `AbstractChannel`.
`CarrierPool` shows that a published fiber is resumed once, at home, after its
swap, and eventually; the locks use this by letting a fiber continue once it is
off its queue, and by assuming weak fairness of every caller. `Channel` and
`Semaphore` are shown to be refinements of `LockSpec` (`ChanKeepsLockRules`,
`SemKeepsLockRules`), so that the theorems about `LockSpec` hold underneath them.

## 3. Runs

| Run | Instance | What it shows |
|---|---|---|
| `work_deque` | capacity 2, 4 fibers, owner and three others, 5 pushes | every fiber is taken once, none is lost, the deque is the abstract one, through overflow and wrap-around |
| `carrier_pool` | 2 carriers, 3 tasks: one that the program spawns and joins, which spawns another, which spawns the third; each may throw; fair | a fiber is in one place, is resumed at home after its swap, and no completion is missed; spawned tasks complete and shutdown returns, unless it overtakes a task that a throw has left behind |
| `channel` | 2 cancellable fibers that use every method but `isClosed`, 1 thread that sends, receives and asks `isClosed`, 2 slots | implements the abstract channel, no missed wakeup, lock rules kept |
| `mutex` | 2 fibers, one of them cancellable, 1 thread, fair | exclusive use, no lost update and no missed wakeup until a cancelled guard strays; the lock is always released, also when `fn` throws |
| `mutex_cancel` | the same | **violation**: a cancelled `withLockWhen` breaks exclusion |
| `semaphore` | 3 cancellable fibers, 1 thread, 2 permits | every permit accounted for, no missed wakeup; the lock underneath: one holder, no waiter left behind |
| `rwlock` | 2 fibers, 2 threads, fair | exclusion, exact counters, whole snapshots, nobody stranded, a stream of readers does not keep writers out |
| `reactor` | 2 fibers, one of them cancellable, timeouts of up to 2 ticks, one descriptor with two directions | no entry of a finished call on a list, no one-shot arm lost, whoever is parked has a waker listed, the timer thread sleeps past no deadline |
| `ready_set` | 2 sets, for either direction of one descriptor that is closed and reused, a ring of 2, arrays of 1, fair | a set reports members only, whoever is parked in it hears of every member, a wait with a ready member returns |
| `scope_tasks` | a task with two children, frames that start with room for 1, fair | no task is freed while anything refers to it, a completed body has joined and freed its children, no failure is swallowed by a scope, everything completes |
| `scope_leak` | the same | **violation**: a throw drops a block's locals while children spawned in it run |
| `anchor_table` | the method and 2 tasks, a scoped component and a singleton, fair | each component is built once, nobody waits for nobody, the table lives as long as its users and after the method's end only if that was a throw, a waiter whose build has failed is told so unless a newcomer has claimed the component first, every injection ends unless constructors wait in a circle |

Bounds and why they are enough. Capacity 2 makes the deque full, empty, reduced
to its last item and wrapped round, which are all the cases of its code; the
thieves race each other as well as the owner, and `MaxSeq` ends the run after more
than two laps of the ring. Two carriers make a home and a stranger that may steal
from it; that several thieves take a fiber once is the deque's business and shown
there. A chain of three tasks is the shortest in which a task that nobody joins itself waits
for another: the first throws, the program thread joins it and shuts the pool down
while the second waits for the third. It also has fibers that wait on either carrier
while others are stolen and passed back. `Detached` is empty, since a task that a throw
leaves behind is from then on joined by nobody either; the proofs are for any
`Detached`. For
the locks one thread is needed to mix blocking and parking callers, and two fibers
plus a third caller to have a holder, a fiber handed the lock and a newcomer that
overtakes it. Values are counters modulo `Modulus` = 2, which tells an update from a
lost one and a whole snapshot from a torn one. In `reactor` two fibers on one
descriptor are peers in one registration, also when both are one fiber's (a heap
waiter left behind by an early wake), and two ticks put a deadline before, at and
after another. In `ready_set` the two
sets are each other's peers on the descriptor, a member may be dead and listed anew
beside itself, and one descriptor fills a ring of two by being added again after it
fired; arrays of one leave a rest in the ring. In `scope_tasks` two children make an early and a late one in one
frame, or one each in nested ones, and with room for one entry at first the second
registration is the full frame (`FirstCap` is 4 in the code); `MaxOps` lets the
spawner enter two blocks, or one and await. In `anchor_table` two tasks and the
method are a builder, a waiter and a newcomer, and a component of each kind can
inject the other. `work_deque`, `channel` and `semaphore` use the symmetry of
fibers and of threads; the runs with a liveness property do not. Deadlock
checking is off in `channel`, where a caller may wait for a partner that never
comes, and in `anchor_table`, which stops when all is injected or constructors wait
in a circle; everywhere else it is on.

## 4. What the models found

Two statements in the source or its documents do not hold of the code, each shown
by a run.

1. *A cancelled `withLockWhen` releases somebody else's lock* (`mutex_cancel`).
   `condvarWait` may throw without having the lock back; the guard is dropped all
   the same.
2. *A throw drops a block's locals before its children are done* (`scope_leak`).
   The drop chain runs before the handler joins the scopes it leaves, and the
   trampoline joins none, while the specification promises that a borrow's source
   outlives every use.

The neighbouring passing runs delimit the damage with history variables and
exceptions in the properties, and in this way say more of two further defects.
`stray` in `Mutex` becomes true when a guard is dropped by a caller without the
lock; until then use is exclusive, no update is lost and no wakeup missed, so this
drop is the only way to break them. `JoinedAndFreed` excepts exactly the children of
a body that its exception ended. `lost` in `Semaphore` counts the releases a
cancellation cut short: the `release` in `withPermit`'s `finally` starts with a
`lockAcquire` that throws a pending cancellation, and the permit is gone. With `lost`
every permit is accounted for (`PermitsAccounted`), so this is the only way to lose
one, and none is made up. The channel is right with cancellation.

`SpawnedCompletes` and `ShutdownReturns` except a shutdown that overtakes a task nobody
joins (`Overtaken`). That is a detached task, or one whose spawner threw: the trampoline's catch
(`Expression.cpp` 5628-5658) completes the spawner and joins none of its children.
A carrier that sees the flag and an empty pool exits (`exec.c` 727-732) although a peer
still runs such a task, or a child that it waits for; if the completion wakes a fiber
whose home is the exited carrier, the fiber lands in a deque nobody owns, the peer
finds it, may not run it, and looks again for ever, and `task_shutdown`'s join never
returns. With `Overtaken` struck out TLC shows it in the run's own instance: the
program joins `f1`, whose body threw while its child `f2` waits for `f3`, and shuts
down; the carrier `f2` is at home on exits, and the completion of `f3` queues `f2` there.

Two promises of the documents about component scopes do not hold in general.
`AnchorTable`'s properties state what holds instead, and with what exception.

- *Each waiter of a failed build is told so.* `specs/component-scopes-spec.md` 4.8 (lines
  153-156) says that "every parked fiber receives its own typed exception", and
  `docs/guide/19-di-aspects.md` 186-188 that "each waiter gets a
  `ScopedBuildFailedException`". Abandoning a build takes its slot away and wakes the
  waiters, but each looks again for himself, and another caller may have claimed the
  component by then. A waiter who finds it published returns that instance (`sync.c`
  1076-1080); one who finds it being built waits for that build (1105), and forgets the
  failure as he takes the new epoch. `AnswersTrue` says that a waiter whose build has
  failed gets the exception and nothing else as long as no newcomer has claimed the
  component; `AcquireClaim` takes the overtaken waiters out of `lost`. Without that, TLC
  finds a waiter who goes back to sleep for the newcomer's build.
- *A method scope's components end when the method throws.*
  `specs/component-scopes-spec.md` 5.1 (lines 174-175) says that they are dropped when the
  activation "returns or throws", as does `docs/guide/19-di-aspects.md` 81-83. The throw
  runs the anchor frame's drop (`cajeta_rt_io.c` 286-296), which gives up one
  reference (`sync.c` 962-973); children that the throw has not joined (297) hold the
  others through their copies of the frame, and the components live, and can still be
  injected by these children, until the last of them completes. A method that returns
  joins them first, and there the promise holds. `TableAlive` says both: while there
  are frames, the method's own is among them or the method has thrown (`threw`).

Noted while reading, and not shown by a run:

- `exec.c` 1765 says that a closed member of a ready set is marked dead and
  reported; only armed members are on the list that is walked, so one that has
  fired is not marked, and is armed again on the descriptor's next user by the next
  wait. A dead member's report that meets a full ring is not repeated. `gone` marks
  both in `ReadySet`, and `ParkedIsAttended` and `WaitReturns` except them.
- `exec.c` 1412 says that a member whose event met a full ring is armed again by the
  next wait. A fiber that is woken and finds the ring empty, because other fibers have
  removed all members that were in it, parks again without arming (`Look` in
  `Resume`), and a ready member may be left out until the wait ends by other means
  (`lost`).
- `ReadySet.cajeta` 8 says "reported once per readiness"; with a `cap` smaller than
  the number of events in the ring, the next wait arms members whose events are
  still in it, and reports them twice.
- `withTimeout`'s drain catches every exception, also a cancellation of the caller
  itself, which is then forgotten (`ScopeTasks.Raise` from `drain`).
- A table's components are dropped newest claim first (`sync.c` 1093-1094, 936-948): a
  slot is put at the head of the list when its build starts, so a component that
  another's constructor injects is claimed later and dropped earlier than the one that
  holds a borrow of it.

## 5. Fairness

- `CarrierPool.Fairness`: every carrier and the program thread keep being
  scheduled by the operating system (`WF`). Two coincidences are assumed not to
  recur for ever, both a matter of a few instructions in loops that are not in
  step: a carrier that reads the pool's size always exactly during a peer's empty
  pop, and a carrier that looks at its own deque always exactly while a thief has
  its fiber in its hands on the way back there: if it looks again and again, and the
  deque has something in it again and again, then some looks find something. A timeout of the 50 ms backstop is
  part of the carrier's `WF`.
  The program thread's publishing, its wait and the reset are one `WF`.
- `Mutex`, `RwLock`: weak fairness of each caller that can take a step
  in its method. For a thread this is the operating system's scheduling; for a
  fiber it is what `SpawnedCompletes` says of the pool: a queued fiber runs.
  No fairness is assumed of the environment (cancellation, spurious wakeups,
  new calls), nor between callers: that a *particular* caller gets the lock is
  not claimed, because a newcomer may always overtake.
- `ScopeTasks`: one `WF` for all fibers together, weaker than one for each: some
  carrier runs some fiber that can run, and a sleep's deadline comes. It suffices
  because `MaxOps` leaves each body finitely many steps. No deadline of a
  `withTimeout`, and no cancellation from outside, is ever assumed to come.
- `ReadySet`: the reactor thread runs, and so does a fiber that is off the parked list.
  A descriptor is not assumed to become or stay ready, nor a deadline to come.
- `AnchorTable`: weak fairness of each caller that is not waiting, and constructors
  end, one way or the other. A late answer needs no fairness of the waker: `Publish`
  and `Abandon` take all waiters off the list in one step.

## 6. Proofs

All theorems hold for every value of the constants that satisfies the named
assumptions.

**`WorkDequeProofs`** proves `DequeTypeOK`, `DequeExactlyOnce` (no fiber taken
twice, none lost) and `DequeImplements` for any capacity and any set of thieves. `NoDoubleTake` and
`NoLoss` are not inductive. `IndInv` adds: who holds the mutex (`Locking`), what
the locals of each thread were read from (`Locals`), the order of `top` and
`bottom`, with the one-off exception while a pop is under way (`Indices`), the
slot a push has written and not yet published (`Pushing`), what a pop that lowered
`bottom` may still take (`Popping`), and that a thief whose `top` is still current
has read the fiber that is in the slot (`Stealing`) - this is why the
compare-and-swap may be trusted although slots are reused. For the refinement the
queue is the window of `slots` from `top` to the last published index. Each step is
an abstract push, pop or steal, or a stutter; `Winner` is the step that needs an
argument: whoever wins the compare-and-swap takes the oldest fiber, and when it is
the owner who wins, that is the newest one as well, because it was the only one.

**`CarrierPoolProofs`** proves `PoolTypeCorrect`, `PoolOnePlace`, `PoolPinned` and
`PoolWakes` for any number of carriers and any tree of tasks, from `PoolAssumption`
alone. None of the four is inductive: that a stolen fiber may be dispatched rests on
what its deque may hold, which rests on who may publish it, which rests on where it was
parked. `PoolInv` says this in three ways. `Runs`, `Carries` and `Steals` say what a
carrier has in its registers at each point of its loop, `Publishes` and `Queues` what
is in each queue, and `Fiber` where a fiber in each state is. Two facts carry the rest.
A deque holds fibers that are its owner's or have not started (`Queues`), so a thief that
takes a started one can only have it in its hands on the way back; and a fiber that is
ready or parked has its context saved *or* is still what its home runs (`Fiber`), so its
home, which takes nothing from a deque until it has swapped, finds it saved. `Once`,
`Apart` and `PubApart` say that no fiber is twice in a queue or in two of them;
`OnePlace` follows by counting (`PoolOnePlace` adds up sets that do not meet).
`NoLostWakeup` is the conjunct about the parked list: what is on it waits for a task
that is not done, since the completion that sets the flag empties the list in the same
critical section.

**`LockProofs`** holds the theorems of the lock and of the three classes on it. Each
part uses the assumptions of its own module and of `AsyncLock`, and no other's.

*The lock*: `LockTypeCorrect`, `LockExcludes` and `LockHandsOff`.
`LockInv` is the conjunction of the type invariant, `MutualExclusion`, `OneQueue`
and `NoStranded`; the last two need each other, since the fiber a release takes
off the queue can run only if it is not on the queue a second time.

*The channel*: every step is a step of `LockSpec` or
leaves the lock alone (`ChannelKeepsLockRules`), so `LockExcludes` carries over
(`ChannelExcludes`), whatever is cancelled. `ChannelTypeCorrect`, `ChannelWakes` and
`ChannelImplements` rest on `ChanInv`: a caller between two statements of a method
has the lock (`Coupled`), so a stored item still lies where it was put and the item
taken is still the head's; and `tail` is `head` plus `size` round the ring, so that
the ring can be read as a sequence. A `send` that stores and returns is then the
abstract send at the step that counts the item, a `receive` at the step that
uncounts it, and everything else stutters.

*The mutex*: `MutexTypeCorrect`, `MutexExclusive` and `MutexWakes`. What
holds until a guard strays is `Sound`: `LockInv`, `Coupled`, no update lost and
`Awake` (who sleeps on a predicate that holds has somebody on the way to wake it).
The invariant is `MutexTypeOK /\ (stray \/ Sound)`, and has to be: after a release by a
caller without the lock nothing but the types remains. `LockTypes` shows that these
survive it, and `MutexStep` that no other step leaves the lock's rules.

*The semaphore*: `SemaphoreKeepsLockRules`, as for the channel, and then
`SemaphoreTypeCorrect`, `SemaphoreAccounts` and `SemaphoreWakes` for any number of
permits and any finite set of callers. `SemInv` puts `LockInv` beside
`PermitsAccounted` and `SemNoMissedWakeup` and links them by `Coupled`: a caller
between `lockAcquire` and `lockRelease` has the lock, so the count it read is
still the count when it writes it back, and a caller that runs `fn` is outside the
lock's code, where no cancellation reaches it. `LockInv'` comes from the lock's
own proof by way of `SemaphoreStep`. The count stays in `0..Permits` because of the
accounting, not the other way round.

**`RwLockProofs`** proves `RwTypeCorrect`, `RwExcludes`, `RwWakes` and
`RwWholeValue` for any finite sets of fibers and threads. `RwInv` adds `Places` to
the types and to `RwExclusion` and `RwNoStranded`: a suspended caller is where its
queue says. The counters need this, since whoever takes a step is then not
suspended, and `RwNoStranded` needs the counters, since a reader waits for writers
that are counted. On
top of it `DataInv` says what each caller has read or written so far, which needs
the exclusion to be preserved and gives that no snapshot is torn.

**`ReactorProofs`** proves `ReactorTypeCorrect`, `ReactorFramesAlive`,
`ReactorArmed`, `ReactorWakes` and `ReactorKeepsTime` for any sets of fibers,
descriptors and interests and any longest timeout. `RInv` adds `Coherent` to the five properties: a parked
fiber is in a wait; a timed wait that is not over has its waiter listed, and its
timer entry too unless the deadline is past; a fiber has one waiter on its stack at
most. This is what makes `WakeComing` survive `Park`: the fiber looked, under the
lock, that its wait was not over, so what it put on the lists is still there.
`UnionCovers` says that an interest armed as the union covers each waiter in it,
and is all `Armed` needs. The assumption is that interests are not empty.

**`AnchorProofs`** proves `AnchorTableAlive`, `AnchorBuildsOnce`,
`AnchorNobodyStranded` and `AnchorAnswersTrue` for any components, any number of
tasks and any order of injections within constructors. It has two invariants. `LifeInv`
is about the table's life: an injection past its start works on its scope's table
(`Shape`), and whoever has a frame, or injects, is still running (`Alive`), so the
count that keeps the table is that of the frames. That the method's own is among them
unless it has thrown is kept by itself: a return goes only as the last. `BuildInv` adds that builds under
way and unready slots correspond one to one (`Claims`), which gives that nothing is
built twice and that an unready slot always has somebody at work on it; and what a
waiter may conclude when it looks again (`Waits`): a slot that is gone has been
abandoned since, and `epoch` says so, and whoever is in `lost` finds no slot. All other
ways through `acquire_in` need one, or an epoch that has not moved, which gives
`AnswersTrue` in both directions: told of a failure exactly if it is in `lost`.

**`ScopeTasksProofs`** proves `ScopeTypeCorrect`, `ScopeNoDangling`,
`ScopeJoinedAndFreed` and the action property `ScopeFailuresHeard` for any tree of
tasks, any number of operations and any first capacity, from `ScopeAssumption` alone.
`ScopeInv` is `TypeOK`, `NoDangling` and two halves. `Control` is about one fiber:
its task's flag and slot follow where it is (`Lives`); its blocks nest, and it has the
frames those need, except while a throw is on its way (`Nested`); whom a scope exit has
passed is done, and its failure has set the trigger (`Joins`); a body that is over has
no variables, and no frames unless it threw (`Completes`). `Held` is about who holds a
task: its spawner and nobody else (`Belongs`), by one entry and one variable at most
(`Once`), with an entry that owns it or a variable but not both (`Owns`), and until it
is freed there is one of the two (`Accounted`). `NoDangling` needs both: a task is freed
by a drop that has cleared its entry in all frames, or with the one frame that owns it,
and nobody else may hold it then. `JoinedAndFreed` follows from `Accounted`, since
a completed body has neither variables nor frames to hold a child. That reaping and
clearing keep each other entry once comes from a lemma about `Subsequence`
(`SubsequenceOf`): the rank of a place among those that are kept is an injection into
as many numbers as there are such places, and so each number is a rank (`Placed`).

**`ReadySetProofs`** proves `ReadyTypeCorrect`, `ReadyEventsBelong` and `ReadyAttends`
for any sets, interests and lengths of arrays, any finite set of descriptors and any
size of the ring, from `ReadySetAssumption` alone. `ParkedIsAttended` speaks of parked
fibers only, but what a parking fiber relies on was brought about while it was not in
the set. `ReadyInv` therefore says of every member, at any time, that its descriptor is
open, its interest is not empty, and the descriptor is armed for it or its event is in
the batch, if it is armed itself (`Watching`); that a dead member and one whose
descriptor is not in use have been closed (`Buried`); and that, while the fiber is in
its wait, a member that is not armed is in the ring, lost or closed (`Heard`). A parked
fiber's ring is empty (`Parks`), so its members are armed. `Newest` is what makes
removal safe: a closed descriptor whose number comes back is listed twice, of its
members all but the newest are dead, and the newest is the one that `io_set_remove`
takes, so the records it takes along are nobody's who is still heard. `Recorded` is the
lemma about the walk that the reactor thread and `io_close_fd` share, and `Settled` the
one about arming: whoever was attended stays so when the union is armed again.

## 7. Only model-checked

- Liveness (`SpawnedCompletes`, `ShutdownReturns`, `LockIsReleased`, `WritersGetIn`,
  `TasksComplete`, `InjectionsEnd`, `WaitReturns`) is beyond the proof system, which has no rules for
  fairness.
  Every invariant, action property and refinement that a passing run checks is
  proved as well.
- The two violations are counterexamples, and nothing is to be proved of them.
- It is the other way round for `LockSpec` by itself, with `lock_try_acquire`: it is
  proved, and TLC checks its invariants in the semaphore that is built on it. The
  type invariants of the other modules, and the deque's `NoLoss`, are proved and not
  checked again by a run.

## 8. Not modelled, and why

Parts of modelled components:

- Memory ordering weaker than sequential consistency: the deque's accesses are
  seq_cst or under its mutex, the rest under mutexes.
- Allocation and destruction of locks, fiber stacks, the debugger's stop barrier and
  the profiler's hooks in the carrier loop.
- Timed waits and descriptor waits of threads that are not fibers: a plain
  `pthread_cond_timedwait`, or an `epoll` of the thread's own.
- The kernel's side of a descriptor: an armed interest may fire at any time or
  never. That a deadline ends a wait is therefore stated as safety (`WakeComing`,
  `NoOversleep`); as liveness it would need the fairness of section 5 in `Reactor`.
- Scopes and tasks: the `--lazy-scope` mode of the compiler, `break` and `continue`
  out of a scope, `finally`, calls of functions that open frames of their own, and
  `detach` (whose fiber is one of `Detached` in `CarrierPool`).
- Ready sets on systems without epoll: a loop that probes each member and sleeps.
- Component scopes: an anchored method called within another, instance tables (which
  end with their object and have no frames), transient components (nothing is
  shared), values given with `provide`, and a second thread that is not a fiber.
- Exceptions: titles, uncaught exceptions, and the flags that stop a moved value
  from being dropped twice.

Whole components:

- `FiberLocal`: touched by its own fiber only.
- Start and stop of the networking reactor's thread: done once, under a flag.
- Epochs and shared titles: `cajeta_rt_epoch.c` is a stack of the extents of a few
  registries, for a host that runs one program after another in one process, and
  `cajeta_rt_shared.c` a table of reference counts. Both do all they do under one
  mutex, with nothing to interleave.
- Debugger stop barrier, profiler, session and process support: tools around the
  runtime, mostly I/O.
- The compiler, build tool, servers, notebook kernel and GPU dispatch: sequential
  translation or I/O, with no small state to enumerate. They, the vendored drivers and
  the generated Unicode tables are all but a few thousand of the repository's
  lines, which is why the lines `PROJECT.json` maps are a small part of it: they are
  most of the concurrent runtime and of the classes on top of it.

## 9. What is left

1. A fair specification of `Reactor`, under which a timed wait ends.
2. Fibers of the pool that wait for each other again and again: a carrier takes its
   own newest fiber first, and whether an older one can be kept from running is open.
3. `CarrierPool` and the locks joined by a proof: that a fiber which leaves a lock's
   queue runs is assumed there and shown by `SpawnedCompletes` here, on an instance only.
