----------------------------- MODULE ScopeTasks -----------------------------
(***************************************************************************)
(* Structured concurrency: the scope frames of                             *)
(* cajeta_rt_concurrent_sync.c, task_wait and task_complete of             *)
(* cajeta_rt_concurrent_exec.c, and the code the compiler emits around     *)
(* them for spawn, await, scope, try and the drop of a Task.               *)
(*                                                                         *)
(* A task and the fiber that runs it have one name; which exception is     *)
(* thrown, or cancelled with, is not told apart.  A body is any sequence   *)
(* of the operations below.  A task whose handle is bound to a variable is *)
(* on its spawner's drop chain; one whose handle is discarded is owned by  *)
(* the scope frame it is registered in.                                    *)
(***************************************************************************)
EXTENDS Integers, Sequences, FiniteSets, SequencesExt, Subsequences

CONSTANTS Tasks,
          Root,        \* a task that was spawned outside of this model
          Parent,      \* who spawns each of the others
          MaxOps,      \* bound: blocks entered and awaits made by each body
          FirstCap,    \* the capacity a frame starts with; 4 in the code
          None

ASSUME ScopeAssumption ==
    /\ Root \in Tasks
    /\ Parent \in [Tasks \ {Root} -> Tasks]
    /\ MaxOps \in [Tasks -> Nat]
    /\ FirstCap \in Nat \ {0}
    /\ None \notin Tasks

VARIABLES pc,          \* what each fiber is doing
          handle,      \* the task it awaits
          blocks,      \* the scope and try blocks its body is in
          frames,      \* its scope frames, the innermost last
          drops,       \* its drop chain: the tasks bound to variables
          join,        \* the scope exit it is in
          ops,         \* operations its body has made
          cancelled,   \* fibers with a cancel_with
          parked,      \* __cajeta_parked_head
          woken,       \* fibers that were parked in the wait they are in
          expired,     \* timed waits whose deadline has passed
          mutex,       \* __cajeta_task_mutex across task_complete's writes
          done,        \* tasks whose done flag is set
          failed,      \* tasks that hold an exception
          slot,        \* tasks whose fiber slot is not null
          freed,       \* tasks whose memory is freed
          outer        \* Root's own scope has not cancelled it

bodyVars == <<pc, handle, blocks, frames, drops, join, ops>>
waitVars == <<cancelled, parked, woken, expired, mutex>>
taskVars == <<done, failed, slot, freed>>
vars == <<bodyVars, waitVars, taskVars, outer>>

Entries == [task : Tasks \cup {None}, owned : BOOLEAN]
Frames == [entries : Seq(Entries), cap : Nat]
Blocks == [kind : {"scope", "try"}, drops : Nat, frames : Nat]
Exits == [goal : {"exit", "return", "catch"}, mark : Nat, i : Nat, frame_trigger : BOOLEAN, trigger : BOOLEAN]
Labels == {"unborn", "run", "await", "timed", "drain", "read", "write", "join", "drop", "unwind",
           "complete", "wake", "gone"}

TypeOK ==
    /\ pc \in [Tasks -> Labels]
    /\ handle \in [Tasks -> Tasks \cup {None}]
    /\ blocks \in [Tasks -> Seq(Blocks)]
    /\ frames \in [Tasks -> Seq(Frames)]
    /\ drops \in [Tasks -> Seq(Tasks)]
    /\ join \in [Tasks -> Exits]
    /\ ops \in [Tasks -> Nat]
    /\ \A f \in Tasks :
        /\ ops[f] <= MaxOps[f]
        /\ \A k \in DOMAIN frames[f] : Len(frames[f][k].entries) <= frames[f][k].cap
    /\ mutex \in Tasks \cup {None}
    /\ outer \in BOOLEAN
    /\ \A S \in {cancelled, parked, woken, expired, done, failed, slot, freed} : S \subseteq Tasks

EmptyFrame == [entries |-> <<>>, cap |-> 0]
Exit(goal, mark) == [goal |-> goal, mark |-> mark, i |-> 1, frame_trigger |-> FALSE, trigger |-> FALSE]
NoExit == Exit("exit", 0)

Init ==
    /\ pc = [t \in Tasks |-> IF t = Root THEN "run" ELSE "unborn"]
    /\ handle = [t \in Tasks |-> None]
    /\ blocks = [t \in Tasks |-> <<>>]
    /\ frames = [t \in Tasks |-> <<EmptyFrame>>]
    /\ drops = [t \in Tasks |-> <<>>]
    /\ join = [t \in Tasks |-> NoExit]
    /\ ops = [t \in Tasks |-> 0]
    /\ cancelled = {} /\ parked = {} /\ woken = {} /\ expired = {}
    /\ mutex = None
    /\ done = {} /\ failed = {} /\ slot = {Root} /\ freed = {}
    /\ outer = TRUE

\* The fiber goes on elsewhere; what its last wait left behind is forgotten.
Goto(f, l) ==
    /\ pc' = [pc EXCEPT ![f] = l]
    /\ woken' = woken \ {f}
    /\ expired' = expired \ {f}
    /\ handle' = [handle EXCEPT ![f] = IF l \in {"await", "read", "write", "drain"} THEN @ ELSE None]

-----------------------------------------------------------------------------
(* The body.                                                               *)

\* An operation the bound counts.
Operation(f) ==
    /\ pc[f] = "run"
    /\ ops[f] < MaxOps[f]
    /\ ops' = [ops EXCEPT ![f] = @ + 1]

Enter(f, kind) ==
    /\ Operation(f)
    /\ blocks' = [blocks EXCEPT ![f] = Append(@, [kind |-> kind, drops |-> Len(drops[f]), frames |-> Len(frames[f])])]
    /\ frames' = [frames EXCEPT ![f] = IF kind = "scope" THEN Append(@, EmptyFrame) ELSE @]
    /\ UNCHANGED <<pc, handle, drops, join, waitVars, taskVars>>

ReapableAny(e) ==   \* mutant: finished is enough
    e.owned /\ e.task \in done

\* A finished task that the frame owns and that has not thrown.
Reapable(e) == e.owned /\ e.task \in done \ failed

\* What scope_reap frees when the frame is full.
Reaped(fr) ==
    {e.task : e \in {x \in Range(fr.entries) : Len(fr.entries) = fr.cap /\ Reapable(x)}}

RegisteredLate(fr, e) ==   \* mutant: the frame grows only once it is over-full
    [entries |-> Append(fr.entries, e), cap |-> IF Len(fr.entries) > fr.cap THEN 2 * fr.cap ELSE fr.cap]

\* scope_register: a full frame is reaped first, and grows if that made no room.
Registered(fr, e) ==
    LET Stays(x) == Len(fr.entries) = fr.cap => x.task # None /\ ~Reapable(x)
        kept == Subsequence(fr.entries, {i \in DOMAIN fr.entries : Stays(fr.entries[i])})
        cap == CASE Len(kept) < fr.cap -> fr.cap [] fr.cap = 0 -> FirstCap [] OTHER -> 2 * fr.cap
    IN  [entries |-> Append(kept, e), cap |-> cap]

\* scope_deregister: the entry of the task is cleared in place.
Deregistered(fr, t) ==
    LET Cleared(e) == IF e.task = t THEN [task |-> None, owned |-> FALSE] ELSE e
    IN  [entries |-> [i \in DOMAIN fr.entries |-> Cleared(fr.entries[i])], cap |-> fr.cap]

\* The task is registered with the innermost frame, and its fiber is started.
Spawn(f, t, owned) ==
    /\ pc[f] = "run" /\ pc[t] = "unborn" /\ Parent[t] = f
    /\ drops' = [drops EXCEPT ![f] = IF owned THEN @ ELSE Append(@, t)]
    /\ freed' = freed \cup Reaped(Last(frames[f]))
    /\ frames' = [frames EXCEPT ![f][Len(frames[f])] = Registered(@, [task |-> t, owned |-> owned])]
    /\ slot' = slot \cup {t}
    /\ pc' = [pc EXCEPT ![t] = "run"]
    /\ UNCHANGED <<handle, blocks, join, ops, waitVars, done, failed>>

\* await, or withTimeout, on a task held in a variable.
Await(f, t, how) ==
    /\ Operation(f)
    /\ t \in Range(drops[f])
    /\ pc' = [pc EXCEPT ![f] = how]
    /\ handle' = [handle EXCEPT ![f] = t]
    /\ UNCHANGED <<blocks, frames, drops, join, waitVars, taskVars>>

\* fiber_sleep_nanos waits, with a deadline, for a flag that is never set.
Sleep(f) ==
    /\ Operation(f)
    /\ pc' = [pc EXCEPT ![f] = "timed"]
    /\ UNCHANGED <<handle, blocks, frames, drops, join, waitVars, taskVars>>

\* A return joins all of the body's frames, the end of a scope block its own; the
\* end of a try block none.  What is in the block's variables is dropped then.
Leave(f, how, rest) ==
    /\ pc[f] = "run"
    /\ Goto(f, IF how.goal = "catch" THEN "drop" ELSE "join")
    /\ join' = [join EXCEPT ![f] = IF how.goal = "catch" THEN @ ELSE how]
    /\ blocks' = [blocks EXCEPT ![f] = rest]
    /\ UNCHANGED <<frames, drops, ops, cancelled, parked, mutex, taskVars>>

ReturnInner(f) ==   \* mutant: a return leaves the innermost scope only
    Leave(f, Exit("return", Len(frames[f]) - 1), <<>>)

Return(f) == Leave(f, Exit("return", 0), <<>>)

EndBlock(f) ==
    /\ blocks[f] # <<>>
    /\ Leave(f, Exit(IF Last(blocks[f]).kind = "scope" THEN "exit" ELSE "catch", Len(frames[f]) - 1), blocks[f])

\* An exception on its way, from whatever the fiber was doing.  The drain of
\* withTimeout catches it on the spot.
Raise(f) ==
    /\ Goto(f, IF pc[f] = "drain" THEN "run" ELSE "unwind")
    /\ join' = [join EXCEPT ![f] = NoExit]

Throw(f) ==
    /\ pc[f] = "run"
    /\ Raise(f)
    /\ UNCHANGED <<blocks, frames, drops, ops, cancelled, parked, mutex, taskVars>>

Body(f) ==
    \/ \E kind \in {"scope", "try"} : Enter(f, kind)
    \/ \E t \in Tasks \ {Root}, owned \in BOOLEAN : Spawn(f, t, owned)
    \/ \E t \in Tasks, how \in {"await", "timed"} : Await(f, t, how)
    \/ Sleep(f) \/ Return(f) \/ EndBlock(f) \/ Throw(f)

-----------------------------------------------------------------------------
(* Waiting.                                                                *)

\* The try block that catches what is thrown; 0: the trampoline.
Handler(f) == Max({k \in DOMAIN blocks[f] : blocks[f][k].kind = "try"} \cup {0})

\* How far the drop chain is to be run down: to where the handler was entered
\* (the throw), to where the block was (its end), to the bottom (a return).
DropMark(f) ==
    LET k == IF pc[f] = "unwind" THEN Handler(f) ELSE Len(blocks[f])
    IN  IF k = 0 THEN 0 ELSE blocks[f][k].drops

Dropping(f) == pc[f] \in {"drop", "unwind"} /\ Len(drops[f]) > DropMark(f)

\* The scope exit has come to an entry of its frame.
Joining(f) ==
    /\ pc[f] = "join"
    /\ Len(frames[f]) > join[f].mark
    /\ join[f].i <= Len(Last(frames[f]).entries)

Entry(f) == Last(frames[f]).entries[join[f].i]

Target(f) == CASE pc[f] = "join" -> Entry(f).task
               [] pc[f] \in {"drop", "unwind"} -> Last(drops[f])
               [] OTHER -> handle[f]

InWait(f) == \/ pc[f] \in {"await", "timed", "drain"}
             \/ Dropping(f)
             \/ Joining(f) /\ Entry(f).task # None

Running(f) == InWait(f) /\ f \notin parked /\ mutex = None

\* task_wait throws a pending cancellation, on entry even if the task is done and
\* after each wake; the timed wait does not look on entry.  (The test for it and
\* that of the flag are one step: a cancellation that comes between them might as
\* well have come after both.)
Cancelled(f) == f \in cancelled /\ (pc[f] = "timed" => f \in woken)

WaitCancelled(f) ==
    /\ Running(f) /\ Cancelled(f)
    /\ Raise(f)
    /\ cancelled' = cancelled \ {f}
    /\ UNCHANGED <<blocks, frames, drops, ops, parked, mutex, taskVars>>

\* Not done: park, in one critical section with the test.
Park(f) ==
    /\ Running(f) /\ ~Cancelled(f)
    /\ Target(f) \notin done
    /\ f \notin expired
    /\ parked' = parked \cup {f}
    /\ woken' = IF pc[f] = "timed" THEN woken \cup {f} ELSE woken
    /\ UNCHANGED <<bodyVars, cancelled, expired, mutex, taskVars>>

\* The wait has found its task done.
Waited(f, labels) == pc[f] \in labels /\ Running(f) /\ ~Cancelled(f) /\ Target(f) \in done

\* await throws the task's exception and clears it, or reads the value.
Awaited(f) ==
    /\ Waited(f, {"await", "drain"})
    /\ IF handle[f] \in failed THEN Raise(f) ELSE (Goto(f, "run") /\ UNCHANGED join)
    /\ failed' = failed \ {handle[f]}
    /\ UNCHANGED <<blocks, frames, drops, ops, cancelled, parked, mutex, done, slot, freed>>

\* A sleep is over; withTimeout awaits a task that was done in time, and cancels one that was not.
TimedOver(f) ==
    /\ \/ Waited(f, {"timed"}) /\ Goto(f, "await")
       \/ /\ pc[f] = "timed" /\ Running(f) /\ ~Cancelled(f)
          /\ handle[f] \notin done /\ f \in expired
          /\ Goto(f, IF handle[f] = None THEN "run" ELSE "read")
    /\ UNCHANGED <<blocks, frames, drops, join, ops, cancelled, parked, mutex, taskVars>>

\* taskCancel loads the fiber slot, without the mutex ...
TaskCancelRead(f) ==
    /\ pc[f] = "read"
    /\ Goto(f, IF handle[f] \in slot THEN "write" ELSE "drain")
    /\ UNCHANGED <<blocks, frames, drops, join, ops, cancelled, parked, mutex, taskVars>>

\* ... and marks the fiber it found.  One that is gone by then is freed memory,
\* which is not part of this state.
TaskCancelWrite(f) ==
    /\ pc[f] = "write"
    /\ Goto(f, "drain")
    /\ cancelled' = IF pc[handle[f]] = "gone" THEN cancelled ELSE cancelled \cup {handle[f]}
    /\ UNCHANGED <<blocks, frames, drops, join, ops, parked, mutex, taskVars>>

\* The scope that Root was spawned in cancels it, as JoinChild does.
CancelRoot ==
    /\ outer /\ mutex = None
    /\ outer' = FALSE
    /\ cancelled' = cancelled \cup ({Root} \cap slot)
    /\ UNCHANGED <<bodyVars, parked, woken, expired, mutex, taskVars>>

Deadline(f) ==
    /\ pc[f] = "timed" /\ f \notin expired
    /\ expired' = expired \cup {f}
    /\ parked' = parked \ {f}
    /\ UNCHANGED <<bodyVars, cancelled, woken, mutex, taskVars>>

-----------------------------------------------------------------------------
(* Leaving scopes.                                                         *)

\* Join the next child.  The first that has thrown is the frame's trigger, and
\* the children after it that still have a fiber are cancelled with it.
JoinChild(f) ==
    /\ Waited(f, {"join"})
    /\ LET es == Last(frames[f]).entries
           i == join[f].i
           fails == ~join[f].frame_trigger /\ es[i].task \in failed
       IN  /\ join' = [join EXCEPT ![f].i = i + 1, ![f].frame_trigger = @ \/ fails]
           /\ cancelled' = cancelled \cup (IF fails THEN {es[j].task : j \in (i + 1)..Len(es)} \cap slot ELSE {})
    /\ UNCHANGED <<pc, handle, blocks, frames, drops, ops, parked, woken, expired, mutex, taskVars>>

\* An entry that the drop of its task has cleared.
SkipCleared(f) ==
    /\ Joining(f) /\ Entry(f).task = None
    /\ join' = [join EXCEPT ![f].i = @ + 1]
    /\ UNCHANGED <<pc, handle, blocks, frames, drops, ops, waitVars, taskVars>>

\* All its children joined: pop the frame and free the tasks it owns.
PopFrame(f) ==
    /\ pc[f] = "join" /\ Len(frames[f]) > join[f].mark /\ ~Joining(f)
    /\ freed' = freed \cup {e.task : e \in {x \in Range(Last(frames[f]).entries) : x.owned}}
    /\ frames' = [frames EXCEPT ![f] = Front(@)]
    /\ join' = [join EXCEPT ![f].i = 1, ![f].frame_trigger = FALSE,
                            ![f].trigger = @ \/ join[f].frame_trigger]
    /\ UNCHANGED <<pc, handle, blocks, drops, ops, waitVars, done, failed, slot>>

\* A trigger is thrown.  Without one, the block's variables are dropped, or the
\* catch runs: a clause matches, or what was thrown is thrown on.
Joined(f) ==
    /\ pc[f] = "join" /\ Len(frames[f]) = join[f].mark
    /\ \/ join[f].trigger /\ Raise(f)
       \/ ~join[f].trigger /\ join[f].goal = "catch" /\ Raise(f)
       \/ /\ ~join[f].trigger
          /\ Goto(f, IF join[f].goal = "catch" THEN "run" ELSE "drop")
          /\ join' = [join EXCEPT ![f] = NoExit]
    /\ UNCHANGED <<blocks, frames, drops, ops, cancelled, parked, mutex, taskVars>>

DropTaskListed(f) ==   \* mutant: the frame still lists the task
    /\ Waited(f, {"drop", "unwind"})
    /\ freed' = freed \cup {Last(drops[f])}
    /\ drops' = [drops EXCEPT ![f] = Front(@)]
    /\ UNCHANGED <<pc, handle, blocks, frames, join, ops, waitVars, done, failed, slot>>

\* The drop of a task: deregister it from this fiber's frames, and free it.
DropTask(f) ==
    /\ Waited(f, {"drop", "unwind"})
    /\ frames' = [frames EXCEPT ![f] = [k \in DOMAIN @ |-> Deregistered(@[k], Last(drops[f]))]]
    /\ freed' = freed \cup {Last(drops[f])}
    /\ drops' = [drops EXCEPT ![f] = Front(@)]
    /\ UNCHANGED <<pc, handle, blocks, join, ops, waitVars, done, failed, slot>>

\* A block, or the body, is over.
Dropped(f) ==
    /\ pc[f] = "drop" /\ ~Dropping(f)
    /\ Goto(f, IF blocks[f] = <<>> THEN "complete" ELSE "run")
    /\ blocks' = [blocks EXCEPT ![f] = IF @ = <<>> THEN @ ELSE Front(@)]
    /\ UNCHANGED <<frames, drops, join, ops, cancelled, parked, mutex, taskVars>>

\* The throw has run the drops and lands: in the handler, which leaves the scopes
\* of its body, or in the trampoline, which keeps the exception for the join.
Land(f) ==
    /\ pc[f] = "unwind" /\ ~Dropping(f)
    /\ LET h == Handler(f) IN
        \/ /\ h > 0
           /\ Goto(f, "join")
           /\ join' = [join EXCEPT ![f] = Exit("catch", blocks[f][h].frames)]
           /\ blocks' = [blocks EXCEPT ![f] = SubSeq(@, 1, h - 1)]
           /\ UNCHANGED failed
        \/ /\ h = 0
           /\ Goto(f, "complete")
           /\ blocks' = [blocks EXCEPT ![f] = <<>>]
           /\ failed' = failed \cup {f}
           /\ UNCHANGED join
    /\ UNCHANGED <<frames, drops, ops, cancelled, parked, mutex, done, slot, freed>>

-----------------------------------------------------------------------------
(* task_complete, and the carrier that frees the fiber.                    *)

\* The slot is cleared, then the flag set: from then on the task may be freed.
Complete(f) ==
    /\ pc[f] = "complete" /\ mutex = None
    /\ mutex' = f
    /\ slot' = slot \ {f}
    /\ done' = done \cup {f}
    /\ Goto(f, "wake")
    /\ UNCHANGED <<blocks, frames, drops, join, ops, cancelled, parked, failed, freed>>

WakeAwaiting(f) ==   \* mutant: wakes those only that await the task by its handle
    /\ pc[f] = "wake"
    /\ parked' = {g \in parked : handle[g] # f}
    /\ mutex' = None
    /\ slot' = slot \ {f}
    /\ cancelled' = cancelled \ {f}
    /\ ops' = [ops EXCEPT ![f] = 0]
    /\ Goto(f, "gone")
    /\ UNCHANGED <<blocks, frames, drops, join, done, failed, freed>>

\* Wake everybody and return; the carrier clears a slot the fiber still has, and
\* frees the fiber.
Wake(f) ==
    /\ pc[f] = "wake"
    /\ parked' = {}
    /\ mutex' = None
    /\ slot' = slot \ {f}
    /\ cancelled' = cancelled \ {f}
    /\ ops' = [ops EXCEPT ![f] = 0]
    /\ Goto(f, "gone")
    /\ UNCHANGED <<blocks, frames, drops, join, done, failed, freed>>

-----------------------------------------------------------------------------
Runtime(f) ==
    \/ WaitCancelled(f) \/ Park(f) \/ Awaited(f) \/ TimedOver(f)
    \/ TaskCancelRead(f) \/ TaskCancelWrite(f)
    \/ JoinChild(f) \/ DropTask(f) \/ Complete(f) \/ Wake(f)

Local(f) == SkipCleared(f) \/ PopFrame(f) \/ Joined(f) \/ Dropped(f) \/ Land(f)

\* Whatever the fiber does next is on what is its own: it is done before anything
\* else, as no order with the steps of others could be told apart.
Own(f) ==
    \/ pc[f] \in {"join", "drop", "unwind"} /\ ~InWait(f)
    \/ pc[f] = "run" /\ \A t \in Tasks \ {Root} : Parent[t] = f => pc[t] # "unborn"

Settled == \A f \in Tasks : ~Own(f)

Turn == IF Settled THEN Tasks ELSE {CHOOSE f \in Tasks : Own(f)}

Step(f) == f \in Turn /\ (Body(f) \/ Runtime(f) \/ Local(f))

Terminated == \A t \in Tasks : pc[t] \in {"unborn", "gone"}

Next ==
    \/ /\ \E f \in Tasks : Step(f) \/ (Settled /\ Deadline(f))
       /\ UNCHANGED outer
    \/ Settled /\ CancelRoot
    \/ Terminated /\ UNCHANGED vars

Spec == Init /\ [][Next]_vars

\* Some carrier runs a fiber that can run, and the timer thread wakes whoever sleeps.
FairSpec ==
    Spec /\ WF_vars((\E f \in Tasks : Step(f) \/ (Settled /\ handle[f] = None /\ Deadline(f))) /\ UNCHANGED outer)

-----------------------------------------------------------------------------
(* Correctness.                                                            *)

Spawned(t) == pc[t] # "unborn"
Children(f) == {t \in Tasks \ {Root} : Parent[t] = f /\ Spawned(t)}
Holds(fr, t) == \E e \in Range(fr.entries) : e.task = t

\* The memory of a task is freed once nothing points to it any more: no entry of a
\* frame that is still to be left, no variable, no fiber that has yet to write it.
NoDangling ==
    \A t \in freed :
        /\ pc[t] \in {"wake", "gone"}
        /\ t \notin slot
        /\ \A f \in Tasks :
            /\ \A fr \in Range(frames[f]) : ~Holds(fr, t)
            /\ t \notin Range(drops[f])

\* A task that completes has joined and freed every child; one that its exception
\* completes may have left some in frames that nobody leaves any more.
JoinedAndFreed ==
    \A f \in Tasks : pc[f] = "wake" => \A t \in Children(f) :
        \/ t \in done \cap freed
        \/ f \in failed /\ \E fr \in Range(frames[f]) : [task |-> t, owned |-> TRUE] \in Range(fr.entries)

\* No failure goes unheard: a task that holds an exception is freed by a spawner
\* that throws, or drops it with the variable it was in.
FailuresHeard ==
    [][\A t \in (freed' \ freed) \cap failed :
           \/ pc[Parent[t]] \in {"drop", "unwind"}
           \/ pc[Parent[t]] = "join" /\ join[Parent[t]].frame_trigger]_vars

\* What the language promises of a borrow: the locals of a block are dropped only
\* when the tasks spawned in it are done.
BorrowsOutlived ==
    \A f \in Tasks : \A k \in DOMAIN frames[f] :
        f \in done \/ (pc[f] = "join" /\ join[f].goal = "catch" /\ k > join[f].mark)
            => \A t \in Tasks : Holds(frames[f][k], t) => t \in done

\* Every task that is spawned completes: no wait for it or by it hangs.
TasksComplete == <>Terminated
=============================================================================
