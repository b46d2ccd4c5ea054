---------------------------- MODULE AnchorTable ----------------------------
(***************************************************************************)
(* Components that are built once per scope: the anchor tables of          *)
(* cajeta_rt_concurrent_sync.c and the inject helper the compiler emits.   *)
(*                                                                         *)
(* The program thread, Main, runs a method that anchors a scope; the tasks *)
(* it spawns there share the scope's table, and hold it alive.  Singletons *)
(* build in a table of their own that never ends, made by whoever is first.*)
(* A constructor may inject other components, and may throw.  What a       *)
(* critical section under the table's lock does is one step.               *)
(***************************************************************************)
EXTENDS Integers, Sequences, FiniteSets, SequencesExt

CONSTANTS Fibers,
          Main,         \* the one thread with Cajeta code that is no fiber
          Components,
          Singletons,   \* those of them in the singleton scope
          MaxOps,       \* bound: injections by each caller
          None

Callers == Fibers \cup {Main}

Scopes == {"method", "singleton"}
Tables == Scopes \X Callers      \* a table, by its scope and its creator

ASSUME AnchorAssumption ==
    /\ IsFiniteSet(Fibers) /\ Main \notin Fibers
    /\ Singletons \subseteq Components
    /\ MaxOps \in [Callers -> Nat]
    /\ None \notin Callers \cup Tables

ScopeOf(c) == IF c \in Singletons THEN "singleton" ELSE "method"

\* __cajeta_current_fiber; the program thread has none.
Self(p) == IF p = Main THEN None ELSE p

VARIABLES inj,        \* injections each caller is in, the innermost last
          ops,        \* injections it has made
          stage,      \* its life
          frames,     \* who has a frame of the method scope, or a copy
          refs,       \* of the method table
          ended,      \* the method table is freed
          threw,      \* history: the method has ended by a throw
          ptr,        \* where a scope keeps its table
          slots,      \* the components of each table, built or being built
          epoch,      \* builds abandoned in it
          waiting,    \* parked fibers, and Main on the condition variable
          global,     \* singletons whose global variable is set
          built,      \* history: instances published
          lost        \* history: whose awaited build has failed, and is not begun anew

vars == <<inj, ops, stage, frames, refs, ended, threw, ptr, slots, epoch, waiting, global, built, lost>>
tableVars == <<ptr, slots, epoch>>
lifeVars == <<stage, frames, refs, ended, threw>>
historyVars == <<built, lost>>

Pending == [component : Components, at : {"make", "look", "build", "stored"},
              table : Tables \cup {None}, waited : Int]

Slots == [component : Components, ready : BOOLEAN, builder : Fibers \cup {None}]

TypeOK ==
    /\ inj \in [Callers -> Seq(Pending)]
    /\ ops \in [Callers -> Nat] /\ \A p \in Callers : ops[p] <= MaxOps[p]
    /\ stage \in [Callers -> {"unborn", "run", "done"}]
    /\ frames \subseteq Callers
    /\ refs \in Nat
    /\ ended \in BOOLEAN /\ threw \in BOOLEAN
    /\ ptr \in [Scopes -> Tables \cup {None}]
    /\ slots \in [Tables -> SUBSET Slots]
    /\ epoch \in [Tables -> Nat]
    /\ waiting \subseteq Callers
    /\ global \subseteq Singletons
    /\ built \in [Components -> Nat]
    /\ lost \subseteq Callers

Init ==
    /\ inj = [p \in Callers |-> <<>>]
    /\ ops = [p \in Callers |-> 0]
    /\ stage = [p \in Callers |-> IF p = Main THEN "run" ELSE "unborn"]
    /\ frames = {Main}
    /\ refs = 0 /\ ended = FALSE /\ threw = FALSE
    /\ ptr = [s \in Scopes |-> None]
    /\ slots = [t \in Tables |-> {}]
    /\ epoch = [t \in Tables |-> 0]
    /\ waiting = {} /\ global = {}
    /\ built = [c \in Components |-> 0]
    /\ lost = {}

-----------------------------------------------------------------------------
(* Injecting.                                                              *)

\* The innermost injection.
Top(p) == Last(inj[p])

\* The caller runs code of its own, or of a constructor.
Active(p) == stage[p] = "run" /\ (inj[p] # <<>> => Top(p).at = "build")

\* The innermost injection is in this place, and not waiting.
At(p, l) == inj[p] # <<>> /\ Top(p).at = l /\ p \notin waiting

Advance(p, call) == inj' = [inj EXCEPT ![p][Len(inj[p])] = call]

\* The innermost injection is over.
Answer(p) == inj' = [inj EXCEPT ![p] = Front(@)]

\* __cajeta_inject: without a frame of the scope it throws, and a singleton that
\* is in its global is returned; else it loads the scope's table.
Inject(p, c) ==
    /\ Active(p) /\ ops[p] < MaxOps[p]
    /\ ops' = [ops EXCEPT ![p] = @ + 1]
    /\ LET t == ptr[ScopeOf(c)]
           call == [component |-> c, at |-> IF t = None THEN "make" ELSE "look", table |-> t, waited |-> -1]
           over == IF c \in Singletons THEN c \in global ELSE p \notin frames
       IN  inj' = IF over THEN inj ELSE [inj EXCEPT ![p] = Append(@, call)]
    /\ UNCHANGED <<lifeVars, tableVars, waiting, global, historyVars>>

MakeTableOver(p) ==   \* mutant: stores the new table over one that is there by now
    /\ At(p, "make")
    /\ LET s == ScopeOf(Top(p).component) IN
        /\ ptr' = [ptr EXCEPT ![s] = <<s, p>>]
        /\ Advance(p, [Top(p) EXCEPT !.at = "look", !.table = ptr'[s]])
        /\ refs' = IF s = "method" THEN 1 ELSE refs
    /\ UNCHANGED <<ops, stage, frames, ended, threw, slots, epoch, waiting, global, historyVars>>

\* table_at, when there was no table: make one, and swap it in unless another was first.
MakeTable(p) ==
    /\ At(p, "make")
    /\ LET s == ScopeOf(Top(p).component) IN
        /\ ptr' = [ptr EXCEPT ![s] = IF @ = None THEN <<s, p>> ELSE @]
        /\ Advance(p, [Top(p) EXCEPT !.at = "look", !.table = ptr'[s]])
        /\ refs' = IF s = "method" /\ ptr[s] = None THEN 1 ELSE refs
    /\ UNCHANGED <<ops, stage, frames, ended, threw, slots, epoch, waiting, global, historyVars>>

-----------------------------------------------------------------------------
(* acquire_in, a pass of its loop.                                         *)

Table(p) == Top(p).table
SlotsOf(p) == {s \in slots[Table(p)] : s.component = Top(p).component}

\* Who has waited for this component and has not looked since.
Awaiting(t, c) ==
    {w \in Callers : /\ inj[w] # <<>> /\ Table(w) = t
                    /\ Top(w).component = c /\ Top(w).at = "look" /\ Top(w).waited >= 0}

AcquireReady(p) ==
    /\ At(p, "look")
    /\ \E s \in SlotsOf(p) : s.ready
    /\ Answer(p)
    /\ lost' = lost \ {p}
    /\ UNCHANGED <<ops, lifeVars, tableVars, waiting, global, built>>

WaitedSinceZero(p) ==   \* mutant: as if waitedEpoch started at 0
    epoch[Table(p)] # Max({Top(p).waited, 0})

\* No slot: a caller that has waited for one is told that its build failed.
WaitedInVain(p) == Top(p).waited >= 0 /\ epoch[Table(p)] # Top(p).waited

AcquireFailed(p) ==
    /\ At(p, "look")
    /\ SlotsOf(p) = {} /\ WaitedInVain(p)
    /\ Answer(p)
    /\ lost' = lost \ {p}
    /\ UNCHANGED <<ops, lifeVars, tableVars, waiting, global, built>>

\* Any other claims the component and builds it.  Who was still to hear that an
\* earlier build had failed does not hear it any more.
AcquireClaim(p) ==
    /\ At(p, "look")
    /\ SlotsOf(p) = {} /\ ~WaitedInVain(p)
    /\ slots' = [slots EXCEPT ![Table(p)] =
                    @ \cup {[component |-> Top(p).component, ready |-> FALSE, builder |-> Self(p)]}]
    /\ Advance(p, [Top(p) EXCEPT !.at = "build"])
    /\ lost' = lost \ Awaiting(Table(p), Top(p).component)
    /\ UNCHANGED <<ops, lifeVars, ptr, epoch, waiting, global, built>>

AcquireReentered(p) ==
    /\ At(p, "look")
    /\ \E s \in SlotsOf(p) : ~s.ready /\ s.builder = Self(p)
    /\ Answer(p)
    /\ lost' = lost \ {p}
    /\ UNCHANGED <<ops, lifeVars, tableVars, waiting, global, built>>

AcquireWait(p) ==
    /\ At(p, "look")
    /\ \E s \in SlotsOf(p) : ~s.ready /\ s.builder # Self(p)
    /\ Advance(p, [Top(p) EXCEPT !.waited = epoch[Table(p)]])
    /\ waiting' = waiting \cup {p}
    /\ UNCHANGED <<ops, lifeVars, tableVars, global, historyVars>>

\* pthread_cond_wait may return for no reason.
SpuriousWake ==
    /\ Main \in waiting
    /\ waiting' = waiting \ {Main}
    /\ UNCHANGED <<inj, ops, lifeVars, tableVars, global, historyVars>>

-----------------------------------------------------------------------------
(* The end of a build.                                                     *)

\* wake_unlock: whoever waits in the table, for whichever component.
WaitingIn(t) == {w \in waiting : Table(w) = t}

\* The compiler's helper stores a singleton in its global first.
StoreGlobal(p) ==
    /\ At(p, "build") /\ Top(p).component \in Singletons
    /\ global' = global \cup {Top(p).component}
    /\ Advance(p, [Top(p) EXCEPT !.at = "stored"])
    /\ UNCHANGED <<ops, lifeVars, tableVars, waiting, historyVars>>

Constructed(p) ==
    inj[p] # <<>> /\ Top(p).at = IF Top(p).component \in Singletons THEN "stored" ELSE "build"

PublishToFibers(p) ==   \* mutant: forgets the condition variable
    /\ Constructed(p)
    /\ LET c == Top(p).component
           Ready(s) == IF s.component = c THEN [s EXCEPT !.ready = TRUE, !.builder = None] ELSE s
       IN  /\ slots' = [slots EXCEPT ![Table(p)] = {Ready(s) : s \in @}]
           /\ built' = [built EXCEPT ![c] = @ + 1]
           /\ waiting' = waiting \ (WaitingIn(Table(p)) \ {Main})
    /\ Answer(p)
    /\ UNCHANGED <<ops, lifeVars, ptr, epoch, global, lost>>

Publish(p) ==
    /\ Constructed(p)
    /\ LET c == Top(p).component
           Ready(s) == IF s.component = c THEN [s EXCEPT !.ready = TRUE, !.builder = None] ELSE s
       IN  /\ slots' = [slots EXCEPT ![Table(p)] = {Ready(s) : s \in @}]
           /\ built' = [built EXCEPT ![c] = @ + 1]
           /\ waiting' = waiting \ WaitingIn(Table(p))
    /\ Answer(p)
    /\ UNCHANGED <<ops, lifeVars, ptr, epoch, global, lost>>

AbandonQuietly(p) ==   \* mutant: wakes nobody
    /\ At(p, "build")
    /\ slots' = [slots EXCEPT ![Table(p)] = {s \in @ : s.component # Top(p).component}]
    /\ epoch' = [epoch EXCEPT ![Table(p)] = @ + 1]
    /\ lost' = lost \cup Awaiting(Table(p), Top(p).component)
    /\ Answer(p)
    /\ UNCHANGED <<ops, lifeVars, ptr, waiting, global, built>>

\* The constructor throws, and the claim's entry on the drop chain gives it up.
Abandon(p) ==
    /\ At(p, "build")
    /\ slots' = [slots EXCEPT ![Table(p)] = {s \in @ : s.component # Top(p).component}]
    /\ epoch' = [epoch EXCEPT ![Table(p)] = @ + 1]
    /\ waiting' = waiting \ WaitingIn(Table(p))
    /\ lost' = lost \cup Awaiting(Table(p), Top(p).component)
    /\ Answer(p)
    /\ UNCHANGED <<ops, lifeVars, ptr, global, built>>

-----------------------------------------------------------------------------
(* The life of the method table.                                           *)

\* One holder less; the last ends the table.
Release ==
    /\ refs' = refs - 1
    /\ ended' = (refs' = 0)

SpawnUncounted(f, structured) ==   \* mutant: the copy is not counted
    /\ stage[f] = "unborn" /\ Active(Main)
    /\ stage' = [stage EXCEPT ![f] = "run"]
    /\ IF structured /\ Main \in frames
       THEN /\ ptr' = [ptr EXCEPT !["method"] = IF @ = None THEN <<"method", Main>> ELSE @]
            /\ refs' = IF ptr["method"] = None THEN 1 ELSE refs
            /\ frames' = frames \cup {f}
       ELSE UNCHANGED <<ptr, refs, frames>>
    /\ UNCHANGED <<inj, ops, ended, threw, slots, epoch, waiting, global, historyVars>>

\* A structured child starts with a copy of its spawner's frame, and a count of the
\* table, which is made now if it is not there; a detached one starts with none.
Spawn(f, structured) ==
    /\ stage[f] = "unborn" /\ Active(Main)
    /\ stage' = [stage EXCEPT ![f] = "run"]
    /\ IF structured /\ Main \in frames
       THEN /\ ptr' = [ptr EXCEPT !["method"] = IF @ = None THEN <<"method", Main>> ELSE @]
            /\ refs' = (IF ptr["method"] = None THEN 1 ELSE refs) + 1
            /\ frames' = frames \cup {f}
       ELSE UNCHANGED <<ptr, refs, frames>>
    /\ UNCHANGED <<inj, ops, ended, threw, slots, epoch, waiting, global, historyVars>>

\* task_complete: a child lets go of its copy before it is done.
TaskComplete(f) ==
    /\ stage[f] = "run" /\ inj[f] = <<>>
    /\ stage' = [stage EXCEPT ![f] = "done"]
    /\ frames' = frames \ {f}
    /\ IF f \in frames THEN Release ELSE UNCHANGED <<refs, ended>>
    /\ UNCHANGED <<inj, ops, threw, tableVars, waiting, global, historyVars>>

\* The method's frame ends.
AnchorEnd ==
    /\ Main \in frames /\ inj[Main] = <<>>
    /\ frames' = frames \ {Main}
    /\ IF ptr["method"] # None THEN Release ELSE UNCHANGED <<refs, ended>>
    /\ UNCHANGED <<inj, ops, stage, tableVars, waiting, global, historyVars>>

\* A return has left the method's scopes first, and so joined the children.
AnchorReturn == frames = {Main} /\ AnchorEnd /\ UNCHANGED threw

\* A throw ends it from the drop chain, before the catching function joins them.
AnchorThrow == AnchorEnd /\ threw' = TRUE

-----------------------------------------------------------------------------
Acquire(p) ==
    \/ MakeTable(p)
    \/ AcquireReady(p) \/ AcquireFailed(p) \/ AcquireClaim(p) \/ AcquireReentered(p) \/ AcquireWait(p)

EndBuild(p) == StoreGlobal(p) \/ Publish(p) \/ Abandon(p)

Next ==
    \/ \E p \in Callers : Acquire(p) \/ EndBuild(p) \/ (\E c \in Components : Inject(p, c))
    \/ SpuriousWake
    \/ \E f \in Fibers : TaskComplete(f) \/ (\E structured \in BOOLEAN : Spawn(f, structured))
    \/ AnchorReturn \/ AnchorThrow

Spec == Init /\ [][Next]_vars

\* Callers that are not waiting are run, and constructors return or throw.
FairSpec == Spec /\ \A p \in Callers : WF_vars(Acquire(p) \/ EndBuild(p))

-----------------------------------------------------------------------------
(* Correctness.                                                            *)

\* The injections that are building a component.
Builders(c) ==
    {p \in Callers : \E i \in DOMAIN inj[p] : inj[p][i].component = c /\ inj[p][i].at \in {"build", "stored"}}

\* A component is built once: not by two at a time, and not again once it is there.
BuiltOnce == \A c \in Components : built[c] + Cardinality(Builders(c)) <= 1

\* Nobody waits for a component that nobody builds.
NoStranded ==
    \A w \in waiting :
        /\ \E s \in SlotsOf(w) : ~s.ready
        /\ Builders(Top(w).component) \ {w} # {}

\* The method's table is there for as long as anybody may come to use it, and no
\* longer.  A method that returns takes its components with it; one that throws
\* leaves them to the children that it has not joined, and the last of those ends them.
TableAlive ==
    /\ ptr["method"] # None => refs = Cardinality(frames) /\ (ended <=> frames = {})
    /\ frames # {} => Main \in frames \/ threw
    /\ \A p \in Callers : \A i \in DOMAIN inj[p] :
        inj[p][i].component \notin Singletons => p \in frames /\ ~ended

\* A caller is told the truth: the instance is there; a build that it waited for has
\* failed; it is building the component itself.  Who has waited for a build that
\* failed is told just that, unless a newcomer claims the component before he looks
\* again: then the newcomer's build is his answer, or he waits for it.
AnswersTrue ==
    [][\A p \in Callers :
        /\ AcquireReady(p) => built[Top(p).component] = 1
        /\ AcquireReentered(p) => p \in Builders(Top(p).component)
        /\ Acquire(p) => (AcquireFailed(p) <=> p \in lost)]_vars

\* Constructors that wait for one another in a circle.
Circle ==
    \E S \in SUBSET waiting \ {{}} :
        \A p \in S : \E q \in S : q \in Builders(Top(p).component)

\* Every injection ends, unless constructors wait for one another; as each caller
\* makes finitely many, none is left in the end.
InjectionsEnd == (\E p \in Callers : inj[p] # <<>>) ~> (\A p \in Callers : inj[p] = <<>>) \/ Circle
=============================================================================
