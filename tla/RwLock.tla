------------------------------- MODULE RwLock -------------------------------
(***************************************************************************)
(* The read-write lock of cajeta_rt_concurrent_sync.c (struct              *)
(* cajeta_async_rwlock) and the two methods of cajeta.concurrent.RwLock<T> *)
(* on top of it: read, and withWrite with its WriteGuard.                  *)
(*                                                                         *)
(* A step is one critical section of the lock's pthread mutex or one       *)
(* access to the protected value, whose copy is not atomic: it has two     *)
(* words, which a store writes and a snapshot reads one after the other.   *)
(* An unlock wakes everybody, so the wait queues are kept as sets.         *)
(* Cancellation is not here because the read-write lock never looks at it. *)
(***************************************************************************)
EXTENDS Integers, FiniteSets

CONSTANTS Fibers,      \* callers that park
          OsThreads,   \* callers that block
          Modulus      \* bound: the values withWrite's counter takes

ASSUME RwAssumption ==
    /\ Fibers \cap OsThreads = {}
    /\ IsFiniteSet(Fibers) /\ IsFiniteSet(OsThreads)
    /\ Modulus \in Nat \ {0}

Callers == Fibers \cup OsThreads
Words   == {1, 2}
Value   == [Words -> 0..(Modulus - 1)]

VARIABLES readers, writer, writersWaiting,  \* the fields of the lock
          rwait, wwait,    \* the fibers parked in rdlock, in wrlock
          blocked,         \* the threads blocked on main_cond
          rpc,             \* where each caller is
          value,           \* RwLock.value
          seen,            \* the copy of it that each caller has
          stores           \* the stores completed so far, modulo Modulus

rwVars   == <<readers, writer, writersWaiting, rwait, wwait, blocked>>
dataVars == <<value, seen, stores>>
vars     == <<rwVars, rpc, dataVars>>

\* "rdlock" and "wrlock" wait for the lock, the latter counted in
\* writersWaiting; "word1" and "word2" are about to read a word, "store1" and
\* "store2" to write one; "rdunlock" and "drop" are about to unlock.
Reading == {p \in Callers : rpc[p] \in {"word1", "word2", "rdunlock"}}
Writing == {p \in Callers : rpc[p] \in {"fn", "store1", "store2", "drop"}}
Pcs == {"idle", "rdcall", "rdlock", "word1", "word2", "rdunlock",
        "wrcall", "wrlock", "fn", "store1", "store2", "drop"}

TypeOK ==
    /\ readers \in Nat
    /\ writer \in BOOLEAN
    /\ writersWaiting \in Nat
    /\ rwait \subseteq Fibers /\ wwait \subseteq Fibers
    /\ blocked \subseteq OsThreads
    /\ rpc \in [Callers -> Pcs]
    /\ value \in Value
    /\ seen \in [Callers -> Value]
    /\ stores \in 0..(Modulus - 1)

Init ==
    /\ readers = 0 /\ writer = FALSE /\ writersWaiting = 0
    /\ rwait = {} /\ wwait = {} /\ blocked = {}
    /\ rpc = [p \in Callers |-> "idle"]
    /\ value = [w \in Words |-> 0]
    /\ seen = [p \in Callers |-> [w \in Words |-> 0]]
    /\ stores = 0

Step(p, l) == rpc' = [rpc EXCEPT ![p] = l]

Suspended == rwait \cup wwait \cup blocked

\* p is in the lock's code and can take its next step there.
Awake(p, l) == rpc[p] = l /\ p \notin Suspended

-----------------------------------------------------------------------------
(* rdlock: wait while a writer holds the lock or waits for it.             *)

CallRead(p) ==
    /\ rpc[p] = "idle"
    /\ Step(p, "rdcall")
    /\ UNCHANGED <<rwVars, dataVars>>

RdAdmittedAnyway == ~writer   \* mutant: no writer preference

RdAdmitted == ~writer /\ writersWaiting = 0

RdLock(p) ==
    /\ Awake(p, "rdcall") \/ Awake(p, "rdlock")
    /\ RdAdmitted
    /\ readers' = readers + 1
    /\ Step(p, "word1")
    /\ UNCHANGED <<writer, writersWaiting, rwait, wwait, blocked, dataVars>>

RdWait(p) ==
    /\ Awake(p, "rdcall") \/ Awake(p, "rdlock")
    /\ ~RdAdmitted
    /\ IF p \in Fibers THEN rwait' = rwait \cup {p} /\ UNCHANGED blocked
                       ELSE blocked' = blocked \cup {p} /\ UNCHANGED rwait
    /\ Step(p, "rdlock")
    /\ UNCHANGED <<readers, writer, writersWaiting, wwait, dataVars>>

-----------------------------------------------------------------------------
(* wrlock: count as a waiting writer until the lock is free.               *)

CallWrite(p) ==
    /\ rpc[p] = "idle"
    /\ Step(p, "wrcall")
    /\ UNCHANGED <<rwVars, dataVars>>

WrAdmitted == ~writer /\ readers = 0

CountedAgain(p) == writersWaiting + 1  \* mutant: counted at every round

\* The writers counted as waiting once p is in wrlock's loop.
Counted(p) == IF rpc[p] = "wrcall" THEN writersWaiting + 1 ELSE writersWaiting

WrLock(p) ==
    /\ Awake(p, "wrcall") \/ Awake(p, "wrlock")
    /\ WrAdmitted
    /\ writer' = TRUE
    /\ writersWaiting' = Counted(p) - 1
    /\ Step(p, "fn")
    /\ UNCHANGED <<readers, rwait, wwait, blocked, dataVars>>

WrWait(p) ==
    /\ Awake(p, "wrcall") \/ Awake(p, "wrlock")
    /\ ~WrAdmitted
    /\ writersWaiting' = Counted(p)
    /\ IF p \in Fibers THEN wwait' = wwait \cup {p} /\ UNCHANGED blocked
                       ELSE blocked' = blocked \cup {p} /\ UNCHANGED wwait
    /\ Step(p, "wrlock")
    /\ UNCHANGED <<readers, writer, rwait, dataVars>>

-----------------------------------------------------------------------------
(* The unlocks.                                                            *)

WakeAll == rwait' = {} /\ wwait' = {} /\ blocked' = {}

RdUnlockEarly(p) ==    \* mutant: the last reader but one wakes the waiters
    /\ rpc[p] = "rdunlock"
    /\ readers' = readers - 1
    /\ IF readers' = 1 THEN WakeAll ELSE UNCHANGED <<rwait, wwait, blocked>>
    /\ Step(p, "idle")
    /\ UNCHANGED <<writer, writersWaiting, dataVars>>

\* Only the last reader out can let a writer in.
RdUnlock(p) ==
    /\ rpc[p] = "rdunlock"
    /\ readers' = IF readers > 0 THEN readers - 1 ELSE readers
    /\ IF readers' = 0 THEN WakeAll ELSE UNCHANGED <<rwait, wwait, blocked>>
    /\ Step(p, "idle")
    /\ UNCHANGED <<writer, writersWaiting, dataVars>>

\* ~WriteGuard, at the end of withWrite and when an exception passes.
WrUnlock(p) ==
    /\ rpc[p] = "drop"
    /\ writer' = FALSE
    /\ WakeAll
    /\ Step(p, "idle")
    /\ UNCHANGED <<readers, writersWaiting, dataVars>>

\* POSIX lets a condition wait end for no reason.
SpuriousWake(p) ==
    /\ p \in blocked
    /\ blocked' = blocked \ {p}
    /\ UNCHANGED <<readers, writer, writersWaiting, rwait, wwait, rpc, dataVars>>

-----------------------------------------------------------------------------
(* The methods of RwLock<T>.                                               *)

\* T snapshot = this.value
Snapshot(p) ==
    /\ \E w \in Words :
          /\ rpc[p] = IF w = 1 THEN "word1" ELSE "word2"
          /\ seen' = [seen EXCEPT ![p][w] = value[w]]
          /\ Step(p, IF w = 1 THEN "word2" ELSE "rdunlock")
    /\ UNCHANGED <<rwVars, value, stores>>

\* fn(this.value): this fn adds one ...
Fn(p) ==
    /\ rpc[p] = "fn"
    /\ seen' = [seen EXCEPT ![p] = [w \in Words |-> (value[w] + 1) % Modulus]]
    /\ Step(p, "store1")
    /\ UNCHANGED <<rwVars, value, stores>>

FnThrowsLate(p) ==     \* mutant: fn works on the value itself and then throws
    /\ rpc[p] \in {"fn", "store2"}
    /\ Step(p, "drop")
    /\ UNCHANGED <<rwVars, dataVars>>

\* ... or throws.
FnThrows(p) ==
    /\ rpc[p] = "fn"
    /\ Step(p, "drop")
    /\ UNCHANGED <<rwVars, dataVars>>

\* this.value = what fn returned
Store(p) ==
    /\ \/ /\ rpc[p] = "store1"
          /\ value' = [value EXCEPT ![1] = seen[p][1]]
          /\ Step(p, "store2")
          /\ UNCHANGED stores
       \/ /\ rpc[p] = "store2"
          /\ value' = [value EXCEPT ![2] = seen[p][2]]
          /\ stores' = (stores + 1) % Modulus
          /\ Step(p, "drop")
    /\ UNCHANGED <<rwVars, seen>>

Method(p) ==
    \/ RdLock(p) \/ RdWait(p) \/ Snapshot(p) \/ RdUnlock(p)
    \/ WrLock(p) \/ WrWait(p) \/ Fn(p) \/ FnThrows(p) \/ Store(p) \/ WrUnlock(p)

Next == \E p \in Callers : CallRead(p) \/ CallWrite(p) \/ Method(p) \/ SpuriousWake(p)

Spec == Init /\ [][Next]_vars

\* A caller that can run is run: the carriers come back to every queued fiber.
FairSpec == Spec /\ \A p \in Callers : WF_vars(Method(p))

-----------------------------------------------------------------------------
(* Correctness.                                                            *)

WaitingWriters == {p \in Callers : rpc[p] = "wrlock"}

\* Readers share, a writer is alone, and the lock's fields say who is there: a
\* writer is counted as waiting from its call to its admission, once, however
\* often it is woken in vain.
RwExclusion ==
    /\ readers = Cardinality(Reading)
    /\ writersWaiting = Cardinality(WaitingWriters)
    /\ writer <=> Writing # {}
    /\ \A p, q \in Writing : p = q
    /\ writer => readers = 0

\* A snapshot is never half of one store and half of another, and each store is
\* made to what the one before it left.
WholeValue ==
    /\ \A p \in Callers : rpc[p] = "rdunlock" => seen[p][1] = seen[p][2]
    /\ (\A p \in Callers : rpc[p] # "store2")
          => value[1] = stores /\ value[2] = stores

\* Nobody sleeps without somebody who will wake him: a suspended writer waits
\* for a holder, a suspended reader for a holder or for a writer that can run.
RwNoStranded ==
    \A p \in Suspended :
        \/ writer
        \/ readers > 0
        \/ rpc[p] = "rdlock" /\ \E q \in Callers : Awake(q, "wrlock")

\* "Writer-preference in the runtime keeps a steady stream of readers from
\* starving a writer": while writers wait, one of them gets the lock.
WritersGetIn == writersWaiting > 0 ~> writer
=============================================================================
