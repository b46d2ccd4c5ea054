------------------------------- MODULE Mutex -------------------------------
(***************************************************************************)
(* cajeta.concurrent.Mutex<T> and the LockGuard whose drop releases its    *)
(* lock, on top of AsyncLock.  The protected value is a counter modulo     *)
(* Modulus: withLock increments it, withLockWhen waits until it is not     *)
(* zero and decrements it.  Reading the value and storing what fn made of  *)
(* it are two steps, and fn may throw between them.                        *)
(***************************************************************************)
EXTENDS AsyncLock

CONSTANT Modulus       \* bound: the values the counter takes

ASSUME MutexAssumption == Modulus \in Nat \ {0}

VARIABLES value,       \* Mutex.value
          mpc,         \* where each caller is in its method
          seen,        \* the value it passes to fn
          applied,     \* what value should be after all the stores so far
          stray        \* a guard has released a lock its caller had not got

dataVars == <<value, seen, applied>>
mutexVars == <<mpc, dataVars, stray>>
mutexAll == <<lockVars, mutexVars>>

MutexOps == {"withLock", "withLockWhen", "get"}

\* "test" to "drop" lie within the guard's life: the first two are withLockWhen's
\* loop, "inc" and "dec" are about to call fn, the others about to store, to
\* notify, to drop the guard.
MutexPcs ==
    MutexOps \cup {"idle", "test", "sleep", "inc", "dec", "storeInc", "storeDec",
                 "notify", "drop", "unlock"}

MutexTypeOK ==
    /\ LockTypeOK
    /\ value \in 0..(Modulus - 1) /\ applied \in 0..(Modulus - 1)
    /\ mpc \in [Callers -> MutexPcs]
    /\ seen \in [Callers -> 0..(Modulus - 1)]
    /\ stray \in BOOLEAN

MutexInit ==
    /\ LockInit
    /\ value = 0 /\ applied = 0
    /\ mpc = [p \in Callers |-> "idle"]
    /\ seen = [p \in Callers |-> 0]
    /\ stray = FALSE

MutexGoto(p, l) == mpc' = [mpc EXCEPT ![p] = l]
MutexInside(p, l) == lpc[p] = "in" /\ mpc[p] = l

-----------------------------------------------------------------------------
MutexCall(p, o) ==
    /\ mpc[p] = "idle"
    /\ CallAcquire(p)
    /\ MutexGoto(p, o)
    /\ UNCHANGED <<dataVars, stray>>

MutexUnderneath(p) ==
    /\ Acquire(p) \/ CvRelease(p)
    /\ UNCHANGED mutexVars

\* The lock is acquired; heap LockGuard(handle).
Guard(p) ==
    /\ \/ MutexInside(p, "withLock") /\ MutexGoto(p, "inc")
       \/ MutexInside(p, "withLockWhen") /\ MutexGoto(p, "test")
    /\ UNCHANGED <<lockVars, dataVars, stray>>

\* while (!cond(value)) condvarWait(cond, handle)
TestFail(p) ==
    /\ MutexInside(p, "test")
    /\ value = 0
    /\ MutexGoto(p, "sleep")
    /\ UNCHANGED <<lockVars, dataVars, stray>>

Sleep(p) ==
    /\ mpc[p] = "sleep"
    /\ CvEnqueue(p) \/ CvBlock(p)
    /\ MutexGoto(p, "test")
    /\ UNCHANGED <<dataVars, stray>>

TestPassOnce(p) ==     \* mutant: the predicate is not tested again after a wake
    /\ MutexInside(p, "test")
    /\ MutexGoto(p, "dec")
    /\ UNCHANGED <<lockVars, dataVars, stray>>

TestPass(p) ==
    /\ MutexInside(p, "test")
    /\ value # 0
    /\ MutexGoto(p, "dec")
    /\ UNCHANGED <<lockVars, dataVars, stray>>

ReadValue(p) ==
    /\ \/ mpc[p] = "inc" /\ MutexGoto(p, "storeInc")
       \/ mpc[p] = "dec" /\ MutexGoto(p, "storeDec")
    /\ seen' = [seen EXCEPT ![p] = value]
    /\ UNCHANGED <<lockVars, value, applied, stray>>

\* value = fn(value)
StoreValue(p) ==
    /\ \/ /\ mpc[p] = "storeInc"
          /\ value' = (seen[p] + 1) % Modulus
          /\ applied' = (applied + 1) % Modulus
       \/ /\ mpc[p] = "storeDec"
          /\ value' = (seen[p] - 1) % Modulus
          /\ applied' = (applied - 1) % Modulus
    /\ MutexGoto(p, "notify")
    /\ seen' = [seen EXCEPT ![p] = 0]
    /\ UNCHANGED <<lockVars, stray>>

FnThrowsUnguarded(p) == \* mutant: no guard, so a throw leaves the lock held
    /\ mpc[p] \in {"storeInc", "storeDec"}
    /\ MutexGoto(p, "idle")
    /\ At(p, "out")
    /\ seen' = [seen EXCEPT ![p] = 0]
    /\ UNCHANGED <<held, waitq, relq, cvq, cvblocked, cancel, value, applied,
                   stray>>

\* fn throws: nothing is stored and nobody is notified.
FnThrows(p) ==
    /\ mpc[p] \in {"storeInc", "storeDec"}
    /\ MutexGoto(p, "drop")
    /\ seen' = [seen EXCEPT ![p] = 0]
    /\ UNCHANGED <<lockVars, value, applied, stray>>

NotifySkipped(p) ==    \* mutant: the value is stored and nobody is woken
    /\ mpc[p] = "notify"
    /\ MutexGoto(p, "drop")
    /\ UNCHANGED <<lockVars, dataVars, stray>>

MutexNotify(p) ==
    /\ mpc[p] = "notify"
    /\ Notify
    /\ MutexGoto(p, "drop")
    /\ UNCHANGED <<dataVars, stray>>

\* ~LockGuard releases, at the end of the method and when an exception passes.
Drop(p) ==
    /\ mpc[p] = "drop"
    /\ Release(p)
    /\ MutexGoto(p, "idle")
    /\ UNCHANGED <<dataVars, stray>>

\* A cancellation thrown by condvarWait passes the guard: lock_release runs,
\* though the thrower has not got the lock back.
DropCancelled(p) ==
    /\ lpc[p] = "thrown" /\ mpc[p] = "test"
    /\ Unlock
    /\ At(p, "out")
    /\ MutexGoto(p, "idle")
    /\ stray' = TRUE
    /\ UNCHANGED <<cvq, cvblocked, cancel, dataVars>>

\* A cancellation thrown by lockAcquire meets no guard.
MutexCancelled(p) ==
    /\ mpc[p] \in MutexOps
    /\ Unwind(p)
    /\ MutexGoto(p, "idle")
    /\ UNCHANGED <<dataVars, stray>>

\* get: a snapshot under the lock, released without a guard.
Get(p) ==
    /\ MutexInside(p, "get")
    /\ MutexGoto(p, "unlock")
    /\ UNCHANGED <<lockVars, dataVars, stray>>

GetReturn(p) ==
    /\ mpc[p] = "unlock"
    /\ Release(p)
    /\ MutexGoto(p, "idle")
    /\ UNCHANGED <<dataVars, stray>>

MutexMethod(p) ==
    \/ MutexUnderneath(p) \/ Guard(p) \/ TestFail(p) \/ Sleep(p) \/ TestPass(p)
    \/ ReadValue(p) \/ StoreValue(p) \/ FnThrows(p) \/ MutexNotify(p) \/ Drop(p)
    \/ DropCancelled(p) \/ MutexCancelled(p) \/ Get(p) \/ GetReturn(p)

MutexEnvironment(p) == (Cancel(p) \/ SpuriousWake(p)) /\ UNCHANGED mutexVars

MutexNext ==
    \E p \in Callers :
        MutexMethod(p) \/ MutexEnvironment(p) \/ \E o \in MutexOps : MutexCall(p, o)

MutexSpec == MutexInit /\ [][MutexNext]_mutexAll

\* A caller that can run is run: the carriers come back to every queued fiber.
MutexFairSpec == MutexSpec /\ \A p \in Callers : WF_mutexAll(MutexMethod(p))

-----------------------------------------------------------------------------
(* Correctness.                                                            *)

\* Between the guard's construction and its drop a caller that is not waiting
\* in condvarWait is alone with the value.
Using == {p \in Callers :
             /\ mpc[p] \in MutexPcs \ (MutexOps \cup {"idle"})
             /\ lpc[p] \in {"in", "cv_enqueued"}}

\* Two callers never use the protected value at once: "the only way to touch
\* that data is to hold the lock".
ExclusiveUse == \A p, q \in Using : p = q

\* A guard dropped by a cancellation inside condvarWait is the only way to break
\* exclusive use, and with it the chain of updates: until that happens no update
\* of a withLock or withLockWhen is lost, and none is applied to a value on
\* which its predicate does not hold.
ExclusiveUntilStray ==
    \/ stray
    \/ /\ ExclusiveUse
       /\ value = applied
       /\ \A p \in Callers : mpc[p] = "storeDec" => seen[p] # 0

\* Until then, no withLockWhen sleeps while its predicate holds, unless the
\* caller that made it hold has yet to notify.
MutexNoMissedWakeup ==
    ~stray /\ value # 0 /\ ToSet(cvq) \cup cvblocked # {}
        => \E q \in Callers : mpc[q] = "notify"

\* Whoever takes the lock lets go of it, also when fn throws.
LockIsReleased == held ~> ~held
=============================================================================
