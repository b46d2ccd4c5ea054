----------------------------- MODULE Semaphore -----------------------------
(***************************************************************************)
(* cajeta.concurrent.Semaphore on top of AsyncLock: acquire, release,      *)
(* availablePermits, and withPermit, which is acquire, fn and, in a        *)
(* finally, release.  A caller that acquires by hand is expected to do the *)
(* same, so every caller here takes a permit, uses it and calls release.   *)
(***************************************************************************)
EXTENDS AsyncLock

CONSTANT Permits       \* the constructor's initial count

ASSUME SemaphoreAssumption ==
    /\ Permits \in Nat \ {0}
    /\ IsFiniteSet(Callers)

VARIABLES count,       \* Semaphore.count
          spc,         \* where each caller is
          readCount,        \* the count it read and is about to write back changed
          lost         \* the permits whose release was cut short

semVars == <<count, spc, readCount, lost>>
semAll == <<lockVars, semVars>>

\* "acquire", "release" and "available" are inside those methods; "take" and
\* "give" are about to write the count; "got" has taken its permit and still
\* has the lock; "permit" runs fn; "unlock" is about to return without one.
SemPcs == {"idle", "acquire", "take", "got", "permit", "release", "give",
           "notify", "unlock", "available"}

SemTypeOK ==
    /\ LockTypeOK
    /\ count \in 0..Permits
    /\ spc \in [Callers -> SemPcs]
    /\ readCount \in [Callers -> 0..Permits]
    /\ lost \in 0..Permits

SemInit ==
    /\ LockInit
    /\ count = Permits
    /\ spc = [p \in Callers |-> "idle"]
    /\ readCount = [p \in Callers |-> 0]
    /\ lost = 0

SemGoto(p, l) == spc' = [spc EXCEPT ![p] = l]
SemInside(p, l) == lpc[p] = "in" /\ spc[p] = l

-----------------------------------------------------------------------------
\* Each of the three methods starts with lockAcquire.  Release is called at the
\* end of fn, whether it returns or throws.
SemCall(p, from, to) ==
    /\ spc[p] = from
    /\ CallAcquire(p)
    /\ SemGoto(p, to)
    /\ UNCHANGED <<count, readCount, lost>>

SemUnderneath(p) ==
    /\ Acquire(p) \/ CvRelease(p)
    /\ UNCHANGED semVars

\* A cancellation thrown by lockAcquire or condvarWait ends the method, and
\* with it the caller's withPermit: out of release, before the count is raised.
SemCancelled(p) ==
    /\ Unwind(p)
    /\ SemGoto(p, "idle")
    /\ lost' = IF spc[p] = "release" THEN lost + 1 ELSE lost
    /\ UNCHANGED <<count, readCount>>

AcquireWait(p) ==
    /\ spc[p] = "acquire"
    /\ count <= 0
    /\ CvEnqueue(p) \/ CvBlock(p)
    /\ UNCHANGED semVars

\* count = count - 1 ...
TakePermit(p) ==
    /\ SemInside(p, "acquire")
    /\ count > 0
    /\ readCount' = [readCount EXCEPT ![p] = count]
    /\ SemGoto(p, "take")
    /\ UNCHANGED <<lockVars, count, lost>>

TakeWriteStale(p) ==   \* mutant: the count is written back as it was read
    /\ spc[p] = "take"
    /\ count' = readCount[p]
    /\ readCount' = [readCount EXCEPT ![p] = 0]
    /\ SemGoto(p, "got")
    /\ UNCHANGED <<lockVars, lost>>

\* ... read, then written.
TakeWrite(p) ==
    /\ spc[p] = "take"
    /\ count' = readCount[p] - 1
    /\ readCount' = [readCount EXCEPT ![p] = 0]
    /\ SemGoto(p, "got")
    /\ UNCHANGED <<lockVars, lost>>

AcquireReturn(p) ==
    /\ spc[p] = "got"
    /\ Release(p)
    /\ SemGoto(p, "permit")
    /\ UNCHANGED <<count, readCount, lost>>

\* count = count + 1
Give(p) ==
    /\ SemInside(p, "release")
    /\ readCount' = [readCount EXCEPT ![p] = count]
    /\ SemGoto(p, "give")
    /\ UNCHANGED <<lockVars, count, lost>>

GiveWriteQuietly(p) == \* mutant: a returned permit wakes nobody
    /\ spc[p] = "give"
    /\ count' = readCount[p] + 1
    /\ readCount' = [readCount EXCEPT ![p] = 0]
    /\ SemGoto(p, "unlock")
    /\ UNCHANGED <<lockVars, lost>>

GiveWrite(p) ==
    /\ spc[p] = "give"
    /\ count' = readCount[p] + 1
    /\ readCount' = [readCount EXCEPT ![p] = 0]
    /\ SemGoto(p, "notify")
    /\ UNCHANGED <<lockVars, lost>>

SemNotify(p) ==
    /\ spc[p] = "notify"
    /\ Notify
    /\ SemGoto(p, "unlock")
    /\ UNCHANGED <<count, readCount, lost>>

Available(p) ==
    /\ SemInside(p, "available")
    /\ SemGoto(p, "unlock")
    /\ UNCHANGED <<lockVars, count, readCount, lost>>

Return(p) ==
    /\ spc[p] = "unlock"
    /\ Release(p)
    /\ SemGoto(p, "idle")
    /\ UNCHANGED <<count, readCount, lost>>

SemMethod(p) ==
    \/ SemUnderneath(p) \/ SemCancelled(p) \/ AcquireWait(p)
    \/ TakePermit(p) \/ TakeWrite(p) \/ AcquireReturn(p)
    \/ SemCall(p, "permit", "release") \/ Give(p) \/ GiveWrite(p) \/ SemNotify(p)
    \/ Available(p) \/ Return(p)

SemEnvironment(p) == (Cancel(p) \/ SpuriousWake(p)) /\ UNCHANGED semVars

SemNext ==
    \E p \in Callers :
        \/ SemMethod(p)
        \/ SemEnvironment(p)
        \/ SemCall(p, "idle", "acquire") \/ SemCall(p, "idle", "available")

SemSpec == SemInit /\ [][SemNext]_semAll

-----------------------------------------------------------------------------
(* Correctness.                                                            *)

\* The callers that have a permit: taken from the count, not yet put back.
Holding == {p \in Callers : spc[p] \in {"got", "permit", "release", "give"}}

\* The semaphore goes by the lock's rules, so that everything proved of LockSpec
\* holds underneath it, cancellations included.
SemKeepsLockRules == LockSpec

\* Every permit is free, held, or lost to a release that a cancellation cut
\* short, and nothing makes one up: never are more in use than there are.
PermitsAccounted == count + Cardinality(Holding) + lost = Permits

\* No caller sleeps in acquire with a permit free, unless the one that returned
\* it has yet to notify.
SemNoMissedWakeup ==
    count > 0 /\ ToSet(cvq) \cup cvblocked # {}
        => \E q \in Callers : spc[q] = "notify"
=============================================================================
