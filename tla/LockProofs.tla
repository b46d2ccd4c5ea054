----------------------------- MODULE LockProofs -----------------------------
(***************************************************************************)
(* The async lock and the classes built on it, for any fibers, threads and *)
(* cancellations: AsyncLock, then Mutex<T>, Semaphore and Channel<T>.      *)
(***************************************************************************)
EXTENDS Mutex, Semaphore, Channel, FiniteSetTheorems, SequenceTheorems, TLAPS

-----------------------------------------------------------------------------
(***************************************************************************)
(* For any number of fibers, threads and cancellations, the async lock has *)
(* at most one holder, a fiber is on at most one wait queue, and no        *)
(* handoff of the lock is lost.                                            *)
(***************************************************************************)

\* MutualExclusion is inductive over the types; OneQueue and NoStranded lean on
\* one another: the fiber a release takes off the queue can run only if it was
\* not on the queue a second time.
LockInv ==
    /\ LockTypeOK
    /\ MutualExclusion
    /\ OneQueue
    /\ NoStranded

-----------------------------------------------------------------------------
(* Wait queues.                                                            *)

\* Appending a fiber that is not on a queue keeps the queue free of repeats.
LEMMA AppendQueue ==
    ASSUME NEW q \in Seq(Fibers), NEW p \in Fibers, p \notin ToSet(q), IsInjective(q)
    PROVE  /\ Append(q, p) \in Seq(Fibers)
           /\ ToSet(Append(q, p)) = ToSet(q) \cup {p}
           /\ IsInjective(Append(q, p))
  <1>1. /\ Len(q) \in Nat /\ DOMAIN q = 1..Len(q)
        /\ Append(q, p) \in Seq(Fibers)
        /\ DOMAIN Append(q, p) = 1..(Len(q) + 1)
        /\ \A i \in 1..Len(q) : Append(q, p)[i] = q[i]
        /\ Append(q, p)[Len(q) + 1] = p
    OBVIOUS
  <1>2. \A i \in DOMAIN q : q[i] # p
    BY DEF ToSet
  <1>3. IsInjective(Append(q, p))
    BY <1>1, <1>2 DEF IsInjective
  <1>4. ToSet(Append(q, p)) \subseteq ToSet(q) \cup {p}
    BY <1>1 DEF ToSet
  <1>5. ToSet(q) \cup {p} \subseteq ToSet(Append(q, p))
    BY <1>1 DEF ToSet
  <1> QED BY <1>1, <1>3, <1>4, <1>5

\* Taking the head off a queue removes that fiber, and no other, from it.
LEMMA TailQueue ==
    ASSUME NEW q \in Seq(Fibers), q # <<>>, IsInjective(q)
    PROVE  /\ Tail(q) \in Seq(Fibers)
           /\ IsInjective(Tail(q))
           /\ Head(q) \in ToSet(q)
           /\ ToSet(Tail(q)) = ToSet(q) \ {Head(q)}
  <1>1. Len(q) \in Nat \ {0} /\ DOMAIN q = 1..Len(q)
    OBVIOUS
  <1>2. /\ Tail(q) \in Seq(Fibers)
        /\ DOMAIN Tail(q) = 1..(Len(q) - 1)
        /\ \A i \in 1..(Len(q) - 1) : Tail(q)[i] = q[i + 1]
    BY <1>1
  <1>3. IsInjective(Tail(q))
    BY <1>1, <1>2 DEF IsInjective
  <1>4. Head(q) \in ToSet(q)
    BY <1>1 DEF ToSet
  <1>5. ToSet(Tail(q)) \subseteq ToSet(q) \ {Head(q)}
    BY <1>1, <1>2 DEF ToSet, IsInjective
  <1>6. ASSUME NEW x \in ToSet(q), x # Head(q) PROVE x \in ToSet(Tail(q))
    <2>1. PICK i \in 1..Len(q) : q[i] = x
      BY <1>1 DEF ToSet
    <2>2. i # 1
      BY <2>1, <1>6
    <2>3. i - 1 \in 1..(Len(q) - 1) /\ Tail(q)[i - 1] = x
      BY <2>1, <2>2, <1>1, <1>2
    <2> QED BY <2>3, <1>2 DEF ToSet
  <1> QED BY <1>2, <1>3, <1>4, <1>5, <1>6

\* A queue is a set of fibers, none of them an OS thread.
LEMMA QueueSets ==
    ASSUME LockTypeOK
    PROVE  /\ ToSet(waitq) \subseteq Fibers /\ ToSet(cvq) \subseteq Fibers
           /\ relq \cap Fibers = {} /\ cvblocked \cap Fibers = {}
  BY LockAssumption DEF LockTypeOK, ToSet

\* What lock_release does to the queues: the head fiber and one thread, if any
\* wait, are off them and nothing else changes.
LEMMA UnlockQueues ==
    ASSUME LockTypeOK, OneQueue, Unlock
    PROVE  /\ held' = FALSE
           /\ waitq' \in Seq(Fibers) /\ IsInjective(waitq')
           /\ relq' \subseteq OsThreads /\ relq' \subseteq relq
           /\ ToSet(waitq') \subseteq ToSet(waitq)
           /\ waitq # <<>> => \E q \in ToSet(waitq) : q \notin ToSet(waitq')
           /\ relq # {} => \E m \in relq : m \notin relq'
           /\ (waitq = <<>> => waitq' = <<>>) /\ (relq = {} => relq' = {})
  <1>1. CASE waitq = <<>>
    BY <1>1 DEF Unlock, LockTypeOK, OneQueue
  <1>2. CASE waitq # <<>>
    <2>1. waitq' = Tail(waitq)
      BY <1>2 DEF Unlock
    <2>2. IsInjective(waitq) /\ waitq \in Seq(Fibers)
      BY DEF OneQueue, LockTypeOK
    <2>3. /\ waitq' \in Seq(Fibers) /\ IsInjective(waitq')
          /\ Head(waitq) \in ToSet(waitq)
          /\ ToSet(waitq') = ToSet(waitq) \ {Head(waitq)}
      BY <1>2, <2>1, <2>2, TailQueue
    <2> QED BY <2>3 DEF Unlock, LockTypeOK
  <1> QED BY <1>1, <1>2

-----------------------------------------------------------------------------
(* lock_acquire.                                                           *)

\* A caller that can run inside the lock's code is on no queue and has not got
\* the lock.
LEMMA RunnableFree ==
    ASSUME LockInv, NEW p \in Callers, Runnable(p)
    PROVE  /\ p \notin ToSet(waitq) \cup ToSet(cvq) \cup relq \cup cvblocked
           /\ p \notin Holders
           /\ lpc[p] \in {"acquire", "parked", "cv_wait"}
  BY DEF LockInv, OneQueue, Runnable, Holders

\* Entering lock_acquire disturbs nothing.
LEMMA CallAcquireInv ==
    ASSUME LockInv, NEW p \in Callers, CallAcquire(p)
    PROVE  LockInv'
  <1> USE DEF LockInv
  <1>1. LockTypeOK'
    BY DEF LockTypeOK, CallAcquire, At, LockPcs
  <1>2. MutualExclusion'
    BY DEF LockTypeOK, MutualExclusion, Holders, CallAcquire, At
  <1>3. OneQueue'
    BY QueueSets DEF LockTypeOK, OneQueue, CallAcquire, At, Callers
  <1>4. NoStranded'
    BY DEF LockTypeOK, NoStranded, Runnable, CallAcquire, At, Callers
  <1> QED BY <1>1, <1>2, <1>3, <1>4

\* A cancelled fiber that finds the lock free passes the handoff on.
LEMMA AcquireCancelledInv ==
    ASSUME LockInv, NEW p \in Callers, AcquireCancelled(p)
    PROVE  LockInv'
  <1>1. /\ p \notin ToSet(waitq) \cup ToSet(cvq) \cup relq \cup cvblocked
        /\ p \notin Holders
        /\ p \in Fibers
    BY RunnableFree DEF AcquireCancelled, LockInv, LockTypeOK
  <1>2. /\ waitq' \in Seq(Fibers) /\ IsInjective(waitq')
        /\ ToSet(waitq') \subseteq ToSet(waitq)
        /\ ~held /\ waitq # <<>> => \E q \in ToSet(waitq) : q \notin ToSet(waitq')
        /\ waitq = <<>> => waitq' = <<>>
    <2>1. CASE held \/ waitq = <<>>
      BY <2>1 DEF AcquireCancelled, LockInv, LockTypeOK, OneQueue
    <2>2. CASE ~held /\ waitq # <<>>
      BY <2>2, TailQueue DEF AcquireCancelled, LockInv, LockTypeOK, OneQueue
    <2> QED BY <2>1, <2>2 DEF LockInv, LockTypeOK
  <1>3. LockTypeOK'
    BY <1>2 DEF LockInv, LockTypeOK, AcquireCancelled, At, LockPcs
  <1>4. MutualExclusion'
    BY <1>1 DEF LockInv, LockTypeOK, MutualExclusion, Holders, AcquireCancelled, At
  <1>5. OneQueue'
    BY <1>1, <1>2, QueueSets DEF LockInv, LockTypeOK, OneQueue, AcquireCancelled, At, Callers
  <1>6. NoStranded'
    <2>1. ASSUME ~held, waitq # <<>> PROVE \E q \in Fibers : Runnable(q)'
      <3>1. PICK q \in ToSet(waitq) : q \notin ToSet(waitq')
        BY <1>2, <2>1
      <3>2. q \in Fibers /\ q # p /\ lpc[q] = "parked" /\ q \notin relq
        BY <1>1, <3>1, QueueSets DEF LockInv, OneQueue
      <3> QED BY <3>1, <3>2 DEF Runnable, AcquireCancelled, At, LockInv, LockTypeOK, Callers
    <2>2. ASSUME ~held, relq # {} PROVE \E m \in OsThreads : Runnable(m)'
      <3>1. PICK m \in OsThreads : Runnable(m)
        BY <2>2 DEF LockInv, NoStranded
      <3>2. m # p
        BY <1>1, LockAssumption
      <3> QED BY <1>2, <3>1, <3>2 DEF Runnable, AcquireCancelled, At, LockInv, LockTypeOK, Callers
    <2> QED BY <1>2, <2>1, <2>2 DEF NoStranded, AcquireCancelled
  <1> QED BY <1>3, <1>4, <1>5, <1>6 DEF LockInv

\* The lock is taken only when free, so it has no other holder.
LEMMA AcquireFreeInv ==
    ASSUME LockInv, NEW p \in Callers, AcquireFree(p) \/ TryAcquire(p)
    PROVE  LockInv'
  <1>1. /\ p \notin ToSet(waitq) \cup ToSet(cvq) \cup relq \cup cvblocked
        /\ ~held /\ held' /\ lpc' = [lpc EXCEPT ![p] = "in"]
        /\ UNCHANGED <<waitq, relq, cvq, cvblocked, cancel>>
    BY RunnableFree DEF AcquireFree, TryAcquire, At, LockInv, OneQueue
  <1>2. LockTypeOK'
    BY <1>1 DEF LockInv, LockTypeOK, LockPcs, AcquireFree, TryAcquire
  <1>3. MutualExclusion'
    BY <1>1 DEF LockInv, LockTypeOK, MutualExclusion, Holders
  <1>4. OneQueue'
    BY <1>1, QueueSets DEF LockInv, LockTypeOK, OneQueue, Callers
  <1>5. NoStranded'
    BY <1>1 DEF NoStranded
  <1> QED BY <1>2, <1>3, <1>4, <1>5 DEF LockInv

\* A caller queues itself once, and only behind a holder that will release.
LEMMA AcquireParkInv ==
    ASSUME LockInv, NEW p \in Callers, AcquirePark(p)
    PROVE  LockInv'
  <1>1. /\ p \notin ToSet(waitq) \cup ToSet(cvq) \cup relq \cup cvblocked
        /\ p \notin Holders
    BY RunnableFree DEF AcquirePark
  <1>2. /\ waitq' \in Seq(Fibers) /\ IsInjective(waitq')
        /\ ToSet(waitq') \subseteq ToSet(waitq) \cup {p}
        /\ relq' \subseteq OsThreads /\ relq' \subseteq relq \cup {p}
    <2>1. CASE p \in Fibers
      <3>1. waitq' = Append(waitq, p) /\ relq' = relq
        BY <2>1 DEF AcquirePark
      <3>2. waitq \in Seq(Fibers) /\ IsInjective(waitq) /\ relq \subseteq OsThreads
        BY DEF LockInv, LockTypeOK, OneQueue
      <3> QED BY <1>1, <2>1, <3>1, <3>2, AppendQueue
    <2>2. CASE p \notin Fibers
      BY <2>2 DEF AcquirePark, LockInv, LockTypeOK, OneQueue, Callers
    <2> QED BY <2>1, <2>2
  <1>3. LockTypeOK'
    BY <1>2 DEF LockInv, LockTypeOK, AcquirePark, At, LockPcs
  <1>4. MutualExclusion'
    BY <1>1 DEF LockInv, LockTypeOK, MutualExclusion, Holders, AcquirePark, At
  <1>5. OneQueue'
    BY <1>1, <1>2, QueueSets DEF LockInv, LockTypeOK, OneQueue, AcquirePark, At, Callers
  <1>6. NoStranded'
    BY DEF NoStranded, AcquirePark
  <1> QED BY <1>3, <1>4, <1>5, <1>6 DEF LockInv

-----------------------------------------------------------------------------
(* lock_release, on its own and inside condvar_wait.                       *)

\* A release by the holder leaves the lock free with a waiter of each kind, if
\* there is one, on its way.
LEMMA UnlockInv ==
    ASSUME LockInv, NEW p \in Holders, Unlock, NEW l \in {"out", "cv_wait"}, At(p, l),
           UNCHANGED <<cvq, cancel>>,
           \/ UNCHANGED cvblocked /\ (l = "out" => lpc[p] = "in")
           \/ cvblocked' = cvblocked \cup {p} /\ p \in OsThreads /\ l = "cv_wait"
    PROVE  LockInv'
  <1> USE DEF LockInv
  <1>1. /\ held' = FALSE
        /\ waitq' \in Seq(Fibers) /\ IsInjective(waitq')
        /\ relq' \subseteq OsThreads /\ relq' \subseteq relq
        /\ ToSet(waitq') \subseteq ToSet(waitq)
        /\ waitq # <<>> => \E q \in ToSet(waitq) : q \notin ToSet(waitq')
        /\ relq # {} => \E m \in relq : m \notin relq'
        /\ (waitq = <<>> => waitq' = <<>>) /\ (relq = {} => relq' = {})
    BY UnlockQueues
  <1>2. /\ p \in Callers /\ lpc[p] \in {"in", "cv_enqueued"}
        /\ p \notin ToSet(waitq) \cup relq
        /\ lpc' = [lpc EXCEPT ![p] = l]
    BY DEF Holders, OneQueue, At
  <1>3. LockTypeOK'
    BY <1>1, <1>2 DEF LockTypeOK, LockPcs
  <1>4. MutualExclusion'
    BY <1>1, <1>2 DEF LockTypeOK, MutualExclusion, Holders
  <1>5. OneQueue'
    <2>1. \A q \in ToSet(waitq') \cup relq' : lpc'[q] = "parked"
      BY <1>1, <1>2, QueueSets DEF LockTypeOK, OneQueue, Callers
    <2>2. \A q \in ToSet(cvq') : lpc'[q] \in {"cv_enqueued", "cv_wait"}
      BY <1>2, QueueSets, LockAssumption DEF LockTypeOK, OneQueue, Callers
    <2>3. \A q \in cvblocked' : lpc'[q] = "cv_wait"
      BY <1>2 DEF LockTypeOK, OneQueue, Callers
    <2> QED BY <1>1, <2>1, <2>2, <2>3 DEF OneQueue
  <1>6. NoStranded'
    <2>1. ASSUME waitq # <<>> PROVE \E q \in Fibers : Runnable(q)'
      <3>1. PICK q \in ToSet(waitq) : q \notin ToSet(waitq')
        BY <1>1, <2>1
      <3>2. q \in Fibers /\ lpc[q] = "parked" /\ q \notin relq'
        BY <1>1, <3>1, QueueSets DEF OneQueue
      <3>3. lpc'[q] = "parked"
        BY <1>2, <3>2 DEF LockTypeOK, Callers
      <3> QED BY <3>1, <3>2, <3>3 DEF Runnable
    <2>2. ASSUME relq # {} PROVE \E m \in OsThreads : Runnable(m)'
      <3>1. PICK m \in relq : m \notin relq'
        BY <1>1, <2>2
      <3>2. m \in OsThreads /\ lpc[m] = "parked" /\ m \notin ToSet(waitq')
        BY <1>1, <3>1, QueueSets, LockAssumption DEF LockTypeOK, OneQueue
      <3>3. lpc'[m] = "parked"
        BY <1>2, <3>2 DEF LockTypeOK, Callers
      <3> QED BY <3>1, <3>2, <3>3 DEF Runnable
    <2> QED BY <1>1, <2>1, <2>2 DEF NoStranded
  <1> QED BY <1>3, <1>4, <1>5, <1>6

\* Each of the three places that release does so as the holder.
LEMMA ReleasesInv ==
    ASSUME LockInv, NEW p \in Callers, Release(p) \/ CvRelease(p) \/ CvBlock(p)
    PROVE  LockInv'
  <1>1. CASE Release(p)
    BY <1>1, UnlockInv DEF Release, Holders
  <1>2. CASE CvRelease(p)
    BY <1>2, UnlockInv DEF CvRelease, Holders
  <1>3. CASE CvBlock(p)
    BY <1>3, UnlockInv DEF CvBlock, Holders
  <1> QED BY <1>1, <1>2, <1>3

-----------------------------------------------------------------------------
(* The condvar's queue and the environment.                                *)

\* A fiber joins the condvar's queue while it still holds the lock.
LEMMA CvEnqueueInv ==
    ASSUME LockInv, NEW p \in Callers, CvEnqueue(p)
    PROVE  LockInv'
  <1> USE DEF LockInv
  <1>1. /\ p \in Fibers /\ lpc[p] = "in"
        /\ p \notin ToSet(waitq) \cup ToSet(cvq) \cup relq \cup cvblocked
        /\ cvq' = Append(cvq, p)
        /\ lpc' = [lpc EXCEPT ![p] = "cv_enqueued"]
        /\ UNCHANGED <<held, waitq, relq, cvblocked, cancel>>
    BY DEF CvEnqueue, At, OneQueue
  <1>2. /\ cvq' \in Seq(Fibers) /\ IsInjective(cvq')
        /\ ToSet(cvq') = ToSet(cvq) \cup {p}
    BY <1>1, AppendQueue DEF LockTypeOK, OneQueue
  <1>3. LockTypeOK'
    BY <1>1, <1>2 DEF LockTypeOK, LockPcs
  <1>4. MutualExclusion'
    BY <1>1 DEF LockTypeOK, MutualExclusion, Holders
  <1>5. OneQueue'
    BY <1>1, <1>2, QueueSets DEF LockTypeOK, OneQueue, Callers
  <1>6. NoStranded'
    <2>1. held
      BY <1>1 DEF MutualExclusion, Holders
    <2> QED BY <1>1, <2>1 DEF NoStranded
  <1> QED BY <1>3, <1>4, <1>5, <1>6

\* Emptying the condvar's queue only lets more callers run.
LEMMA NotifyInv ==
    ASSUME LockInv, Notify
    PROVE  LockInv'
  <1> USE DEF LockInv
  <1>1. /\ cvq' = <<>> /\ ToSet(<<>>) = {} /\ cvblocked' = {}
        /\ UNCHANGED <<held, waitq, relq, lpc, cancel>>
    BY DEF Notify, NotifyAll, ToSet
  <1>2. LockTypeOK'
    BY <1>1 DEF LockTypeOK
  <1>3. MutualExclusion'
    BY <1>1 DEF MutualExclusion, Holders
  <1>4. OneQueue'
    BY <1>1 DEF OneQueue, IsInjective
  <1>5. NoStranded'
    BY <1>1 DEF NoStranded, Runnable
  <1> QED BY <1>2, <1>3, <1>4, <1>5

\* Cancellation, a spurious wake and the end of an unwinding.
LEMMA EnvironmentInv ==
    ASSUME LockInv, NEW p \in Callers, Cancel(p) \/ SpuriousWake(p) \/ Unwind(p)
    PROVE  LockInv'
  <1> USE DEF LockInv
  <1>1. CASE Cancel(p)
    <2>1. UNCHANGED <<held, waitq, relq, cvq, cvblocked, lpc>>
      BY <1>1 DEF Cancel
    <2>2. LockTypeOK'
      BY <1>1, LockAssumption DEF Cancel, LockTypeOK
    <2> QED BY <2>1, <2>2 DEF MutualExclusion, Holders, OneQueue, NoStranded, Runnable
  <1>2. CASE SpuriousWake(p)
    <2>1. /\ UNCHANGED <<held, waitq, cvq, lpc, cancel>>
          /\ relq' \subseteq relq /\ cvblocked' \subseteq cvblocked
          /\ relq # {} \/ relq' = {}
      BY <1>2 DEF SpuriousWake
    <2>2. LockTypeOK'
      BY <2>1 DEF LockTypeOK
    <2>3. MutualExclusion'
      BY <2>1 DEF MutualExclusion, Holders
    <2>4. OneQueue'
      BY <2>1 DEF OneQueue
    <2>5. NoStranded'
      BY <2>1 DEF NoStranded, Runnable
    <2> QED BY <2>2, <2>3, <2>4, <2>5
  <1>3. CASE Unwind(p)
    <2>1. /\ lpc[p] = "thrown" /\ lpc' = [lpc EXCEPT ![p] = "out"]
          /\ UNCHANGED <<held, waitq, relq, cvq, cvblocked, cancel>>
      BY <1>3 DEF Unwind, At
    <2>2. LockTypeOK'
      BY <2>1 DEF LockTypeOK, LockPcs
    <2>3. MutualExclusion'
      BY <2>1 DEF LockTypeOK, MutualExclusion, Holders
    <2>4. OneQueue'
      BY <2>1, QueueSets DEF LockTypeOK, OneQueue, Callers
    <2>5. NoStranded'
      BY <2>1 DEF LockTypeOK, NoStranded, Runnable, Callers
    <2> QED BY <2>2, <2>3, <2>4, <2>5
  <1> QED BY <1>1, <1>2, <1>3

-----------------------------------------------------------------------------
(* The theorems.                                                           *)

\* A lock starts free, with nobody in its code.
LEMMA LockInitInv == LockInit => LockInv
  <1> SUFFICES ASSUME LockInit PROVE LockInv
    OBVIOUS
  <1>1. LockTypeOK
    <2>1. waitq \in Seq(Fibers) /\ cvq \in Seq(Fibers)
      BY DEF LockInit
    <2>2. lpc \in [Callers -> LockPcs]
      BY DEF LockInit, LockPcs
    <2> QED BY <2>1, <2>2 DEF LockInit, LockTypeOK
  <1>2. MutualExclusion
    BY DEF LockInit, MutualExclusion, Holders
  <1>3. ToSet(waitq) = {} /\ ToSet(cvq) = {}
    BY DEF LockInit, ToSet
  <1>4. OneQueue
    <2>1. IsInjective(waitq) /\ IsInjective(cvq)
      BY DEF LockInit, IsInjective
    <2> QED BY <1>3, <2>1 DEF LockInit, OneQueue
  <1>5. NoStranded
    BY DEF LockInit, NoStranded
  <1> QED BY <1>1, <1>2, <1>4, <1>5 DEF LockInv

\* Every step of every caller keeps the invariant.
LEMMA LockNextInv == LockInv /\ [LockNext]_lockVars => LockInv'
  <1> SUFFICES ASSUME LockInv, [LockNext]_lockVars PROVE LockInv'
    OBVIOUS
  <1>1. CASE Notify
    BY <1>1, NotifyInv
  <1>2. ASSUME NEW p \in Callers, LockStep(p) PROVE LockInv'
    BY <1>2, CallAcquireInv, AcquireCancelledInv, AcquireFreeInv, AcquireParkInv,
       ReleasesInv, CvEnqueueInv, EnvironmentInv DEF LockStep, Acquire
  <1>3. CASE UNCHANGED lockVars
    BY <1>3 DEF lockVars, LockInv, LockTypeOK, MutualExclusion, Holders, OneQueue,
                NoStranded, Runnable
  <1> QED BY <1>1, <1>2, <1>3 DEF LockNext

\* The lock's own state stays well formed: only fibers are ever parked on its
\* queues, only threads ever block on its conditions.
THEOREM LockTypeCorrect == LockSpec => []LockTypeOK
  <1>1. LockInv => LockTypeOK
    BY DEF LockInv
  <1> QED BY <1>1, LockInitInv, LockNextInv, PTL DEF LockSpec

\* lock_acquire, lock_try_acquire, lock_release and condvar_wait give the lock
\* to one caller at a time, whatever is cancelled and whoever barges in.
THEOREM LockExcludes == LockSpec => []MutualExclusion
  <1>1. LockInv => MutualExclusion
    BY DEF LockInv
  <1> QED BY <1>1, LockInitInv, LockNextInv, PTL DEF LockSpec

\* No fiber is ever threaded onto two wait queues, and no waiter is left behind
\* on a free lock.
THEOREM LockHandsOff == LockSpec => [](OneQueue /\ NoStranded)
  <1>1. LockInv => OneQueue /\ NoStranded
    BY DEF LockInv
  <1> QED BY <1>1, LockInitInv, LockNextInv, PTL DEF LockSpec

-----------------------------------------------------------------------------
(***************************************************************************)
(* For any fibers, threads and cancellations: until a cancelled wait drops *)
(* a guard whose lock it has not got, a Mutex<T>'s value has one user at a *)
(* time, no update is lost, and nobody sleeps on a predicate that holds.   *)
(***************************************************************************)

\* The statements within a method that only a holder of the lock executes.
MutexLocked == MutexPcs \ (MutexOps \cup {"idle", "test"})

\* Whoever is there has the lock, so the value is what it read or tested.
MutexCoupled ==
    \A p \in Callers :
        /\ mpc[p] \in MutexLocked => lpc[p] = "in"
        /\ mpc[p] \in {"storeInc", "storeDec"} => seen[p] = value
        /\ mpc[p] \in {"dec", "storeDec"} => value # 0
        /\ mpc[p] = "sleep" => value = 0

Waiting == ToSet(cvq) \cup cvblocked

\* Awake is NoMissedWakeup without its premise, which is inductive only while no
\* lock was released by one who had not got it.
Awake == value # 0 /\ Waiting # {} => \E q \in Callers : mpc[q] = "notify"

Sound == LockInv /\ MutexCoupled /\ value = applied /\ Awake

MutexInv == MutexTypeOK /\ (stray \/ Sound)

-----------------------------------------------------------------------------
(* Types, which hold whatever is dropped.                                  *)

LEMMA ModRange ==
    ASSUME NEW m \in Nat \ {0}, NEW i \in Int
    PROVE  i % m \in 0..(m - 1)
  OBVIOUS

\* Queues grow by fibers and shrink at the head.
LEMMA QueueTypes ==
    ASSUME NEW q \in Seq(Fibers)
    PROVE  /\ \A p \in Fibers : Append(q, p) \in Seq(Fibers)
           /\ q # <<>> => Tail(q) \in Seq(Fibers)
           /\ <<>> \in Seq(Fibers)
  OBVIOUS

LEMMA UnlockTypes ==
    ASSUME LockTypeOK, Unlock
    PROVE  held' \in BOOLEAN /\ waitq' \in Seq(Fibers) /\ relq' \subseteq OsThreads
  BY QueueTypes DEF LockTypeOK, Unlock

\* Every step of the lock keeps its types, and so does a release by one who has
\* not got it.
LEMMA LockTypes ==
    ASSUME LockTypeOK,
           \/ [LockNext]_lockVars
           \/ \E p \in Callers : Unlock /\ At(p, "out") /\ UNCHANGED <<cvq, cvblocked, cancel>>
    PROVE  LockTypeOK'
  <1> USE LockAssumption DEF LockTypeOK, LockPcs, At, Callers
  <1>1. CASE UNCHANGED lockVars
    BY <1>1 DEF lockVars
  <1>2. CASE Notify
    BY <1>2, QueueTypes DEF Notify, NotifyAll
  <1>3. ASSUME NEW p \in Callers, Unlock, At(p, "out"), UNCHANGED <<cvq, cvblocked, cancel>>
        PROVE  LockTypeOK'
    BY <1>3, UnlockTypes
  <1>4. ASSUME NEW p \in Callers, LockStep(p) PROVE LockTypeOK'
    <2>1. CASE CallAcquire(p)
      BY <2>1 DEF CallAcquire
    <2>2. CASE AcquireCancelled(p)
      BY <2>2, QueueTypes DEF AcquireCancelled
    <2>3. CASE AcquireFree(p) \/ TryAcquire(p)
      BY <2>3 DEF AcquireFree, TryAcquire
    <2>4. CASE AcquirePark(p)
      <3>1. CASE p \in Fibers
        <4>1. waitq' = Append(waitq, p) /\ UNCHANGED <<held, relq, cvq, cvblocked, cancel>>
              /\ lpc' = [lpc EXCEPT ![p] = "parked"]
          BY <2>4, <3>1 DEF AcquirePark
        <4>2. waitq' \in Seq(Fibers)
          BY <3>1, <4>1, QueueTypes
        <4> QED BY <4>1, <4>2
      <3>2. CASE p \notin Fibers
        BY <2>4, <3>2 DEF AcquirePark
      <3> QED BY <3>1, <3>2
    <2>5. CASE Release(p) \/ CvRelease(p) \/ CvBlock(p)
      <3>1. CASE Release(p)
        BY <3>1, UnlockTypes DEF Release
      <3>2. CASE CvRelease(p)
        BY <3>2, UnlockTypes DEF CvRelease
      <3>3. CASE CvBlock(p)
        BY <3>3, UnlockTypes DEF CvBlock
      <3> QED BY <2>5, <3>1, <3>2, <3>3
    <2>6. CASE CvEnqueue(p)
      BY <2>6, QueueTypes DEF CvEnqueue
    <2>7. CASE Cancel(p) \/ SpuriousWake(p) \/ Unwind(p)
      BY <2>7 DEF Cancel, SpuriousWake, Unwind
    <2> QED BY <1>4, <2>1, <2>2, <2>3, <2>4, <2>5, <2>6, <2>7 DEF LockStep, Acquire
  <1> QED BY <1>1, <1>2, <1>3, <1>4 DEF LockNext

\* Every step of a mutex is a step of the lock, or leaves it alone, but for the
\* guard that a cancellation drops.
LEMMA MutexStep ==
    ASSUME [MutexNext]_mutexAll
    PROVE  [LockNext]_lockVars \/ \E p \in Callers : DropCancelled(p)
  <1>1. CASE UNCHANGED mutexAll
    BY <1>1 DEF mutexAll
  <1>2. ASSUME NEW p \in Callers, MutexEnvironment(p) \/ \E o \in MutexOps : MutexCall(p, o)
        PROVE  LockNext
    BY <1>2 DEF MutexEnvironment, MutexCall, LockNext, LockStep
  <1>3. ASSUME NEW p \in Callers, MutexMethod(p)
        PROVE  [LockNext]_lockVars \/ DropCancelled(p)
    <2>1. CASE MutexUnderneath(p) \/ Sleep(p) \/ Drop(p) \/ MutexCancelled(p) \/ GetReturn(p)
      BY <2>1 DEF MutexUnderneath, Sleep, Drop, MutexCancelled, GetReturn, LockNext, LockStep
    <2>2. CASE MutexNotify(p)
      BY <2>2 DEF MutexNotify, LockNext
    <2>3. CASE \/ Guard(p) \/ TestFail(p) \/ TestPass(p) \/ ReadValue(p)
               \/ StoreValue(p) \/ FnThrows(p) \/ Get(p)
      BY <2>3 DEF Guard, TestFail, TestPass, ReadValue, StoreValue, FnThrows, Get
    <2> QED BY <1>3, <2>1, <2>2, <2>3 DEF MutexMethod
  <1> QED BY <1>1, <1>2, <1>3 DEF MutexNext

LEMMA Typed == MutexTypeOK /\ [MutexNext]_mutexAll => MutexTypeOK'
  <1> SUFFICES ASSUME MutexTypeOK, [MutexNext]_mutexAll PROVE MutexTypeOK'
    OBVIOUS
  <1>1. LockTypeOK'
    BY MutexStep, LockTypes DEF MutexTypeOK, DropCancelled
  <1> USE <1>1, MutexAssumption DEF MutexTypeOK, MutexPcs, MutexOps, MutexGoto, dataVars, mutexVars
  <1>2. CASE UNCHANGED mutexAll
    BY <1>2 DEF mutexAll
  <1>3. ASSUME NEW p \in Callers, MutexEnvironment(p) \/ \E o \in MutexOps : MutexCall(p, o)
        PROVE  MutexTypeOK'
    BY <1>3 DEF MutexEnvironment, MutexCall
  <1>4. ASSUME NEW p \in Callers, MutexMethod(p) PROVE MutexTypeOK'
    <2>1. CASE MutexUnderneath(p) \/ Guard(p) \/ TestFail(p) \/ Sleep(p) \/ TestPass(p)
      BY <2>1 DEF MutexUnderneath, Guard, TestFail, Sleep, TestPass
    <2>2. CASE ReadValue(p) \/ FnThrows(p)
      BY <2>2 DEF ReadValue, FnThrows
    <2>3. CASE StoreValue(p)
      <3>1. seen[p] \in Int /\ applied \in Int
        OBVIOUS
      <3>2. value' \in 0..(Modulus - 1) /\ applied' \in 0..(Modulus - 1)
        <4>1. \A i \in Int : i % Modulus \in 0..(Modulus - 1)
          BY ModRange
        <4>2. seen[p] + 1 \in Int /\ seen[p] - 1 \in Int /\ applied + 1 \in Int /\ applied - 1 \in Int
          BY <3>1
        <4> QED BY <2>3, <4>1, <4>2 DEF StoreValue
      <3>3. mpc' \in [Callers -> MutexPcs] /\ seen' \in [Callers -> 0..(Modulus - 1)] /\ stray' = stray
        BY <2>3 DEF StoreValue
      <3> QED BY <3>2, <3>3
    <2>4. CASE MutexNotify(p) \/ Drop(p) \/ DropCancelled(p) \/ MutexCancelled(p)
      BY <2>4 DEF MutexNotify, Drop, DropCancelled, MutexCancelled
    <2>5. CASE Get(p) \/ GetReturn(p)
      BY <2>5 DEF Get, GetReturn
    <2> QED BY <1>4, <2>1, <2>2, <2>3, <2>4, <2>5 DEF MutexMethod
  <1> QED BY <1>2, <1>3, <1>4 DEF MutexNext

-----------------------------------------------------------------------------
(* The value.                                                              *)

\* Steps underneath a method move nobody who is between its statements.
LEMMA LockOnly ==
    ASSUME Sound, LockInv', UNCHANGED mutexVars, NEW p \in Callers, NEW l,
           (lpc[p] # "in" /\ At(p, l)) \/ UNCHANGED lpc,
           Waiting' \subseteq Waiting
    PROVE  Sound'
  <1>1. MutexCoupled' /\ value' = applied'
    BY DEF Sound, MutexCoupled, LockInv, LockTypeOK, At, mutexVars, dataVars
  <1>2. Awake'
    BY DEF Sound, Awake, mutexVars, dataVars
  <1> QED BY <1>1, <1>2 DEF Sound

\* A caller goes on to l, and nothing is stored.
LEMMA GoesOn ==
    ASSUME MutexTypeOK, Sound, LockInv', NEW p \in Callers, NEW l \in MutexPcs, MutexGoto(p, l),
           UNCHANGED <<value, applied>>,
           \A q \in Callers : q # p => lpc'[q] = lpc[q] /\ seen'[q] = seen[q],
           l \in MutexLocked => lpc'[p] = "in",
           l \in {"storeInc", "storeDec"} => seen'[p] = value,
           l \in {"dec", "storeDec"} => value # 0,
           l = "sleep" => value = 0,
           mpc[p] = "notify" => Waiting' = {},
           value = 0 \/ Waiting' \subseteq Waiting
    PROVE  Sound'
  <1>1. mpc'[p] = l /\ \A q \in Callers : q # p => mpc'[q] = mpc[q]
    BY DEF MutexTypeOK, MutexGoto
  <1>2. MutexCoupled' /\ value' = applied'
    BY <1>1 DEF Sound, MutexCoupled
  <1>3. Awake'
    BY <1>1 DEF Sound, Awake
  <1> QED BY <1>2, <1>3 DEF Sound

\* Whoever stores has read the value under the lock, and is alone with it.
LEMMA Stores ==
    ASSUME MutexTypeOK, Sound, LockInv', NEW p \in Callers, StoreValue(p)
    PROVE  Sound'
  <1>1. /\ mpc[p] \in MutexLocked /\ lpc[p] = "in" /\ seen[p] = value /\ applied = value
        /\ UNCHANGED lockVars
    BY DEF Sound, MutexCoupled, StoreValue, MutexLocked, MutexPcs, MutexOps
  <1>2. \A q \in Callers : q # p => mpc[q] \notin MutexLocked
    BY <1>1 DEF Sound, MutexCoupled, LockInv, MutualExclusion, Holders
  <1>3. mpc'[p] = "notify" /\ \A q \in Callers : q # p => mpc'[q] = mpc[q]
    BY DEF StoreValue, MutexGoto, MutexTypeOK
  <1>4. value' = applied'
    BY <1>1 DEF StoreValue
  <1>5. MutexCoupled'
    BY <1>1, <1>2, <1>3 DEF MutexCoupled, MutexLocked, MutexPcs, MutexOps, lockVars
  <1>6. Awake'
    BY <1>3 DEF Awake
  <1> QED BY <1>4, <1>5, <1>6 DEF Sound

LEMMA EmptyQueue == ToSet(<<>>) = {}
  BY DEF ToSet

LEMMA SoundStep ==
    ASSUME MutexTypeOK, Sound, LockInv', [MutexNext]_mutexAll, ~stray'
    PROVE  Sound'
  <1>1. lpc \in [Callers -> LockPcs] /\ lockVars' = lockVars => Waiting' = Waiting /\ lpc' = lpc
    BY DEF lockVars, Waiting
  <1>2. \A p \in Callers : \A l : At(p, l) => \A q \in Callers : q # p => lpc'[q] = lpc[q]
    BY DEF At, MutexTypeOK, LockTypeOK
  <1>3. CASE UNCHANGED mutexAll
    BY <1>3 DEF mutexAll, mutexVars, dataVars, lockVars, Sound, MutexCoupled, Awake, Waiting
  <1>4. ASSUME NEW p \in Callers, MutexEnvironment(p) PROVE Sound'
    <2>1. UNCHANGED <<mutexVars, lpc>> /\ Waiting' \subseteq Waiting
      BY <1>4 DEF MutexEnvironment, Cancel, SpuriousWake, Waiting
    <2> QED BY <2>1, LockOnly
  <1>5. ASSUME NEW p \in Callers, NEW o \in MutexOps, MutexCall(p, o) PROVE Sound'
    <2>1. /\ MutexGoto(p, o) /\ At(p, "acquire") /\ UNCHANGED <<value, applied, seen, cvq, cvblocked>>
          /\ mpc[p] = "idle"
      BY <1>5 DEF MutexCall, CallAcquire, dataVars
    <2> QED BY <1>2, <2>1, GoesOn DEF MutexPcs, MutexOps, MutexLocked, Waiting
  <1>6. ASSUME NEW p \in Callers, MutexMethod(p) PROVE Sound'
    <2>1. CASE MutexUnderneath(p)
      <3>1. /\ UNCHANGED <<mutexVars, cvq, cvblocked>> /\ lpc[p] # "in" /\ \E l : At(p, l)
        BY <2>1 DEF MutexUnderneath, Acquire, AcquireCancelled, AcquireFree, AcquirePark, Runnable,
                    CvRelease
      <3> QED BY <3>1, LockOnly DEF Waiting
    <2>2. CASE Guard(p) \/ TestFail(p) \/ TestPass(p) \/ Get(p) \/ ReadValue(p) \/ FnThrows(p)
      <3>1. PICK l \in MutexPcs :
               /\ MutexGoto(p, l) /\ l # "idle" /\ l \notin MutexOps
               /\ mpc[p] \in MutexLocked \/ lpc[p] = "in"
               /\ l \in {"storeInc", "storeDec"} => seen'[p] = value
               /\ l = "dec" => value # 0
               /\ l = "storeDec" => mpc[p] = "dec"
               /\ l = "sleep" => value = 0
        BY <2>2 DEF Guard, TestFail, TestPass, Get, ReadValue, FnThrows, MutexInside, MutexPcs, MutexOps, MutexLocked,
                    MutexTypeOK
      <3>2. /\ UNCHANGED <<lockVars, value, applied>> /\ mpc[p] # "notify"
            /\ \A q \in Callers : q # p => seen'[q] = seen[q]
        BY <2>2 DEF Guard, TestFail, TestPass, Get, ReadValue, FnThrows, MutexInside, dataVars, MutexTypeOK
      <3>3. lpc[p] = "in" /\ (l = "storeDec" => value # 0)
        BY <3>1 DEF Sound, MutexCoupled
      <3> QED BY <1>1, <3>1, <3>2, <3>3, GoesOn DEF MutexTypeOK, LockTypeOK, lockVars
    <2>3. CASE StoreValue(p)
      BY <2>3, Stores
    <2>4. CASE Sleep(p)
      <3>1. /\ MutexGoto(p, "test") /\ UNCHANGED <<value, applied, seen>> /\ value = 0
            /\ \E l : At(p, l)
        BY <2>4 DEF Sleep, CvEnqueue, CvBlock, dataVars, Sound, MutexCoupled
      <3>2. mpc[p] # "notify"
        BY <2>4 DEF Sleep
      <3> QED BY <1>2, <3>1, <3>2, GoesOn DEF MutexPcs, MutexOps, MutexLocked
    <2>5. CASE MutexNotify(p)
      <3>1. /\ MutexGoto(p, "drop") /\ UNCHANGED <<value, applied, seen, lpc>> /\ Waiting' = {}
            /\ mpc[p] = "notify"
        BY <2>5, EmptyQueue DEF MutexNotify, Notify, NotifyAll, dataVars, Waiting
      <3>2. lpc[p] = "in"
        BY <3>1 DEF Sound, MutexCoupled, MutexLocked, MutexPcs, MutexOps
      <3> QED BY <3>1, <3>2, GoesOn DEF MutexPcs
    <2>6. CASE Drop(p) \/ GetReturn(p) \/ MutexCancelled(p)
      <3>1. /\ MutexGoto(p, "idle") /\ UNCHANGED <<value, applied, seen, cvq, cvblocked>>
            /\ At(p, "out") /\ mpc[p] # "notify"
        BY <2>6 DEF Drop, GetReturn, MutexCancelled, Release, Unwind, dataVars, MutexOps
      <3> QED BY <1>2, <3>1, GoesOn DEF MutexPcs, MutexLocked, Waiting
    <2>7. CASE DropCancelled(p)
      BY <2>7 DEF DropCancelled
    <2> QED BY <1>6, <2>1, <2>2, <2>3, <2>4, <2>5, <2>6, <2>7 DEF MutexMethod
  <1> QED BY <1>3, <1>4, <1>5, <1>6 DEF MutexNext

-----------------------------------------------------------------------------
(* The theorems.                                                           *)

LEMMA MutexStarts == MutexInit => MutexInv
  <1> SUFFICES ASSUME MutexInit PROVE MutexInv
    OBVIOUS
  <1>1. LockInv
    BY LockInitInv DEF MutexInit
  <1>2. MutexTypeOK
    <2>1. value \in 0..(Modulus - 1) /\ applied \in 0..(Modulus - 1)
      BY MutexAssumption DEF MutexInit
    <2>2. mpc \in [Callers -> MutexPcs] /\ stray \in BOOLEAN
      BY DEF MutexInit, MutexPcs
    <2>3. seen \in [Callers -> 0..(Modulus - 1)]
      BY MutexAssumption DEF MutexInit
    <2> QED BY <1>1, <2>1, <2>2, <2>3 DEF MutexTypeOK, LockInv
  <1>3. Waiting = {}
    BY EmptyQueue DEF MutexInit, LockInit, Waiting
  <1>4. MutexCoupled /\ Awake /\ value = applied
    BY <1>3 DEF MutexInit, MutexCoupled, Awake, MutexLocked
  <1> QED BY <1>1, <1>2, <1>4 DEF MutexInv, Sound

LEMMA MutexKeeps == MutexInv /\ [MutexNext]_mutexAll => MutexInv'
  <1> SUFFICES ASSUME MutexInv, [MutexNext]_mutexAll PROVE MutexInv'
    OBVIOUS
  <1>1. MutexTypeOK'
    BY Typed DEF MutexInv
  <1>2. ASSUME ~stray' PROVE Sound'
    <2>1. ~stray
      <3>1. CASE UNCHANGED mutexAll
        BY <1>2, <3>1 DEF mutexAll, mutexVars
      <3>2. ASSUME NEW p \in Callers, MutexMethod(p) PROVE ~stray
        BY <1>2, <3>2 DEF MutexMethod, MutexUnderneath, Guard, TestFail, Sleep, TestPass, ReadValue,
           StoreValue, FnThrows, MutexNotify, Drop, DropCancelled, MutexCancelled, Get, GetReturn,
           mutexVars
      <3>3. ASSUME NEW p \in Callers, MutexEnvironment(p) \/ \E o \in MutexOps : MutexCall(p, o) PROVE ~stray
        BY <1>2, <3>3 DEF MutexEnvironment, MutexCall, mutexVars
      <3> QED BY <3>1, <3>2, <3>3 DEF MutexNext
    <2>2. [LockNext]_lockVars
      BY <1>2, MutexStep DEF DropCancelled
    <2>3. LockInv'
      BY <2>1, <2>2, LockNextInv DEF MutexInv, Sound
    <2> QED BY <1>2, <2>1, <2>3, SoundStep DEF MutexInv
  <1> QED BY <1>1, <1>2 DEF MutexInv

\* The mutex's variables keep their types, also after a stray release.
THEOREM MutexTypeCorrect == MutexSpec => []MutexTypeOK
  <1>1. MutexInv => MutexTypeOK
    BY DEF MutexInv
  <1> QED BY <1>1, MutexStarts, MutexKeeps, PTL DEF MutexSpec

\* Until a guard dropped by a cancelled wait releases a lock that is not its
\* caller's, the protected value has one user and loses no update.
THEOREM MutexExclusive == MutexSpec => []ExclusiveUntilStray
  <1>1. MutexInv => ExclusiveUntilStray
    <2> SUFFICES ASSUME Sound PROVE ExclusiveUntilStray
      BY DEF MutexInv, ExclusiveUntilStray
    <2>1. Using \subseteq Holders
      BY DEF Using, Holders
    <2>2. ExclusiveUse
      BY <2>1 DEF Sound, LockInv, MutualExclusion, ExclusiveUse
    <2> QED BY <2>2 DEF Sound, MutexCoupled, ExclusiveUntilStray
  <1> QED BY <1>1, MutexStarts, MutexKeeps, PTL DEF MutexSpec

\* Until then nobody sleeps in withLockWhen while the predicate holds and no
\* notification is to come.
THEOREM MutexWakes == MutexSpec => []MutexNoMissedWakeup
  <1>1. MutexInv => MutexNoMissedWakeup
    BY DEF MutexInv, Sound, Awake, Waiting, MutexNoMissedWakeup
  <1> QED BY <1>1, MutexStarts, MutexKeeps, PTL DEF MutexSpec

-----------------------------------------------------------------------------
(***************************************************************************)
(* Semaphore uses its lock by the lock's rules, so what is proved of the   *)
(* lock for arbitrary callers holds underneath every semaphore; and with   *)
(* that, for any number of callers, every permit is accounted for and      *)
(* nobody sleeps beside a free one.                                        *)
(***************************************************************************)

\* Every step of a semaphore is a step of the lock, or leaves the lock alone.
LEMMA SemaphoreStep == [SemNext]_semAll => [LockNext]_lockVars
  <1> SUFFICES ASSUME [SemNext]_semAll PROVE [LockNext]_lockVars
    OBVIOUS
  <1>1. CASE UNCHANGED semAll
    BY <1>1 DEF semAll
  <1>2. ASSUME NEW p \in Callers, NEW from, NEW to, SemCall(p, from, to)
        PROVE  LockNext
    BY <1>2 DEF SemCall, LockNext, LockStep
  <1>3. ASSUME NEW p \in Callers, SemEnvironment(p) PROVE LockNext
    BY <1>3 DEF SemEnvironment, LockNext, LockStep
  <1>4. ASSUME NEW p \in Callers, SemMethod(p) PROVE [LockNext]_lockVars
    <2>1. CASE SemUnderneath(p)
      BY <2>1 DEF SemUnderneath, LockNext, LockStep
    <2>2. CASE SemCancelled(p)
      BY <2>2 DEF SemCancelled, LockNext, LockStep
    <2>3. CASE AcquireWait(p)
      BY <2>3 DEF AcquireWait, LockNext, LockStep
    <2>4. CASE SemNotify(p)
      BY <2>4 DEF SemNotify, LockNext
    <2>5. CASE AcquireReturn(p) \/ Return(p)
      BY <2>5 DEF AcquireReturn, Return, LockNext, LockStep
    <2>6. CASE TakePermit(p) \/ TakeWrite(p) \/ Give(p) \/ GiveWrite(p) \/ Available(p)
      BY <2>6 DEF TakePermit, TakeWrite, Give, GiveWrite, Available
    <2> QED BY <1>4, <1>2, <2>1, <2>2, <2>3, <2>4, <2>5, <2>6 DEF SemMethod
  <1> QED BY <1>1, <1>2, <1>3, <1>4 DEF SemNext

\* A semaphore releases its lock, and waits on its condvar, only while it holds
\* the lock (Semaphore.cajeta), also when a cancellation ends a method halfway.
THEOREM SemaphoreKeepsLockRules == SemSpec => SemKeepsLockRules
  <1>1. SemInit => LockInit
    BY DEF SemInit
  <1> QED BY <1>1, SemaphoreStep, PTL DEF SemSpec, SemKeepsLockRules, LockSpec

-----------------------------------------------------------------------------
(* The permits.                                                            *)

\* The statements between lockAcquire and lockRelease.
SemLocked == {"take", "got", "give", "notify", "unlock"}

\* Whoever is between them has the lock, so the count it read is the count;
\* whoever runs fn is outside the lock's code, where a cancellation cannot cost
\* it its permit.
SemCoupled ==
    \A p \in Callers :
        /\ spc[p] \in SemLocked => lpc[p] = "in"
        /\ spc[p] \in {"take", "give"} => readCount[p] = count
        /\ spc[p] = "take" => count > 0
        /\ spc[p] = "permit" => lpc[p] = "out"

SemTypes ==
    /\ count \in Nat /\ lost \in Nat
    /\ spc \in [Callers -> SemPcs]
    /\ readCount \in [Callers -> 0..Permits]

SemInv == LockInv /\ SemTypes /\ SemCoupled /\ PermitsAccounted /\ SemNoMissedWakeup

\* A set of callers grows or shrinks by one.
LEMMA CountOne ==
    ASSUME NEW S \in SUBSET Callers, NEW p \in Callers
    PROVE  /\ Cardinality(S) \in Nat
           /\ p \notin S => Cardinality(S \cup {p}) = Cardinality(S) + 1
           /\ p \in S => Cardinality(S \ {p}) = Cardinality(S) - 1
  <1>1. IsFiniteSet(S)
    BY SemaphoreAssumption, FS_Subset
  <1>2. Cardinality(S) \in Nat
    BY <1>1, FS_CardinalityType
  <1>3. p \notin S => Cardinality(S \cup {p}) = Cardinality(S) + 1
    BY <1>1, FS_AddElement
  <1>4. p \in S => Cardinality(S \ {p}) = Cardinality(S) - 1
    BY <1>1, FS_RemoveElement
  <1> QED BY <1>2, <1>3, <1>4

\* With every permit accounted for, the count is within its bounds.
LEMMA Bounded ==
    ASSUME SemTypes, PermitsAccounted
    PROVE  count \in 0..Permits /\ lost \in 0..Permits
  <1>1. Holding \in SUBSET Callers
    BY DEF Holding
  <1>2. Cardinality(Holding) \in Nat
    BY <1>1, SemaphoreAssumption, FS_Subset, FS_CardinalityType
  <1> QED BY <1>2, SemaphoreAssumption DEF SemTypes, PermitsAccounted

\* A caller between the statements is alone there.
LEMMA SemLockedAlone ==
    ASSUME SemInv, NEW p \in Callers, lpc[p] = "in", NEW q \in Callers, spc[q] \in SemLocked
    PROVE  p = q
  BY DEF SemInv, SemCoupled, LockInv, MutualExclusion, Holders

\* The lock's own steps move no caller that is between the statements.
LEMMA SemLockStep ==
    ASSUME SemInv, LockInv', UNCHANGED semVars, NEW p \in Callers, NEW l,
           (lpc[p] \notin {"in", "out"} /\ At(p, l)) \/ UNCHANGED lpc,
           ToSet(cvq') \cup cvblocked' \subseteq ToSet(cvq) \cup cvblocked
    PROVE  SemInv'
  <1>1. SemTypes' /\ PermitsAccounted'
    BY DEF SemInv, SemTypes, PermitsAccounted, Holding, semVars
  <1>2. SemCoupled'
    BY DEF SemInv, SemCoupled, LockInv, LockTypeOK, At, semVars, SemLocked
  <1>3. SemNoMissedWakeup'
    BY DEF SemInv, SemNoMissedWakeup, semVars
  <1> QED BY <1>1, <1>2, <1>3 DEF SemInv

\* The places where a permit is held.
HoldPcs == {"got", "permit", "release", "give"}

\* What one caller's move does to the callers that hold a permit.
LEMMA HoldingMoved ==
    ASSUME SemTypes, NEW p \in Callers, NEW l \in SemPcs, SemGoto(p, l)
    PROVE  /\ spc' \in [Callers -> SemPcs]
           /\ spc'[p] = l /\ \A q \in Callers : q # p => spc'[q] = spc[q]
           /\ Cardinality(Holding) \in Nat
           /\ (l \in HoldPcs <=> spc[p] \in HoldPcs)
                 => Cardinality(Holding)' = Cardinality(Holding)
           /\ l \in HoldPcs /\ spc[p] \notin HoldPcs
                 => Cardinality(Holding)' = Cardinality(Holding) + 1
           /\ l \notin HoldPcs /\ spc[p] \in HoldPcs
                 => Cardinality(Holding)' = Cardinality(Holding) - 1
  <1>1. /\ spc' \in [Callers -> SemPcs]
        /\ spc'[p] = l /\ \A q \in Callers : q # p => spc'[q] = spc[q]
    BY DEF SemTypes, SemGoto
  <1>2. Holding \in SUBSET Callers /\ (p \in Holding <=> spc[p] \in HoldPcs)
    BY DEF Holding, HoldPcs
  <1>3. /\ Cardinality(Holding) \in Nat
        /\ p \notin Holding => Cardinality(Holding \cup {p}) = Cardinality(Holding) + 1
        /\ p \in Holding => Cardinality(Holding \ {p}) = Cardinality(Holding) - 1
    BY <1>2, CountOne
  <1>4. ASSUME l \in HoldPcs <=> spc[p] \in HoldPcs
        PROVE  Cardinality(Holding)' = Cardinality(Holding)
    <2>1. Holding' = Holding
      BY <1>1, <1>4 DEF Holding, HoldPcs
    <2> QED BY <2>1
  <1>5. ASSUME l \in HoldPcs, spc[p] \notin HoldPcs
        PROVE  Cardinality(Holding)' = Cardinality(Holding) + 1
    <2>1. Holding' = Holding \cup {p}
      BY <1>1, <1>5 DEF Holding, HoldPcs
    <2> QED BY <1>2, <1>3, <1>5, <2>1
  <1>6. ASSUME l \notin HoldPcs, spc[p] \in HoldPcs
        PROVE  Cardinality(Holding)' = Cardinality(Holding) - 1
    <2>1. Holding' = Holding \ {p}
      BY <1>1, <1>6 DEF Holding, HoldPcs
    <2> QED BY <1>2, <1>3, <1>6, <2>1
  <1> QED BY <1>1, <1>3, <1>4, <1>5, <1>6

\* A step that leaves the count, the lost permits and the set of holders alone.
LEMMA SemNeutralStep ==
    ASSUME SemInv, LockInv', NEW p \in Callers, NEW l \in SemPcs, SemGoto(p, l),
           UNCHANGED <<count, readCount, lost>>,
           l \in HoldPcs <=> spc[p] \in HoldPcs,
           l \notin {"take", "give"}, l \in SemLocked => lpc'[p] = "in",
           l = "permit" => lpc'[p] = "out",
           \A q \in Callers : q # p => lpc'[q] = lpc[q],
           spc[p] = "notify" => ToSet(cvq') \cup cvblocked' = {},
           ToSet(cvq') \cup cvblocked' \subseteq ToSet(cvq) \cup cvblocked
    PROVE  SemInv'
  <1>1. /\ spc' \in [Callers -> SemPcs]
        /\ spc'[p] = l /\ \A q \in Callers : q # p => spc'[q] = spc[q]
        /\ Cardinality(Holding)' = Cardinality(Holding)
    BY HoldingMoved DEF SemInv
  <1>2. SemTypes' /\ PermitsAccounted'
    BY <1>1 DEF SemInv, SemTypes, PermitsAccounted
  <1>3. SemCoupled'
    BY <1>1 DEF SemInv, SemCoupled, SemLocked
  <1>4. SemNoMissedWakeup'
    BY <1>1 DEF SemInv, SemNoMissedWakeup
  <1> QED BY <1>2, <1>3, <1>4 DEF SemInv

\* Reading the count, to write it back changed.
LEMMA ReadInv ==
    ASSUME SemInv, LockInv', NEW p \in Callers, TakePermit(p) \/ Give(p)
    PROVE  SemInv'
  <1>1. PICK l \in {"take", "give"} :
           /\ SemGoto(p, l) /\ lpc[p] = "in" /\ (l = "take" => count > 0)
           /\ readCount' = [readCount EXCEPT ![p] = count]
           /\ UNCHANGED <<lockVars, count, lost>>
           /\ l \in HoldPcs <=> spc[p] \in HoldPcs
           /\ spc[p] # "notify"
    BY DEF TakePermit, Give, SemInside, HoldPcs
  <1>2. /\ spc' \in [Callers -> SemPcs]
        /\ spc'[p] = l /\ \A q \in Callers : q # p => spc'[q] = spc[q]
        /\ Cardinality(Holding)' = Cardinality(Holding)
    BY <1>1, HoldingMoved DEF SemInv, SemPcs
  <1>3. /\ readCount' \in [Callers -> 0..Permits]
        /\ readCount'[p] = count /\ \A q \in Callers : q # p => readCount'[q] = readCount[q]
    BY <1>1, Bounded DEF SemInv, SemTypes
  <1>4. SemTypes' /\ PermitsAccounted'
    BY <1>1, <1>2, <1>3 DEF SemInv, SemTypes, PermitsAccounted
  <1>5. SemCoupled'
    BY <1>1, <1>2, <1>3 DEF SemInv, SemCoupled, SemLocked, lockVars
  <1>6. SemNoMissedWakeup'
    BY <1>1, <1>2 DEF SemInv, SemNoMissedWakeup, lockVars
  <1> QED BY <1>4, <1>5, <1>6 DEF SemInv

\* Writing it back: the count is still what was read, since the caller has had
\* the lock ever since.
LEMMA WriteInv ==
    ASSUME SemInv, LockInv', NEW p \in Callers, TakeWrite(p) \/ GiveWrite(p)
    PROVE  SemInv'
  <1>1. /\ lpc[p] = "in" /\ readCount[p] = count /\ UNCHANGED <<lockVars, lost>>
        /\ readCount' = [readCount EXCEPT ![p] = 0]
    BY DEF SemInv, SemCoupled, TakeWrite, GiveWrite, SemLocked
  <1>2. \A q \in Callers : q # p => spc[q] \notin SemLocked
    BY <1>1, SemLockedAlone
  <1>3. readCount' \in [Callers -> 0..Permits]
    BY <1>1, SemaphoreAssumption DEF SemInv, SemTypes
  <1>4. CASE TakeWrite(p)
    <2>1. /\ SemGoto(p, "got") /\ count' = count - 1 /\ count > 0
          /\ spc[p] = "take"
      BY <1>1, <1>4 DEF TakeWrite, SemInv, SemCoupled
    <2>2. /\ spc' \in [Callers -> SemPcs]
          /\ spc'[p] = "got" /\ \A q \in Callers : q # p => spc'[q] = spc[q]
          /\ Cardinality(Holding) \in Nat
          /\ Cardinality(Holding)' = Cardinality(Holding) + 1
      BY <2>1, HoldingMoved DEF SemInv, SemPcs, HoldPcs
    <2>3. SemTypes' /\ PermitsAccounted'
      BY <1>1, <1>3, <2>1, <2>2, SemaphoreAssumption DEF SemInv, SemTypes, PermitsAccounted
    <2>4. SemCoupled'
      BY <1>1, <1>2, <2>2 DEF SemInv, SemCoupled, SemLocked, lockVars
    <2>5. ToSet(cvq) \cup cvblocked = {}
      BY <1>2, <2>1 DEF SemInv, SemNoMissedWakeup, SemLocked
    <2>6. SemNoMissedWakeup'
      BY <1>1, <2>5 DEF SemNoMissedWakeup, lockVars
    <2> QED BY <2>3, <2>4, <2>6 DEF SemInv
  <1>5. CASE GiveWrite(p)
    <2>1. SemGoto(p, "notify") /\ count' = count + 1 /\ spc[p] = "give"
      BY <1>1, <1>5 DEF GiveWrite
    <2>2. /\ spc' \in [Callers -> SemPcs]
          /\ spc'[p] = "notify" /\ \A q \in Callers : q # p => spc'[q] = spc[q]
          /\ Cardinality(Holding) \in Nat
          /\ Cardinality(Holding)' = Cardinality(Holding) - 1
      BY <2>1, HoldingMoved DEF SemInv, SemPcs, HoldPcs
    <2>3. SemTypes' /\ PermitsAccounted'
      BY <1>1, <1>3, <2>1, <2>2, SemaphoreAssumption DEF SemInv, SemTypes, PermitsAccounted
    <2>4. SemCoupled'
      BY <1>1, <1>2, <2>2 DEF SemInv, SemCoupled, SemLocked, lockVars
    <2>5. SemNoMissedWakeup'
      BY <2>2 DEF SemNoMissedWakeup
    <2> QED BY <2>3, <2>4, <2>5 DEF SemInv
  <1> QED BY <1>4, <1>5

\* Going to sleep in acquire, which is with no permit free.
LEMMA AcquireWaitInv ==
    ASSUME SemInv, LockInv', NEW p \in Callers, AcquireWait(p)
    PROVE  SemInv'
  <1>1. /\ UNCHANGED semVars /\ count <= 0 /\ spc[p] = "acquire"
        /\ \E l : At(p, l)
    BY DEF AcquireWait, CvEnqueue, CvBlock
  <1>2. SemTypes' /\ PermitsAccounted'
    BY <1>1 DEF SemInv, SemTypes, PermitsAccounted, Holding, semVars
  <1>3. \A q \in Callers : q # p => lpc'[q] = lpc[q]
    BY <1>1 DEF SemInv, LockInv, LockTypeOK, At
  <1>4. SemCoupled'
    BY <1>1, <1>3 DEF SemInv, SemCoupled, semVars, SemLocked
  <1>5. SemNoMissedWakeup'
    BY <1>1 DEF SemInv, SemTypes, SemNoMissedWakeup, semVars
  <1> QED BY <1>2, <1>4, <1>5 DEF SemInv

\* A cancellation costs a permit just when it ends a release.
LEMMA CancelledInv ==
    ASSUME SemInv, LockInv', NEW p \in Callers, SemCancelled(p)
    PROVE  SemInv'
  <1>1. /\ lpc[p] = "thrown" /\ At(p, "out") /\ UNCHANGED <<cvq, cvblocked>>
        /\ SemGoto(p, "idle") /\ UNCHANGED <<count, readCount>>
        /\ lost' = IF spc[p] = "release" THEN lost + 1 ELSE lost
    BY DEF SemCancelled, Unwind
  <1>2. spc[p] \notin SemLocked \cup {"permit"}
    BY <1>1 DEF SemInv, SemCoupled
  <1>3. \A q \in Callers : q # p => lpc'[q] = lpc[q]
    BY <1>1 DEF SemInv, LockInv, LockTypeOK, At
  <1>4. CASE spc[p] = "release"
    <2>1. /\ spc' \in [Callers -> SemPcs]
          /\ spc'[p] = "idle" /\ \A q \in Callers : q # p => spc'[q] = spc[q]
          /\ Cardinality(Holding) \in Nat
          /\ Cardinality(Holding)' = Cardinality(Holding) - 1
      BY <1>1, <1>4, HoldingMoved DEF SemInv, SemPcs, HoldPcs
    <2>2. SemTypes' /\ PermitsAccounted'
      BY <1>1, <1>4, <2>1, SemaphoreAssumption DEF SemInv, SemTypes, PermitsAccounted
    <2>3. SemCoupled'
      BY <1>1, <1>3, <2>1 DEF SemInv, SemCoupled, SemLocked
    <2>4. SemNoMissedWakeup'
      BY <1>1, <1>4, <2>1 DEF SemInv, SemNoMissedWakeup
    <2> QED BY <2>2, <2>3, <2>4 DEF SemInv
  <1>5. CASE spc[p] # "release"
    <2>1. "idle" \in HoldPcs <=> spc[p] \in HoldPcs
      BY <1>2, <1>5 DEF HoldPcs, SemLocked
    <2>2. UNCHANGED <<count, readCount, lost>> /\ spc[p] # "notify"
      BY <1>1, <1>2, <1>5 DEF SemLocked
    <2> QED BY <1>1, <1>3, <2>1, <2>2, SemNeutralStep DEF SemPcs, SemLocked
  <1> QED BY <1>4, <1>5

\* Entering a method, and leaving one.
LEMMA SemCallReturnInv ==
    ASSUME SemInv, LockInv', NEW p \in Callers,
           \/ SemCall(p, "idle", "acquire") \/ SemCall(p, "idle", "available")
           \/ SemCall(p, "permit", "release") \/ AcquireReturn(p) \/ Return(p)
    PROVE  SemInv'
  <1>1. PICK l \in {"acquire", "available", "release", "permit", "idle"} :
           /\ SemGoto(p, l) /\ (l \in HoldPcs <=> spc[p] \in HoldPcs)
           /\ UNCHANGED <<count, readCount, lost, cvq, cvblocked>> /\ spc[p] # "notify"
           /\ \/ At(p, "out")
              \/ At(p, "acquire") /\ l # "permit"
    BY DEF SemCall, CallAcquire, AcquireReturn, Return, Release, HoldPcs
  <1>2. /\ \A q \in Callers : q # p => lpc'[q] = lpc[q]
        /\ l = "permit" => lpc'[p] = "out"
    BY <1>1 DEF SemInv, LockInv, LockTypeOK, At
  <1> QED BY <1>1, <1>2, SemNeutralStep DEF SemPcs, SemLocked

\* Notifying, with the lock held, and reading the count in availablePermits.
LEMMA SemInsideInv ==
    ASSUME SemInv, LockInv', NEW p \in Callers, SemNotify(p) \/ Available(p)
    PROVE  SemInv'
  <1>1. /\ SemGoto(p, "unlock") /\ UNCHANGED <<count, readCount, lost, lpc>>
        /\ lpc[p] = "in" /\ spc[p] \notin HoldPcs
        /\ spc[p] = "notify" => ToSet(cvq') \cup cvblocked' = {}
        /\ ToSet(cvq') \cup cvblocked' \subseteq ToSet(cvq) \cup cvblocked
    <2>1. CASE SemNotify(p)
      BY <2>1, EmptyQueue DEF SemNotify, Notify, NotifyAll, SemInv, SemCoupled, SemLocked, HoldPcs
    <2>2. CASE Available(p)
      BY <2>2 DEF Available, SemInside, lockVars, HoldPcs
    <2> QED BY <2>1, <2>2
  <1> QED BY <1>1, SemNeutralStep DEF SemPcs, HoldPcs

\* The lock's own steps, a cancellation's arrival and a spurious wakeup.
LEMMA SemLockOnlyInv ==
    ASSUME SemInv, LockInv', NEW p \in Callers, SemUnderneath(p) \/ SemEnvironment(p)
    PROVE  SemInv'
  <1>1. CASE SemUnderneath(p)
    <2>1. /\ lpc[p] \notin {"in", "out"} /\ \E l : At(p, l)
          /\ UNCHANGED <<semVars, cvq, cvblocked>>
      BY <1>1 DEF SemUnderneath, Acquire, AcquireCancelled, AcquireFree, AcquirePark,
                  Runnable, CvRelease
    <2> QED BY <2>1, SemLockStep
  <1>2. CASE SemEnvironment(p)
    <2>1. /\ UNCHANGED <<semVars, lpc>>
          /\ ToSet(cvq') \cup cvblocked' \subseteq ToSet(cvq) \cup cvblocked
      BY <1>2 DEF SemEnvironment, Cancel, SpuriousWake
    <2> QED BY <2>1, SemLockStep
  <1> QED BY <1>1, <1>2

LEMMA SemStarts == SemInit => SemInv
  <1> SUFFICES ASSUME SemInit PROVE SemInv
    OBVIOUS
  <1>1. LockInv
    BY LockInitInv DEF SemInit
  <1>2. SemTypes /\ SemCoupled
    BY SemaphoreAssumption DEF SemInit, SemTypes, SemCoupled, SemPcs, SemLocked
  <1>3. Holding = {} /\ Cardinality({}) = 0
    BY FS_EmptySet DEF SemInit, Holding
  <1>4. PermitsAccounted
    BY <1>3, SemaphoreAssumption DEF SemInit, PermitsAccounted
  <1>5. SemNoMissedWakeup
    BY EmptyQueue DEF SemInit, LockInit, SemNoMissedWakeup
  <1> QED BY <1>1, <1>2, <1>4, <1>5 DEF SemInv

LEMMA SemKeeps == SemInv /\ [SemNext]_semAll => SemInv'
  <1> SUFFICES ASSUME SemInv, [SemNext]_semAll PROVE SemInv'
    OBVIOUS
  <1>1. LockInv'
    BY SemaphoreStep, LockNextInv DEF SemInv
  <1>2. CASE UNCHANGED semAll
    <2>1. /\ UNCHANGED <<count, spc, readCount, lost, lpc, cvq, cvblocked>>
      BY <1>2 DEF semAll, semVars, lockVars
    <2> QED BY <1>1, <2>1 DEF SemInv, SemTypes, SemCoupled, PermitsAccounted, Holding, SemNoMissedWakeup
  <1>3. ASSUME NEW p \in Callers, SemMethod(p) PROVE SemInv'
    BY <1>1, <1>3, SemLockOnlyInv, CancelledInv, AcquireWaitInv, ReadInv, WriteInv,
       SemCallReturnInv, SemInsideInv DEF SemMethod
  <1> QED BY <1>1, <1>2, <1>3, SemLockOnlyInv, SemCallReturnInv DEF SemNext

\* The count never leaves 0..Permits, and every caller is at a statement of
\* Semaphore.cajeta.
THEOREM SemaphoreTypeCorrect == SemSpec => []SemTypeOK
  <1>1. SemInv => SemTypeOK
    BY Bounded DEF SemInv, LockInv, SemTypes, SemTypeOK
  <1> QED BY <1>1, SemStarts, SemKeeps, PTL DEF SemSpec

\* Every permit is free, held, or lost to a release that was cut short: acquire
\* and release (Semaphore.cajeta) never make one up, whatever is cancelled.
THEOREM SemaphoreAccounts == SemSpec => []PermitsAccounted
  <1>1. SemInv => PermitsAccounted
    BY DEF SemInv
  <1> QED BY <1>1, SemStarts, SemKeeps, PTL DEF SemSpec

\* Nobody sleeps in acquire beside a free permit, unless the release that freed
\* it has yet to notify.
THEOREM SemaphoreWakes == SemSpec => []SemNoMissedWakeup
  <1>1. SemInv => SemNoMissedWakeup
    BY DEF SemInv
  <1> QED BY <1>1, SemStarts, SemKeeps, PTL DEF SemSpec

-----------------------------------------------------------------------------
(***************************************************************************)
(* Channel<T> uses its lock by the lock's rules, so what is proved of the  *)
(* lock for arbitrary callers holds underneath every channel; and with     *)
(* that, for every capacity and every set of senders, receivers and        *)
(* cancelled fibers, its ring buffer implements the abstract channel and   *)
(* nobody sleeps through his turn.                                         *)
(***************************************************************************)

\* Every step of a channel is a step of the lock, or leaves the lock alone.
LEMMA ChannelStep == [ChanNext]_chanAll => [LockNext]_lockVars
  <1> SUFFICES ASSUME [ChanNext]_chanAll PROVE [LockNext]_lockVars
    OBVIOUS
  <1>1. CASE UNCHANGED chanAll
    BY <1>1 DEF chanAll
  <1>2. ASSUME NEW p \in Callers, NEW o \in Offered[p],
               NEW v \in Values \cup {Nothing}, ChanCall(p, o, v)
        PROVE  LockNext
    BY <1>2 DEF ChanCall, LockNext, LockStep
  <1>3. ASSUME NEW p \in Callers, ChanEnvironment(p) PROVE LockNext
    BY <1>3 DEF ChanEnvironment, LockNext, LockStep
  <1>4. ASSUME NEW p \in Callers, ChanMethod(p) PROVE [LockNext]_lockVars
    <2>1. CASE ChanUnderneath(p)
      BY <2>1 DEF ChanUnderneath, LockNext, LockStep
    <2>2. CASE ChanCancelled(p)
      BY <2>2 DEF ChanCancelled, LockNext, LockStep
    <2>3. CASE Wait(p)
      BY <2>3 DEF Wait, LockNext, LockStep
    <2>4. CASE ChanNotify(p)
      BY <2>4 DEF ChanNotify, LockNext
    <2>5. CASE Finish(p)
      BY <2>5 DEF Finish, LockNext, LockStep
    <2>6. CASE \/ SendClosed(p) \/ TrySendRefused(p) \/ ReceiveDrained(p)
               \/ TryReceiveEmpty(p) \/ IsClosed(p)
      BY <2>6 DEF SendClosed, TrySendRefused, ReceiveDrained, TryReceiveEmpty,
                  IsClosed, ReturnWith
    <2>7. CASE Store(p) \/ AdvanceTail(p) \/ Take(p) \/ AdvanceHead(p) \/ Close(p)
      BY <2>7 DEF Store, AdvanceTail, Take, AdvanceHead, Close
    <2> QED BY <1>4, <2>1, <2>2, <2>3, <2>4, <2>5, <2>6, <2>7 DEF ChanMethod
  <1> QED BY <1>1, <1>2, <1>3, <1>4 DEF ChanNext

\* A channel releases its lock, and waits on its condvar, only while it holds
\* the lock (Channel.cajeta), also when a cancellation ends a method halfway.
THEOREM ChannelKeepsLockRules == ChanSpec => ChanKeepsLockRules
  <1>1. ChanInit => LockInit
    BY DEF ChanInit
  <1> QED BY <1>1, ChannelStep, PTL DEF ChanSpec, ChanKeepsLockRules, LockSpec

\* So one caller at a time is inside a channel's critical section.
THEOREM ChannelExcludes == ChanSpec => []MutualExclusion
  BY ChannelKeepsLockRules, LockExcludes, PTL DEF ChanKeepsLockRules

-----------------------------------------------------------------------------
(* The ring buffer.                                                        *)

\* The statements after an operation has looked at the channel, which it reaches
\* only with the lock.
ChanLocked == {"stored", "taken", "notify", "unlock"}

\* The place of the next item; tail, unless the arithmetic is wrong.
Place(i) == (head + i) % Capacity

\* Whoever is between the statements has the lock, so what it found is still so:
\* the item it stored lies at tail in a ring with room for it, the one it took is
\* the oldest.
ChanCoupled ==
    \A p \in Callers :
        /\ cpc[p] \in ChanLocked => lpc[p] = "in"
        /\ cpc[p] \in {"send", "trySend"} => item[p] \in Values
        /\ cpc[p] = "stored" =>
              size < Capacity /\ ~closed /\ item[p] \in Values /\ buf[tail] = item[p]
        /\ cpc[p] = "taken" => size > 0 /\ item[p] = buf[head]

ChanTypes ==
    /\ buf \in [0..(Capacity - 1) -> Values \cup {Nothing}]
    /\ head \in 0..(Capacity - 1) /\ tail \in 0..(Capacity - 1)
    /\ size \in 0..Capacity
    /\ closed \in BOOLEAN
    /\ cpc \in [Callers -> ChanPcs]
    /\ item \in [Callers -> Values \cup {Nothing}]
    /\ result \in [Callers -> Values \cup {Nothing, Raised, Refused, End}]

ChanInv == LockInv /\ ChanTypes /\ tail = Place(size) /\ ChanCoupled /\ ChanNoMissedWakeup

\* The callers in condvarWait.
Sleepers == ToSet(cvq) \cup cvblocked

\* Indices wrap round once at most.
LEMMA Wraps ==
    \A n \in 0..(2 * Capacity - 1) :
        n % Capacity = IF n < Capacity THEN n ELSE n - Capacity
  <1> TAKE n \in 0..(2 * Capacity - 1)
  <1> DEFINE q == n \div Capacity
             r == n % Capacity
  <1>1. Capacity \in Nat \ {0} /\ n \in Nat /\ n < 2 * Capacity
    BY ChannelAssumption
  <1>2. n = Capacity * q + r /\ q \in Nat /\ r \in 0..(Capacity - 1)
    BY <1>1
  <1> HIDE DEF q, r
  <1>3. q = 0 \/ q = 1 \/ Capacity * q >= 2 * Capacity
    BY <1>1, <1>2
  <1>4. q # 0 /\ q # 1 => FALSE
    BY <1>1, <1>2, <1>3
  <1>5. CASE q = 0
    <2>1. r = n /\ n < Capacity
      BY <1>1, <1>2, <1>5
    <2> QED BY <2>1 DEF r
  <1>6. CASE q = 1
    <2>1. r = n - Capacity /\ ~(n < Capacity)
      BY <1>1, <1>2, <1>6
    <2> QED BY <2>1 DEF r
  <1> QED BY <1>4, <1>5, <1>6

\* The places of the items, and of the next one, are in the ring.
LEMMA Places ==
    ASSUME head \in 0..(Capacity - 1)
    PROVE  \A i \in 0..Capacity :
              /\ Place(i) = IF head + i < Capacity THEN head + i ELSE head + i - Capacity
              /\ Place(i) \in 0..(Capacity - 1)
  <1>1. Capacity \in Nat \ {0}
    BY ChannelAssumption
  <1>2. \A k \in 0..Capacity :
           Place(k) = IF head + k < Capacity THEN head + k ELSE head + k - Capacity
    <2> TAKE k \in 0..Capacity
    <2>1. head + k \in 0..(2 * Capacity - 1)
      BY <1>1
    <2> QED BY <1>1, <2>1, Wraps DEF Place
  <1> QED BY <1>1, <1>2

\* A step round the ring, as AdvanceTail and AdvanceHead take it.
LEMMA NextPlace ==
    ASSUME NEW i \in 0..(Capacity - 1)
    PROVE  /\ (i + 1) % Capacity = IF i + 1 < Capacity THEN i + 1 ELSE i + 1 - Capacity
           /\ (i + 1) % Capacity \in 0..(Capacity - 1)
  <1>1. Capacity \in Nat \ {0}
    BY ChannelAssumption
  <1>2. i + 1 \in 0..(2 * Capacity - 1)
    BY <1>1
  <1> QED BY <1>1, <1>2, Wraps

\* A caller that holds the lock is alone between the statements.
LEMMA ChanLockedAlone ==
    ASSUME ChanInv, NEW p \in Callers, lpc[p] = "in", NEW q \in Callers, cpc[q] \in ChanLocked
    PROVE  p = q
  BY DEF ChanInv, ChanCoupled, LockInv, MutualExclusion, Holders

\* Nobody that runs is asleep.
LEMMA AwakeHere ==
    ASSUME LockInv, NEW p \in Callers, lpc[p] \notin {"cv_enqueued", "cv_wait"}
    PROVE  p \notin Sleepers
  BY DEF LockInv, OneQueue, Sleepers

\* A step that leaves the ring alone and ends where nothing is known of it.
LEMMA ChanNeutralStep ==
    ASSUME ChanInv, LockInv', NEW p \in Callers, NEW l \in ChanPcs \ {"stored", "taken"}, ChanGoto(p, l),
           UNCHANGED ring, lpc[p] \notin {"cv_enqueued", "cv_wait"},
           item' \in [Callers -> Values \cup {Nothing}],
           \A q \in Callers \ {p} : item'[q] = item[q] /\ lpc'[q] = lpc[q],
           result' \in [Callers -> Values \cup {Nothing, Raised, Refused, End}],
           l \in {"send", "trySend"} => item'[p] \in Values,
           l \in ChanLocked => lpc'[p] = "in",
           cpc[p] = "notify" => Sleepers' = {},
           Sleepers' \subseteq Sleepers
    PROVE  ChanInv'
  <1>1. /\ cpc' \in [Callers -> ChanPcs]
        /\ cpc'[p] = l /\ \A q \in Callers \ {p} : cpc'[q] = cpc[q]
    BY DEF ChanInv, ChanTypes, ChanGoto
  <1>2. ChanTypes' /\ (tail = Place(size))'
    BY <1>1 DEF ChanInv, ChanTypes, Place, ring
  <1>3. ChanCoupled'
    BY <1>1 DEF ChanInv, ChanCoupled, ChanLocked, ring
  <1>4. ChanNoMissedWakeup'
    <2> SUFFICES ASSUME NEW s \in Callers, s \in Sleepers', CanProceed(s)'
                 PROVE  (\E q \in Callers : ChanInside(q, "notify"))'
      <3>1. Sleepers' \subseteq Callers
        BY QueueSets DEF LockInv, LockTypeOK, Sleepers, Callers, ChanInv
      <3> QED BY <3>1 DEF ChanNoMissedWakeup, Sleepers
    <2>1. s # p /\ s \in Sleepers
      BY AwakeHere DEF ChanInv
    <2>2. CanProceed(s)
      BY <1>1, <2>1 DEF CanProceed, MustWait, ring
    <2>3. PICK q \in Callers : ChanInside(q, "notify")
      BY <2>1, <2>2 DEF ChanInv, ChanNoMissedWakeup, Sleepers
    <2>4. q # p
      BY <2>3 DEF ChanInside
    <2> QED BY <1>1, <2>3, <2>4 DEF ChanInside
  <1> QED BY <1>2, <1>3, <1>4 DEF ChanInv

\* The lock's own steps move no caller that is between the statements.
LEMMA ChanLockStep ==
    ASSUME ChanInv, LockInv', UNCHANGED chanVars, NEW p \in Callers, NEW l,
           (lpc[p] # "in" /\ At(p, l)) \/ UNCHANGED lpc,
           Sleepers' \subseteq Sleepers
    PROVE  ChanInv'
  <1>1. ChanTypes' /\ (tail = Place(size))'
    BY DEF ChanInv, ChanTypes, Place, chanVars, ring, local
  <1>2. \A q \in Callers : lpc[q] = "in" => lpc'[q] = "in"
    BY DEF ChanInv, LockInv, LockTypeOK, At
  <1>3. ChanCoupled'
    BY <1>2 DEF ChanInv, ChanCoupled, chanVars, ring, local, ChanLocked
  <1>4. ChanNoMissedWakeup'
    BY <1>2 DEF ChanInv, ChanNoMissedWakeup, CanProceed, MustWait, ChanInside, Sleepers,
                chanVars, ring, local
  <1> QED BY <1>1, <1>3, <1>4 DEF ChanInv

-----------------------------------------------------------------------------
(* The operations.                                                         *)

\* Storing an item: it goes where none is.
LEMMA StoreInv ==
    ASSUME ChanInv, LockInv', NEW p \in Callers, Store(p)
    PROVE  ChanInv'
  <1>1. /\ lpc[p] = "in" /\ cpc[p] \in {"send", "trySend"} /\ ~closed /\ size < Capacity
        /\ buf' = [buf EXCEPT ![tail] = item[p]] /\ ChanGoto(p, "stored")
        /\ UNCHANGED <<lockVars, head, tail, size, closed, item, result>>
    BY DEF Store, ChanInside, local
  <1>2. /\ cpc' \in [Callers -> ChanPcs] /\ cpc'[p] = "stored"
        /\ \A q \in Callers \ {p} : cpc'[q] = cpc[q]
        /\ item[p] \in Values
        /\ buf' \in [0..(Capacity - 1) -> Values \cup {Nothing}] /\ buf'[tail] = item[p]
    BY <1>1 DEF ChanInv, ChanTypes, ChanGoto, ChanPcs, ChanCoupled
  <1>3. \A q \in Callers \ {p} : cpc[q] \notin ChanLocked
    BY <1>1, ChanLockedAlone
  <1>4. ChanTypes' /\ (tail = Place(size))'
    BY <1>1, <1>2 DEF ChanInv, ChanTypes, Place
  <1>5. ChanCoupled'
    BY <1>1, <1>2, <1>3 DEF ChanInv, ChanCoupled, ChanLocked, lockVars
  <1>6. ToSet(cvq) \cup cvblocked \subseteq Callers /\ p \notin Sleepers
    BY <1>1, AwakeHere, QueueSets DEF ChanInv, LockInv, LockTypeOK, Callers
  <1>7. ChanNoMissedWakeup'
    BY <1>1, <1>2, <1>6 DEF ChanInv, ChanNoMissedWakeup, CanProceed, MustWait, ChanInside,
                            Sleepers, lockVars
  <1> QED BY <1>4, <1>5, <1>7 DEF ChanInv

\* Taking one: it is the oldest.
LEMMA TakeInv ==
    ASSUME ChanInv, LockInv', NEW p \in Callers, Take(p)
    PROVE  ChanInv'
  <1>1. /\ lpc[p] = "in" /\ cpc[p] \in {"receive", "tryReceive"} /\ size # 0
        /\ item' = [item EXCEPT ![p] = buf[head]] /\ ChanGoto(p, "taken")
        /\ UNCHANGED <<lockVars, buf, head, tail, size, closed, result>>
    BY DEF Take, ChanInside, ring
  <1>2. /\ cpc' \in [Callers -> ChanPcs] /\ cpc'[p] = "taken"
        /\ \A q \in Callers \ {p} : cpc'[q] = cpc[q] /\ item'[q] = item[q]
        /\ item' \in [Callers -> Values \cup {Nothing}] /\ item'[p] = buf[head]
        /\ size > 0
    BY <1>1, ChannelAssumption DEF ChanInv, ChanTypes, ChanGoto, ChanPcs
  <1>4. ChanTypes' /\ (tail = Place(size))'
    BY <1>1, <1>2 DEF ChanInv, ChanTypes, Place
  <1>5. ChanCoupled'
    BY <1>1, <1>2 DEF ChanInv, ChanCoupled, ChanLocked, lockVars
  <1>6. ToSet(cvq) \cup cvblocked \subseteq Callers /\ p \notin Sleepers
    BY <1>1, AwakeHere, QueueSets DEF ChanInv, LockInv, LockTypeOK, Callers
  <1>7. ChanNoMissedWakeup'
    BY <1>1, <1>2, <1>6 DEF ChanInv, ChanNoMissedWakeup, CanProceed, MustWait, ChanInside,
                            Sleepers, lockVars
  <1> QED BY <1>4, <1>5, <1>7 DEF ChanInv

\* Moving an index, and closing, are followed by the notification.
LEMMA ChangeInv ==
    ASSUME ChanInv, LockInv', NEW p \in Callers, AdvanceTail(p) \/ AdvanceHead(p) \/ Close(p)
    PROVE  ChanInv'
  <1>1. /\ lpc[p] = "in" /\ cpc[p] \in {"stored", "taken", "close"} /\ ChanGoto(p, "notify")
        /\ UNCHANGED <<lockVars, buf, item>>
    BY DEF AdvanceTail, AdvanceHead, Close, ChanInside, local
  <1>2. /\ cpc' \in [Callers -> ChanPcs] /\ cpc'[p] = "notify"
        /\ \A q \in Callers \ {p} : cpc'[q] = cpc[q]
    BY <1>1 DEF ChanInv, ChanTypes, ChanGoto, ChanPcs
  <1>3. \A q \in Callers \ {p} : cpc[q] \notin ChanLocked
    BY <1>1, ChanLockedAlone
  <1>4. ChanNoMissedWakeup'
    BY <1>1, <1>2 DEF ChanNoMissedWakeup, ChanInside, lockVars
  <1>5. ChanCoupled'
    BY <1>1, <1>2, <1>3 DEF ChanInv, ChanCoupled, ChanLocked, lockVars
  <1>6. Capacity \in Nat \ {0}
    BY ChannelAssumption
  <1>7. ChanTypes' /\ (tail = Place(size))'
    <2>1. CASE AdvanceTail(p)
      <3>1. /\ tail' = (tail + 1) % Capacity /\ size' = size + 1
            /\ UNCHANGED <<head, closed, result>> /\ size < Capacity
        BY <1>1, <2>1 DEF AdvanceTail, ChanInside, local, ChanInv, ChanCoupled
      <3>2. /\ tail' \in 0..(Capacity - 1)
            /\ tail' = IF tail + 1 < Capacity THEN tail + 1 ELSE tail + 1 - Capacity
        BY <3>1, NextPlace DEF ChanInv, ChanTypes
      <3>3. Place(size + 1) = IF head + (size + 1) < Capacity THEN head + (size + 1)
                                                            ELSE head + (size + 1) - Capacity
        <4>1. size + 1 \in 0..Capacity
          BY <1>6, <3>1 DEF ChanInv, ChanTypes
        <4> QED BY <4>1, Places DEF ChanInv, ChanTypes
      <3>4. tail = IF head + size < Capacity THEN head + size ELSE head + size - Capacity
        BY <1>6, Places DEF ChanInv, ChanTypes
      <3>5. tail' = Place(size + 1)
        BY <1>6, <3>1, <3>2, <3>3, <3>4 DEF ChanInv, ChanTypes
      <3> QED BY <1>1, <1>2, <1>6, <3>1, <3>2, <3>5 DEF ChanInv, ChanTypes, Place
    <2>2. CASE AdvanceHead(p)
      <3>1. /\ head' = (head + 1) % Capacity /\ size' = size - 1
            /\ UNCHANGED <<tail, closed>> /\ size > 0
            /\ result' = [result EXCEPT ![p] = item[p]]
        BY <1>1, <2>2 DEF AdvanceHead, ChanInside, ChanInv, ChanCoupled, Returns
      <3>2. /\ head' \in 0..(Capacity - 1) /\ size' \in 0..Capacity
            /\ head' = IF head + 1 < Capacity THEN head + 1 ELSE head + 1 - Capacity
        BY <1>6, <3>1, NextPlace DEF ChanInv, ChanTypes
      <3>3. (head' + size') % Capacity = IF head' + size' < Capacity THEN head' + size'
                                                       ELSE head' + size' - Capacity
        <4>1. head' + size' \in 0..(2 * Capacity - 1)
          BY <1>6, <3>2
        <4> QED BY <1>6, <3>2, <4>1, Wraps
      <3>4. tail = IF head + size < Capacity THEN head + size ELSE head + size - Capacity
        BY <1>6, Places DEF ChanInv, ChanTypes
      <3>5. tail' = (head' + size') % Capacity
        BY <1>6, <3>1, <3>2, <3>3, <3>4 DEF ChanInv, ChanTypes
      <3> QED BY <1>1, <1>2, <3>1, <3>2, <3>5 DEF ChanInv, ChanTypes, Place
    <2>3. CASE Close(p)
      <3>1. closed' = TRUE /\ UNCHANGED <<head, tail, size, result>>
        BY <2>3 DEF Close, local
      <3> QED BY <1>1, <1>2, <3>1 DEF ChanInv, ChanTypes, Place
    <2> QED BY <2>1, <2>2, <2>3
  <1> QED BY <1>4, <1>5, <1>7 DEF ChanInv

\* Entering a method, leaving it, and deciding what it returns.
LEMMA ChanCallReturnInv ==
    ASSUME ChanInv, LockInv', NEW p \in Callers,
           \/ \E o \in Offered[p], v \in Values \cup {Nothing} : ChanCall(p, o, v)
           \/ ChanCancelled(p) \/ Finish(p)
    PROVE  ChanInv'
  <1>1. CASE \E o \in Offered[p], v \in Values \cup {Nothing} : ChanCall(p, o, v)
    <2>1. PICK o \in Offered[p], v \in Values \cup {Nothing} : ChanCall(p, o, v)
      BY <1>1
    <2>2. o \in ChanOps
      BY ChannelAssumption
    <2>3. /\ ChanGoto(p, o) /\ lpc[p] = "out" /\ At(p, "acquire") /\ cpc[p] = "idle"
          /\ item' = [item EXCEPT ![p] = v] /\ UNCHANGED <<ring, result, cvq, cvblocked>>
          /\ (v # Nothing <=> o \in {"send", "trySend"})
      BY <2>1 DEF ChanCall, CallAcquire
    <2>4. /\ item' \in [Callers -> Values \cup {Nothing}] /\ item'[p] = v
          /\ \A q \in Callers \ {p} : item'[q] = item[q] /\ lpc'[q] = lpc[q]
      BY <2>3 DEF ChanInv, ChanTypes, LockInv, LockTypeOK, At
    <2> QED BY <2>2, <2>3, <2>4, ChanNeutralStep DEF ChanInv, ChanTypes, ChanOps, ChanPcs, ChanLocked, Sleepers
  <1>2. CASE ChanCancelled(p) \/ Finish(p)
    <2>1. /\ ChanGoto(p, "idle") /\ lpc[p] \in {"in", "thrown"} /\ At(p, "out")
          /\ item' = [item EXCEPT ![p] = Nothing] /\ UNCHANGED <<ring, cvq, cvblocked>>
          /\ result' = result \/ result' = [result EXCEPT ![p] = Nothing]
          /\ cpc[p] # "notify"
      BY <1>2 DEF ChanCancelled, Unwind, Finish, Release, Returns, ChanInv, ChanCoupled, ChanLocked
    <2>2. /\ item' \in [Callers -> Values \cup {Nothing}]
          /\ result' \in [Callers -> Values \cup {Nothing, Raised, Refused, End}]
          /\ \A q \in Callers \ {p} : item'[q] = item[q] /\ lpc'[q] = lpc[q]
      BY <2>1 DEF ChanInv, ChanTypes, LockInv, LockTypeOK, At
    <2> QED BY <2>1, <2>2, ChanNeutralStep DEF ChanPcs, ChanLocked, Sleepers
  <1> QED BY <1>1, <1>2

LEMMA ChanInsideInv ==
    ASSUME ChanInv, LockInv', NEW p \in Callers,
           \/ SendClosed(p) \/ TrySendRefused(p) \/ ReceiveDrained(p)
           \/ TryReceiveEmpty(p) \/ IsClosed(p) \/ ChanNotify(p)
    PROVE  ChanInv'
  <1>1. CASE ChanNotify(p)
    <2>1. /\ ChanGoto(p, "unlock") /\ lpc[p] = "in" /\ Sleepers' = {}
          /\ UNCHANGED <<ring, item, result, lpc>>
      BY <1>1, EmptyQueue DEF ChanNotify, Notify, NotifyAll, ChanInside, local, Sleepers
    <2> QED BY <2>1, ChanNeutralStep DEF ChanPcs, ChanLocked, ChanInv, ChanTypes
  <1>2. CASE ~ChanNotify(p)
    <2>1. PICK r \in {Nothing, Raised, Refused, End} :
             ReturnWith(p, r) /\ lpc[p] = "in" /\ cpc[p] # "notify"
      BY <1>2 DEF SendClosed, TrySendRefused, ReceiveDrained, TryReceiveEmpty, IsClosed, ChanInside
    <2>2. /\ ChanGoto(p, "unlock") /\ UNCHANGED <<ring, item, lpc, Sleepers>>
          /\ result' \in [Callers -> Values \cup {Nothing, Raised, Refused, End}]
      BY <2>1 DEF ReturnWith, Returns, lockVars, Sleepers, ChanInv, ChanTypes
    <2> QED BY <2>1, <2>2, ChanNeutralStep DEF ChanPcs, ChanLocked, ChanInv, ChanTypes
  <1> QED BY <1>1, <1>2

\* Going to sleep, which is in a channel where there is nothing to do.
LEMMA WaitInv ==
    ASSUME ChanInv, LockInv', NEW p \in Callers, Wait(p)
    PROVE  ChanInv'
  <1>1. /\ UNCHANGED chanVars /\ MustWait(p) /\ lpc[p] = "in" /\ \E l : At(p, l)
        /\ Sleepers' \subseteq Sleepers \cup {p}
    <2>1. CASE CvEnqueue(p)
      <3>1. p \in Fibers /\ cvq' = Append(cvq, p) /\ cvq \in Seq(Fibers)
        BY <2>1 DEF CvEnqueue, ChanInv, LockInv, LockTypeOK
      <3>2. p \notin ToSet(cvq) /\ IsInjective(cvq)
        BY <2>1 DEF CvEnqueue, ChanInv, LockInv, OneQueue
      <3>3. ToSet(cvq') = ToSet(cvq) \cup {p}
        BY <3>1, <3>2, AppendQueue
      <3> QED BY <2>1, <3>3 DEF Wait, CvEnqueue, Sleepers
    <2>2. CASE CvBlock(p)
      BY <2>2 DEF Wait, CvBlock, Sleepers
    <2> QED BY <2>1, <2>2 DEF Wait
  <1>2. ChanTypes' /\ (tail = Place(size))'
    BY <1>1 DEF ChanInv, ChanTypes, Place, chanVars, ring, local
  <1>3. \A q \in Callers \ {p} : lpc'[q] = lpc[q]
    BY <1>1 DEF ChanInv, LockInv, LockTypeOK, At
  <1>4. cpc[p] \notin ChanLocked
    BY <1>1 DEF MustWait, ChanLocked
  <1>5. ChanCoupled'
    BY <1>1, <1>3, <1>4 DEF ChanInv, ChanCoupled, chanVars, ring, local, ChanLocked
  <1>6. ChanNoMissedWakeup'
    <2> SUFFICES ASSUME NEW s \in Sleepers', CanProceed(s)'
                 PROVE  (\E q \in Callers : ChanInside(q, "notify"))'
      BY DEF ChanNoMissedWakeup, Sleepers
    <2>1. CanProceed(s) /\ s \in Sleepers
      BY <1>1 DEF CanProceed, MustWait, chanVars, ring, local
    <2>2. PICK q \in Callers : ChanInside(q, "notify")
      BY <2>1 DEF ChanInv, ChanNoMissedWakeup, Sleepers
    <2>3. q # p
      BY <1>4, <2>2 DEF ChanInside, ChanLocked
    <2> QED BY <1>1, <1>3, <2>2, <2>3 DEF ChanInside, chanVars
  <1> QED BY <1>2, <1>5, <1>6 DEF ChanInv

\* The lock's own steps, a cancellation's arrival and a spurious wakeup.
LEMMA ChanLockOnlyInv ==
    ASSUME ChanInv, LockInv', NEW p \in Callers, ChanUnderneath(p) \/ ChanEnvironment(p)
    PROVE  ChanInv'
  <1>1. CASE ChanUnderneath(p)
    <2>1. /\ lpc[p] # "in" /\ \E l : At(p, l)
          /\ UNCHANGED <<chanVars, cvq, cvblocked>>
      BY <1>1 DEF ChanUnderneath, Acquire, AcquireCancelled, AcquireFree, AcquirePark,
                  Runnable, CvRelease
    <2>2. Sleepers' \subseteq Sleepers
      BY <2>1 DEF Sleepers
    <2> QED BY <2>1, <2>2, ChanLockStep
  <1>2. CASE ChanEnvironment(p)
    <2>1. UNCHANGED <<chanVars, lpc>> /\ Sleepers' \subseteq Sleepers
      BY <1>2 DEF ChanEnvironment, Cancel, SpuriousWake, Sleepers
    <2> QED BY <2>1, ChanLockStep
  <1> QED BY <1>1, <1>2

LEMMA ChanStarts == ChanInit => ChanInv
  <1> SUFFICES ASSUME ChanInit PROVE ChanInv
    OBVIOUS
  <1>1. LockInv
    BY LockInitInv DEF ChanInit
  <1>2. ChanTypes
    <2>1. Capacity \in Nat \ {0}
      BY ChannelAssumption
    <2>2. head \in 0..(Capacity - 1) /\ tail \in 0..(Capacity - 1) /\ size \in 0..Capacity
      BY <2>1 DEF ChanInit
    <2> QED BY <2>2 DEF ChanInit, ChanTypes, ChanPcs
  <1>5. ChanCoupled
    BY DEF ChanInit, ChanCoupled, ChanLocked
  <1>3. tail = Place(size)
    <2>1. Capacity \in Nat \ {0}
      BY ChannelAssumption
    <2>2. head = 0 /\ size = 0 /\ tail = 0
      BY DEF ChanInit
    <2>3. 0 \in 0..(2 * Capacity - 1)
      BY <2>1
    <2> QED BY <2>1, <2>2, <2>3, Wraps DEF Place
  <1>4. ChanNoMissedWakeup
    BY EmptyQueue DEF ChanInit, LockInit, ChanNoMissedWakeup
  <1> QED BY <1>1, <1>2, <1>3, <1>4, <1>5 DEF ChanInv

LEMMA ChanKeeps == ChanInv /\ [ChanNext]_chanAll => ChanInv'
  <1> SUFFICES ASSUME ChanInv, [ChanNext]_chanAll PROVE ChanInv'
    OBVIOUS
  <1>1. LockInv'
    BY ChannelStep, LockNextInv DEF ChanInv
  <1>2. CASE UNCHANGED chanAll
    <2>1. UNCHANGED <<lpc, cvq, cvblocked, buf, head, tail, size, closed, cpc, item, result>>
      BY <1>2 DEF chanAll, chanVars, lockVars, ring, local
    <2> QED BY <1>1, <2>1 DEF ChanInv, ChanTypes, ChanCoupled, Place, ChanNoMissedWakeup,
                              CanProceed, MustWait, ChanInside
  <1>3. ASSUME NEW p \in Callers, ChanMethod(p) PROVE ChanInv'
    BY <1>1, <1>3, ChanLockOnlyInv, WaitInv, StoreInv, TakeInv, ChangeInv, ChanCallReturnInv,
       ChanInsideInv DEF ChanMethod
  <1> QED BY <1>1, <1>2, <1>3, ChanLockOnlyInv, ChanCallReturnInv DEF ChanNext

\* The ring's fields and the places of the callers stay in their types, for every
\* capacity.
THEOREM ChannelTypeCorrect == ChanSpec => []ChanTypeOK
  <1>1. ChanInv => ChanTypeOK
    BY DEF ChanInv, ChanTypes, LockInv, ChanTypeOK
  <1> QED BY <1>1, ChanStarts, ChanKeeps, PTL DEF ChanSpec

\* Whoever sleeps in condvarWait although he could proceed is about to be notified
\* by the caller that changed the channel.
THEOREM ChannelWakes == ChanSpec => []ChanNoMissedWakeup
  <1>1. ChanInv => ChanNoMissedWakeup
    BY DEF ChanInv
  <1> QED BY <1>1, ChanStarts, ChanKeeps, PTL DEF ChanSpec

-----------------------------------------------------------------------------
(* The abstract channel.                                                   *)

Things == Values \cup {Nothing}

\* What lies in the ring b from place h on.
Ring(b, h, n) == [i \in 1..n |-> b[(h + i - 1) % Capacity]]

\* The place of each item, with no more than one turn round the ring.
Slot(h, i) == IF h + i - 1 < Capacity THEN h + i - 1 ELSE h + i - 1 - Capacity

\* The items are a sequence, as long as size says.
LEMMA RingOK ==
    ASSUME NEW b \in [0..(Capacity - 1) -> Things], NEW h \in 0..(Capacity - 1), NEW n \in 0..Capacity
    PROVE  /\ Ring(b, h, n) \in Seq(Things)
           /\ Len(Ring(b, h, n)) = n
           /\ \A i \in 1..n : Ring(b, h, n)[i] = b[Slot(h, i)] /\ Slot(h, i) \in 0..(Capacity - 1)
  <1>1. Capacity \in Nat \ {0}
    BY ChannelAssumption
  <1>2. \A i \in 1..n : (h + i - 1) % Capacity = Slot(h, i) /\ Slot(h, i) \in 0..(Capacity - 1)
    <2> TAKE i \in 1..n
    <2> DEFINE k == h + i - 1
    <2>1. k \in 0..(2 * Capacity - 1) /\ k \in Int
      BY <1>1
    <2>2. Slot(h, i) = IF k < Capacity THEN k ELSE k - Capacity
      BY <1>1 DEF Slot
    <2>3. k % Capacity = Slot(h, i)
      <3> HIDE DEF k
      <3> QED BY <2>1, <2>2, Wraps
    <2>4. Slot(h, i) \in 0..(Capacity - 1)
      BY <1>1 DEF Slot
    <2> QED BY <2>3, <2>4
  <1>3. Ring(b, h, n) \in [1..n -> Things]
    BY <1>2 DEF Ring
  <1>4. Ring(b, h, n) \in Seq(Things) /\ Len(Ring(b, h, n)) = n
    BY <1>3
  <1> QED BY <1>2, <1>4 DEF Ring

\* The slot after the last item.
LEMMA NextSlot ==
    ASSUME NEW h \in 0..(Capacity - 1), NEW n \in 0..Capacity, n < Capacity
    PROVE  (h + n) % Capacity = Slot(h, n + 1) /\ Slot(h, n + 1) \in 0..(Capacity - 1)
  <1> DEFINE k == h + n
  <1>1. Capacity \in Nat \ {0}
    BY ChannelAssumption
  <1>2. k \in 0..(2 * Capacity - 1) /\ k \in Int
    BY <1>1
  <1>3. k % Capacity = IF k < Capacity THEN k ELSE k - Capacity
    <2> HIDE DEF k
    <2> QED BY <1>2, Wraps
  <1>4. Slot(h, n + 1) = IF k < Capacity THEN k ELSE k - Capacity
    BY <1>1 DEF Slot
  <1>5. Slot(h, n + 1) \in 0..(Capacity - 1)
    BY <1>1, <1>4
  <1> QED BY <1>3, <1>4, <1>5

\* What is stored there is none of the items.
LEMMA StoreSteps ==
    ASSUME NEW b \in [0..(Capacity - 1) -> Things], NEW c \in [0..(Capacity - 1) -> Things],
           NEW h \in 0..(Capacity - 1), NEW n \in 0..Capacity, n < Capacity,
           \A i \in 0..(Capacity - 1) : i # Slot(h, n + 1) => c[i] = b[i]
    PROVE  Ring(c, h, n) = Ring(b, h, n)
  <1> DEFINE s == Ring(b, h, n)
             t == Ring(c, h, n)
  <1>1. Capacity \in Nat \ {0}
    BY ChannelAssumption
  <1>2. /\ s \in Seq(Things) /\ Len(s) = n
        /\ \A i \in 1..n : s[i] = b[Slot(h, i)] /\ Slot(h, i) \in 0..(Capacity - 1)
    BY RingOK
  <1>3. /\ t \in Seq(Things) /\ Len(t) = n
        /\ \A i \in 1..n : t[i] = c[Slot(h, i)]
    BY RingOK
  <1>4. \A i \in 1..n : Slot(h, i) # Slot(h, n + 1)
    BY <1>1 DEF Slot
  <1> HIDE DEF s, t
  <1>5. \A i \in 1..n : t[i] = s[i]
    BY <1>2, <1>3, <1>4
  <1> QED BY <1>2, <1>3, <1>5, SeqEqual DEF s, t

\* An item more at the tail; one less at the head.
LEMMA RingSteps ==
    ASSUME NEW b \in [0..(Capacity - 1) -> Things], NEW h \in 0..(Capacity - 1), NEW n \in 0..Capacity
    PROVE  /\ n < Capacity => Ring(b, h, n + 1) = Append(Ring(b, h, n), b[(h + n) % Capacity])
           /\ n > 0 => /\ Ring(b, (h + 1) % Capacity, n - 1) = Tail(Ring(b, h, n))
                       /\ Head(Ring(b, h, n)) = b[h] /\ Ring(b, h, n) # <<>>
           /\ n = 0 => Ring(b, h, n) = <<>>
  <1>1. Capacity \in Nat \ {0}
    BY ChannelAssumption
  <1>2. /\ Ring(b, h, n) \in Seq(Things) /\ Len(Ring(b, h, n)) = n
        /\ \A i \in 1..n : Ring(b, h, n)[i] = b[Slot(h, i)] /\ Slot(h, i) \in 0..(Capacity - 1)
    BY RingOK
  <1>3. n < Capacity => (h + n) % Capacity = Slot(h, n + 1) /\ Slot(h, n + 1) \in 0..(Capacity - 1)
    BY NextSlot
  <1>4. ASSUME n < Capacity
        PROVE  Ring(b, h, n + 1) = Append(Ring(b, h, n), b[(h + n) % Capacity])
    <2> DEFINE s == Ring(b, h, n)
               t == Ring(b, h, n + 1)
               v == b[(h + n) % Capacity]
    <2>1. /\ t \in Seq(Things) /\ Len(t) = n + 1
          /\ \A i \in 1..(n + 1) : t[i] = b[Slot(h, i)]
      <3>1. n + 1 \in 0..Capacity
        BY <1>1, <1>4
      <3> QED BY <3>1, RingOK
    <2>2. v \in Things /\ v = b[Slot(h, n + 1)]
      BY <1>3, <1>4
    <2>3. /\ Append(s, v) \in Seq(Things) /\ Len(Append(s, v)) = n + 1
          /\ \A i \in 1..n : Append(s, v)[i] = s[i]
          /\ Append(s, v)[n + 1] = v
      BY <1>2, <2>2, AppendProperties
    <2>4. \A i \in 1..(n + 1) : t[i] = Append(s, v)[i]
      BY <1>1, <1>2, <2>1, <2>2, <2>3
    <2> HIDE DEF s, t, v
    <2>5. t = Append(s, v)
      BY <2>1, <2>3, <2>4, SeqEqual
    <2> QED BY <2>5 DEF s, t, v
  <1>5. ASSUME n > 0
        PROVE  /\ Ring(b, (h + 1) % Capacity, n - 1) = Tail(Ring(b, h, n))
               /\ Head(Ring(b, h, n)) = b[h] /\ Ring(b, h, n) # <<>>
    <2> DEFINE s == Ring(b, h, n)
               g == (h + 1) % Capacity
               t == Ring(b, g, n - 1)
    <2>1. g \in 0..(Capacity - 1) /\ g = IF h + 1 < Capacity THEN h + 1 ELSE h + 1 - Capacity
      BY NextPlace
    <2>2. /\ t \in Seq(Things) /\ Len(t) = n - 1
          /\ \A i \in 1..(n - 1) : t[i] = b[Slot(g, i)]
      <3>1. n - 1 \in 0..Capacity
        BY <1>1, <1>5
      <3> HIDE DEF g
      <3> QED BY <2>1, <3>1, RingOK
    <2>3. s # <<>> /\ Head(s) = b[h]
      <3>1. Slot(h, 1) = h
        BY <1>1 DEF Slot
      <3> QED BY <1>1, <1>2, <1>5, <3>1
    <2>4. /\ Tail(s) \in Seq(Things) /\ Len(Tail(s)) = n - 1
          /\ \A i \in 1..(n - 1) : Tail(s)[i] = s[i + 1]
      BY <1>2, <2>3, HeadTailProperties
    <2>5. \A i \in 1..(n - 1) : Slot(g, i) = Slot(h, i + 1)
      <3> HIDE DEF g
      <3> QED BY <1>1, <2>1 DEF Slot
    <2>6. \A i \in 1..(n - 1) : t[i] = Tail(s)[i]
      <3> TAKE i \in 1..(n - 1)
      <3>1. i + 1 \in 1..n
        BY <1>1
      <3> HIDE DEF s, t, g
      <3>2. s[i + 1] = b[Slot(h, i + 1)]
        BY <1>2, <3>1 DEF s
      <3> QED BY <2>2, <2>4, <2>5, <3>2
    <2> HIDE DEF s, t
    <2>7. t = Tail(s)
      BY <2>2, <2>4, <2>6, SeqEqual
    <2> QED BY <2>3, <2>7 DEF s, t
  <1>6. n = 0 => Ring(b, h, n) = <<>>
    BY <1>2
  <1> QED BY <1>4, <1>5, <1>6

LEMMA ItemsRing ==
    /\ Items = Ring(buf, head, size) /\ Items' = Ring(buf', head', size')
    /\ UNCHANGED ring => Items' = Items
  BY DEF Items, Ring, ring

\* A step of the channel is a step of the abstract one, or changes nothing of it.
LEMMA AbstractStep == ChanInv /\ [ChanNext]_chanAll => [Abstract!Next]_(Abstract!vars)
  <1> SUFFICES ASSUME ChanInv, [ChanNext]_chanAll PROVE [Abstract!Next]_(Abstract!vars)
    OBVIOUS
  <1>1. /\ buf \in [0..(Capacity - 1) -> Things] /\ head \in 0..(Capacity - 1)
        /\ size \in 0..Capacity /\ Capacity \in Nat \ {0}
    BY ChannelAssumption DEF ChanInv, ChanTypes, Things
  <1>2. Len(Items) = size /\ (Items = <<>> <=> size = 0)
    BY <1>1, RingOK, RingSteps, ItemsRing
  <1>3. ASSUME UNCHANGED <<ring, result>> PROVE UNCHANGED Abstract!vars
    BY <1>3, ItemsRing DEF Abstract!vars, ring
  <1>4. CASE UNCHANGED chanAll
    BY <1>3, <1>4 DEF chanAll, chanVars, local
  <1>5. ASSUME NEW p \in Callers, ChanEnvironment(p) \/ \E o \in Offered[p], v \in Values \cup {Nothing} : ChanCall(p, o, v)
        PROVE  UNCHANGED Abstract!vars
    BY <1>3, <1>5 DEF ChanEnvironment, ChanCall, chanVars, local
  <1>6. ASSUME NEW p \in Callers, ChanMethod(p) PROVE [Abstract!Next]_(Abstract!vars)
    <2>1. CASE ChanUnderneath(p) \/ ChanCancelled(p) \/ Wait(p) \/ Take(p) \/ ChanNotify(p)
      BY <1>3, <2>1 DEF ChanUnderneath, ChanCancelled, Wait, Take, ChanNotify, chanVars, local
    <2>2. ASSUME NEW r, ReturnWith(p, r)
          PROVE  Abstract!Gets(p, r) /\ UNCHANGED <<Items, closed>>
      BY <2>2, ItemsRing DEF ReturnWith, Returns, Abstract!Gets, ring
    <2>3. CASE SendClosed(p)
      BY <2>2, <2>3 DEF SendClosed, Abstract!Next, Abstract!SendRaises
    <2>4. CASE TrySendRefused(p)
      <3>1. closed \/ Len(Items) = Capacity
        BY <1>1, <1>2, <2>4 DEF TrySendRefused
      <3> QED BY <2>2, <2>4, <3>1 DEF TrySendRefused, Abstract!Next, Abstract!TrySendFails
    <2>5. CASE ReceiveDrained(p)
      BY <1>2, <2>2, <2>5 DEF ReceiveDrained, Abstract!Next, Abstract!ReceiveEnds
    <2>6. CASE TryReceiveEmpty(p)
      BY <1>2, <2>2, <2>6 DEF TryReceiveEmpty, Abstract!Next, Abstract!TryReceiveFails
    <2>7. CASE IsClosed(p)
      BY <2>2, <2>7 DEF IsClosed, Abstract!Next, Abstract!Return
    <2>8. CASE Finish(p)
      BY <2>8, ItemsRing DEF Finish, Returns, ring, Abstract!Next, Abstract!Return, Abstract!Gets
    <2>9. CASE Close(p)
      <3>1. Items' = Items /\ UNCHANGED result /\ closed' = TRUE
        BY <2>9, ItemsRing DEF Close, local
      <3> QED BY <3>1 DEF Abstract!Next, Abstract!Close
    <2>10. CASE Store(p)
      <3>1. /\ buf' = [buf EXCEPT ![tail] = item[p]] /\ item[p] \in Values
            /\ UNCHANGED <<head, size, closed, result>> /\ size < Capacity
            /\ tail = (head + size) % Capacity
        BY <2>10 DEF Store, ChanInside, local, ChanInv, ChanCoupled, Place
      <3>2. Ring(buf', head, size) = Ring(buf, head, size)
        <4>1. /\ buf' \in [0..(Capacity - 1) -> Things]
              /\ \A i \in 0..(Capacity - 1) : i # tail => buf'[i] = buf[i]
          BY <1>1, <3>1 DEF Things
        <4>2. tail = Slot(head, size + 1)
          BY <1>1, <3>1, NextSlot
        <4>3. /\ buf' \in [0..(Capacity - 1) -> Things] /\ size < Capacity
              /\ \A i \in 0..(Capacity - 1) : i # Slot(head, size + 1) => buf'[i] = buf[i]
          BY <3>1, <4>1, <4>2
        <4> QED BY <1>1, <4>3, StoreSteps
      <3>3. Items' = Items
        BY <3>1, <3>2, ItemsRing
      <3> QED BY <3>1, <3>3 DEF Abstract!vars
    <2>11. CASE AdvanceTail(p)
      <3>1. /\ size' = size + 1 /\ UNCHANGED <<buf, head, closed, result>>
            /\ size < Capacity /\ ~closed /\ item[p] \in Values /\ buf[tail] = item[p]
            /\ tail = (head + size) % Capacity
        BY <2>11 DEF AdvanceTail, ChanInside, local, ChanInv, ChanCoupled, Place
      <3>2. Ring(buf, head, size + 1) = Append(Ring(buf, head, size), buf[(head + size) % Capacity])
        BY <1>1, <3>1, RingSteps
      <3>3. Items' = Append(Items, item[p])
        BY <3>1, <3>2, ItemsRing
      <3> QED BY <1>2, <3>1, <3>3 DEF Abstract!Next, Abstract!Send
    <2>12. CASE AdvanceHead(p)
      <3>1. /\ head' = (head + 1) % Capacity /\ size' = size - 1
            /\ UNCHANGED <<buf, closed>> /\ size > 0 /\ item[p] = buf[head]
            /\ result' = [result EXCEPT ![p] = item[p]]
        BY <2>12 DEF AdvanceHead, ChanInside, Returns, ChanInv, ChanCoupled
      <3>2. Items' = Tail(Items) /\ Head(Items) = item[p] /\ Items # <<>>
        BY <1>1, <3>1, RingSteps, ItemsRing
      <3> QED BY <3>1, <3>2 DEF Abstract!Next, Abstract!Receive, Abstract!Gets
    <2> QED BY <1>6, <2>1, <2>3, <2>4, <2>5, <2>6, <2>7, <2>8, <2>9, <2>10, <2>11, <2>12
            DEF ChanMethod
  <1> QED BY <1>4, <1>5, <1>6 DEF ChanNext

\* The ring buffer of Channel.cajeta, under its lock, implements the abstract
\* channel: nothing is lost, repeated, reordered or handed out twice.
THEOREM ChannelImplements == ChanSpec => ImplementsChannel
  <1>1. ChanInit => Abstract!Init
    <2> SUFFICES ASSUME ChanInit PROVE Abstract!Init
      OBVIOUS
    <2>1. ChanInv
      BY ChanStarts
    <2>2. Items = <<>>
      BY <2>1, RingSteps, ItemsRing DEF ChanInit, ChanInv, ChanTypes, Things
    <2> QED BY <2>2 DEF ChanInit, Abstract!Init
  <1> QED BY <1>1, AbstractStep, ChanStarts, ChanKeeps, PTL DEF ChanSpec, ImplementsChannel, Abstract!Spec
=============================================================================
