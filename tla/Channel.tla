------------------------------ MODULE Channel ------------------------------
(***************************************************************************)
(* cajeta.concurrent.Channel<T>: a ring buffer guarded by one async lock   *)
(* and one condvar (module AsyncLock), used by any number of senders and   *)
(* receivers, any of which may be a fiber that is cancelled or the program *)
(* thread.                                                                 *)
(*                                                                         *)
(* Inside the lock an operation takes several steps: it touches the slot,  *)
(* then the indices, then notifies, then releases.                         *)
(***************************************************************************)
EXTENDS AsyncLock

CONSTANTS Values,             \* the items
          Capacity,
          Offered,            \* the methods each caller makes use of
          Nothing, Raised, Refused, End   \* what a call returns that is no item

ChanOps == {"send", "trySend", "receive", "tryReceive", "close", "isClosed"}

ASSUME ChannelAssumption ==
    /\ Capacity \in Nat \ {0}
    /\ Offered \in [Callers -> SUBSET ChanOps]
    /\ {Nothing, Raised, Refused, End} \cap Values = {}

VARIABLES buf, head, tail, size, closed,   \* the fields of the class
          cpc,                             \* where each caller is in its method
          item,                            \* its argument, or the item it read
          result                           \* what its call is about to return

ring == <<buf, head, tail, size, closed>>
local == <<item, result>>
chanVars == <<ring, cpc, local>>
chanAll == <<lockVars, chanVars>>

ChanPcs == ChanOps \cup {"idle", "stored", "taken", "notify", "unlock"}

ChanTypeOK ==
    /\ LockTypeOK
    /\ buf \in [0..(Capacity - 1) -> Values \cup {Nothing}]
    /\ head \in 0..(Capacity - 1) /\ tail \in 0..(Capacity - 1)
    /\ size \in 0..Capacity
    /\ closed \in BOOLEAN
    /\ cpc \in [Callers -> ChanPcs]
    /\ item \in [Callers -> Values \cup {Nothing}]
    /\ result \in [Callers -> Values \cup {Nothing, Raised, Refused, End}]

ChanInit ==
    /\ LockInit
    /\ buf = [i \in 0..(Capacity - 1) |-> Nothing]
    /\ head = 0 /\ tail = 0 /\ size = 0
    /\ closed = FALSE
    /\ cpc = [p \in Callers |-> "idle"]
    /\ item = [p \in Callers |-> Nothing]
    /\ result = [p \in Callers |-> Nothing]

ChanGoto(p, l) == cpc' = [cpc EXCEPT ![p] = l]
Returns(p, r) == result' = [result EXCEPT ![p] = r]

\* Caller p holds the lock and is at l in its method.
ChanInside(p, l) == lpc[p] = "in" /\ cpc[p] = l

-----------------------------------------------------------------------------
(* Entering and leaving.                                                   *)

\* Every method starts with lockAcquire.
ChanCall(p, o, v) ==
    /\ cpc[p] = "idle"
    /\ v # Nothing <=> o \in {"send", "trySend"}
    /\ CallAcquire(p)
    /\ ChanGoto(p, o)
    /\ item' = [item EXCEPT ![p] = v]
    /\ UNCHANGED <<ring, result>>

\* What goes on in the lock and the condvar underneath the methods.
ChanUnderneath(p) ==
    /\ Acquire(p) \/ CvRelease(p)
    /\ UNCHANGED chanVars

CancelledDrops(p) ==   \* mutant: a guard releases the lock the thrower has not got
    /\ lpc[p] = "thrown"
    /\ Unlock
    /\ At(p, "out")
    /\ ChanGoto(p, "idle")
    /\ item' = [item EXCEPT ![p] = Nothing]
    /\ UNCHANGED <<cvq, cvblocked, cancel, ring, result>>

\* A cancellation thrown by lockAcquire or condvarWait leaves the method.
ChanCancelled(p) ==
    /\ Unwind(p)
    /\ ChanGoto(p, "idle")
    /\ item' = [item EXCEPT ![p] = Nothing]
    /\ UNCHANGED <<ring, result>>

\* The method has what it returns (or throws) and only the lock to let go of.
ReturnWith(p, r) ==
    /\ Returns(p, r)
    /\ ChanGoto(p, "unlock")
    /\ UNCHANGED <<lockVars, ring, item>>

ChanNotify(p) ==
    /\ ChanInside(p, "notify")
    /\ Notify
    /\ ChanGoto(p, "unlock")
    /\ UNCHANGED <<ring, local>>

Finish(p) ==
    /\ cpc[p] = "unlock"
    /\ Release(p)
    /\ ChanGoto(p, "idle")
    /\ item' = [item EXCEPT ![p] = Nothing]
    /\ Returns(p, Nothing)
    /\ UNCHANGED ring

-----------------------------------------------------------------------------
(* The condition each method waits for.                                    *)

MustWait(p) ==
    \/ cpc[p] = "send" /\ size >= Capacity /\ ~closed
    \/ cpc[p] = "receive" /\ size = 0 /\ ~closed

Wait(p) ==
    /\ MustWait(p)
    /\ CvEnqueue(p) \/ CvBlock(p)
    /\ UNCHANGED chanVars

-----------------------------------------------------------------------------
(* send and trySend.                                                       *)

SendClosed(p) ==
    /\ ChanInside(p, "send")
    /\ closed
    /\ ReturnWith(p, Raised)

TrySendRefused(p) ==
    /\ ChanInside(p, "trySend")
    /\ closed \/ size >= Capacity
    /\ ReturnWith(p, Refused)

StoreUnchecked(p) ==  \* mutant: send waits with an if, not a while
    /\ ChanInside(p, "send") \/ ChanInside(p, "trySend")
    /\ ~closed
    /\ buf' = [buf EXCEPT ![tail] = item[p]]
    /\ ChanGoto(p, "stored")
    /\ UNCHANGED <<lockVars, head, tail, size, closed, local>>

Store(p) ==
    /\ ChanInside(p, "send") \/ ChanInside(p, "trySend")
    /\ ~closed
    /\ size < Capacity
    /\ buf' = [buf EXCEPT ![tail] = item[p]]
    /\ ChanGoto(p, "stored")
    /\ UNCHANGED <<lockVars, head, tail, size, closed, local>>

AdvanceTail(p) ==
    /\ ChanInside(p, "stored")
    /\ tail' = (tail + 1) % Capacity
    /\ size' = size + 1
    /\ ChanGoto(p, "notify")
    /\ UNCHANGED <<lockVars, buf, head, closed, local>>

-----------------------------------------------------------------------------
(* receive and tryReceive.                                                 *)

ReceiveDrained(p) ==
    /\ ChanInside(p, "receive")
    /\ size = 0 /\ closed
    /\ ReturnWith(p, End)

TryReceiveEmpty(p) ==
    /\ ChanInside(p, "tryReceive")
    /\ size = 0
    /\ ReturnWith(p, Refused)

Take(p) ==
    /\ ChanInside(p, "receive") \/ ChanInside(p, "tryReceive")
    /\ size # 0
    /\ item' = [item EXCEPT ![p] = buf[head]]
    /\ ChanGoto(p, "taken")
    /\ UNCHANGED <<lockVars, ring, result>>

AdvanceHead(p) ==
    /\ ChanInside(p, "taken")
    /\ head' = (head + 1) % Capacity
    /\ size' = size - 1
    /\ Returns(p, item[p])
    /\ ChanGoto(p, "notify")
    /\ UNCHANGED <<lockVars, buf, tail, closed, item>>

-----------------------------------------------------------------------------
(* close and isClosed.                                                     *)

Close(p) ==
    /\ ChanInside(p, "close")
    /\ closed' = TRUE
    /\ ChanGoto(p, "notify")
    /\ UNCHANGED <<lockVars, buf, head, tail, size, local>>

\* A snapshot, which changes nothing of the channel.
IsClosed(p) ==
    /\ ChanInside(p, "isClosed")
    /\ ReturnWith(p, Nothing)

-----------------------------------------------------------------------------
ChanMethod(p) ==
    \/ ChanUnderneath(p) \/ ChanCancelled(p) \/ Wait(p)
    \/ SendClosed(p) \/ TrySendRefused(p) \/ Store(p) \/ AdvanceTail(p)
    \/ ReceiveDrained(p) \/ TryReceiveEmpty(p) \/ Take(p) \/ AdvanceHead(p)
    \/ Close(p) \/ IsClosed(p)
    \/ ChanNotify(p) \/ Finish(p)

\* What happens to a caller, not by its own doing.
ChanEnvironment(p) == (Cancel(p) \/ SpuriousWake(p)) /\ UNCHANGED chanVars

ChanNext ==
    \/ \E p \in Callers : ChanMethod(p) \/ ChanEnvironment(p)
    \/ \E p \in Callers : \E o \in Offered[p], v \in Values \cup {Nothing} : ChanCall(p, o, v)

ChanSpec == ChanInit /\ [][ChanNext]_chanAll

-----------------------------------------------------------------------------
(* Correctness.                                                            *)

\* The channel goes by the lock's rules (release and wait only while holding
\* it), so that everything proved of LockSpec holds underneath it.
ChanKeepsLockRules == LockSpec

Items == [i \in 1..size |-> buf[(head + i - 1) % Capacity]]

Abstract == INSTANCE AbstractChannel WITH queue <- Items, shut <- closed

\* The ring buffer is a first-in first-out queue that loses, repeats and
\* reorders nothing, whoever is cancelled in the middle of what.
ImplementsChannel == Abstract!Spec

\* The caller would not wait again if it looked at the channel now.
CanProceed(p) == cpc[p] \in {"send", "receive"} /\ ~MustWait(p)

\* Nobody sleeps through his turn: a caller in condvarWait that could proceed
\* is about to be woken by one that holds the lock and has yet to notify.
ChanNoMissedWakeup ==
    \A p \in ToSet(cvq) \cup cvblocked :
        CanProceed(p) => \E q \in Callers : ChanInside(q, "notify")
=============================================================================
