-------------------------- MODULE AbstractChannel --------------------------
(***************************************************************************)
(* What Channel<T> promises its callers: a bounded first-in first-out      *)
(* queue that is closed once and for all.  A send lands whole or not at    *)
(* all, an item goes to one receiver, and a blocking receive comes back    *)
(* empty-handed only from a channel that is closed and drained.            *)
(***************************************************************************)
EXTENDS Naturals, Sequences

CONSTANTS Callers, Values, Capacity,
          Nothing, Raised, Refused, End      \* results that are no item

VARIABLES queue,     \* the items sent and not yet received, oldest first
          shut,      \* the channel has been closed
          result     \* what each caller's call is about to return

vars == <<queue, shut, result>>

Init ==
    /\ queue = <<>>
    /\ shut = FALSE
    /\ result = [p \in Callers |-> Nothing]

Gets(p, r) == result' = [result EXCEPT ![p] = r]

Send(v) ==
    /\ ~shut
    /\ Len(queue) < Capacity
    /\ queue' = Append(queue, v)
    /\ UNCHANGED <<shut, result>>

Receive(p) ==
    /\ queue # <<>>
    /\ Gets(p, Head(queue))
    /\ queue' = Tail(queue)
    /\ UNCHANGED shut

SendRaises(p) == shut /\ Gets(p, Raised) /\ UNCHANGED <<queue, shut>>

TrySendFails(p) ==
    /\ shut \/ Len(queue) = Capacity
    /\ Gets(p, Refused)
    /\ UNCHANGED <<queue, shut>>

ReceiveEnds(p) ==
    /\ shut /\ queue = <<>>
    /\ Gets(p, End)
    /\ UNCHANGED <<queue, shut>>

TryReceiveFails(p) ==
    /\ queue = <<>>
    /\ Gets(p, Refused)
    /\ UNCHANGED <<queue, shut>>

\* The call returns its result, and that is the end of it.
Return(p) == Gets(p, Nothing) /\ UNCHANGED <<queue, shut>>

Close == shut' = TRUE /\ UNCHANGED <<queue, result>>

Next ==
    \/ Close
    \/ \E v \in Values : Send(v)
    \/ \E p \in Callers :
          \/ Receive(p) \/ ReceiveEnds(p) \/ TryReceiveFails(p)
          \/ SendRaises(p) \/ TrySendFails(p) \/ Return(p)

Spec == Init /\ [][Next]_vars
=============================================================================
