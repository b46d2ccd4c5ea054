------------------------------ MODULE ReadySet ------------------------------
(***************************************************************************)
(* Readiness sets: io_set_add, io_set_remove, io_set_wait, io_set_destroy, *)
(* and what the reactor thread and io_close_fd do with a set's members, of *)
(* cajeta_rt_concurrent_exec.c.                                            *)
(*                                                                         *)
(* A step is one critical section of __cajeta_task_mutex, or epoll_wait.   *)
(* One fiber waits in a set and is named by it; any fiber may add members  *)
(* and remove them, and close a descriptor.  A member is on the reactor's  *)
(* waiter list exactly while it is armed.  Any wait may be a timed one:    *)
(* its deadline comes at a point of its own choosing, or never.            *)
(***************************************************************************)
EXTENDS Integers, FiniteSets, Sequences, SequencesExt, Subsequences

CONSTANTS Sets,
          Fds,         \* descriptor numbers
          Dirs,        \* CAJETA_IO_READ and CAJETA_IO_WRITE
          Watched,     \* Watched[s]: the descriptors and interests that may be added
          Cancellable, \* the sets whose fiber some scope may cancel
          Ring,        \* CAJETA_IO_SET_RING
          Caps,        \* the lengths of a caller's arrays
          MaxMembers   \* bound: the members of each set

ASSUME ReadySetAssumption ==
    /\ IsFiniteSet(Fds)
    /\ Watched \in [Sets -> SUBSET (Fds \X ((SUBSET Dirs) \ {{}}))]
    /\ Cancellable \subseteq Sets
    /\ Ring \in Nat \ {0}
    /\ Caps \subseteq Nat \ {0}
    /\ MaxMembers \in [Sets -> Nat]

VARIABLES members,     \* members[s], newest first
          ring,        \* ring[s]: the descriptors with an event to report
          known,       \* the sets whose s->parked is set
          parked,      \* the sets whose fiber is on the parked list
          inside,      \* the sets whose fiber is in io_set_wait
          open,        \* the descriptor numbers in use
          ready,       \* what each descriptor is ready for
          reg,         \* the armed interest in each descriptor; {}: disarmed
          batch        \* what epoll_wait has returned, until it is processed

setVars == <<members, ring>>
waitVars == <<known, parked, inside>>
kernelVars == <<open, ready, reg, batch>>
vars == <<setVars, waitVars, kernelVars>>

\* gone: history, its descriptor was closed under it; lost: history, its last
\* event met a full ring.
Members == [fd : Fds, ev : SUBSET Dirs, armed : BOOLEAN, dead : BOOLEAN, gone : BOOLEAN, lost : BOOLEAN]

\* A member as it is added, or added again: armed, unless its descriptor is closed.
NewMember(fd, ev) ==
    [fd |-> fd, ev |-> ev, armed |-> fd \in open, dead |-> FALSE, gone |-> fd \notin open, lost |-> FALSE]

TypeOK ==
    /\ members \in [Sets -> Seq(Members)]
    /\ ring \in [Sets -> Seq(Fds)] /\ \A s \in Sets : Len(ring[s]) <= Ring
    /\ known \subseteq Sets
    /\ parked \subseteq inside /\ inside \subseteq Sets
    /\ open \subseteq Fds
    /\ ready \in [Fds -> SUBSET Dirs]
    /\ reg \in [Fds -> SUBSET Dirs]
    /\ batch \in [Fds -> SUBSET Dirs]

Nothing == [fd \in Fds |-> {}]

Init ==
    /\ members = [s \in Sets |-> <<>>]
    /\ ring = [s \in Sets |-> <<>>]
    /\ known = {} /\ parked = {} /\ inside = {}
    /\ open = Fds
    /\ ready = Nothing /\ reg = Nothing /\ batch = Nothing

\* The interest of all members listed for the descriptor, in whatever set.
UnionEvents(ms, fd) ==
    UNION UNION {{m.ev : m \in {n \in ToSet(ms[s]) : n.fd = fd /\ n.armed}} : s \in Sets}

\* Arm each of the descriptors for what is listed; one that is closed fails.
Rearm(fds) ==
    reg' = [fd \in Fds |-> IF fd \notin fds THEN reg[fd]
                           ELSE IF fd \in open THEN UnionEvents(members', fd) ELSE {}]

-----------------------------------------------------------------------------
(* Membership.                                                             *)

Live(s, fd) == {i \in DOMAIN members[s] : members[s][i].fd = fd /\ ~members[s][i].dead}

\* A member has its interest replaced, and is armed, or armed anew.
Replace(s, fd, ev) ==
    /\ \E i \in Live(s, fd) : members' = [members EXCEPT ![s][i] = NewMember(fd, ev)]
    /\ Rearm({fd})
    /\ UNCHANGED <<ring, waitVars, open, ready, batch>>

AddAlone(s, fd, ev) == \* mutant: the newcomer's interest displaces that of the others
    /\ Live(s, fd) = {} /\ fd \in open /\ Len(members[s]) < MaxMembers[s]
    /\ members' = [members EXCEPT ![s] = <<NewMember(fd, ev)>> \o @]
    /\ reg' = [reg EXCEPT ![fd] = ev]
    /\ UNCHANGED <<ring, waitVars, open, ready, batch>>

\* A new member goes to the head of the list; if arming fails, it goes nowhere.
AddNew(s, fd, ev) ==
    /\ Live(s, fd) = {}
    /\ fd \in open
    /\ Len(members[s]) < MaxMembers[s]
    /\ members' = [members EXCEPT ![s] = <<NewMember(fd, ev)>> \o @]
    /\ Rearm({fd})
    /\ UNCHANGED <<ring, waitVars, open, ready, batch>>

Add(s, fd, ev) == Replace(s, fd, ev) \/ AddNew(s, fd, ev)

\* The newest member for the descriptor leaves, dead or not.
Unlink(s, fd) ==
    /\ \E i \in DOMAIN members[s] :
          /\ members[s][i].fd = fd
          /\ \A j \in 1..(i - 1) : members[s][j].fd # fd
          /\ members' = [members EXCEPT ![s] = RemoveAt(@, i)]
          /\ Rearm(IF members[s][i].armed THEN {fd} ELSE {})
    /\ UNCHANGED <<waitVars, open, ready, batch>>

UnlinkOnly(s, fd) ==   \* mutant: the records of the member stay
    Unlink(s, fd) /\ UNCHANGED ring

\* ... and its records with it.
RemoveMember(s, fd) ==
    /\ Unlink(s, fd)
    /\ ring' = [ring EXCEPT ![s] = Subsequence(@, {i \in DOMAIN @ : @[i] # fd})]

\* close(): all members are dropped.  The handle is null from then on, and a new
\* set is like the one that was never used.
Destroy(s) ==
    /\ s \notin inside
    /\ members' = [members EXCEPT ![s] = <<>>]
    /\ ring' = [ring EXCEPT ![s] = <<>>]
    /\ Rearm({m.fd : m \in {n \in ToSet(members[s]) : n.armed}})
    /\ UNCHANGED <<waitVars, open, ready, batch>>

-----------------------------------------------------------------------------
(* The wait.                                                               *)

\* With events in the ring, return as many as the arrays take; with none, return
\* if the deadline has passed, or park.
Look(s) ==
    \/ /\ ring[s] # <<>>
       /\ \E n \in Caps : ring' = [ring EXCEPT ![s] = SubSeq(@, n + 1, Len(@))]
       /\ known' = known \ {s}
       /\ inside' = inside \ {s}
       /\ UNCHANGED parked
    \/ /\ ring[s] = <<>>
       /\ known' = known \ {s}
       /\ inside' = inside \ {s}
       /\ UNCHANGED <<ring, parked>>
    \/ /\ ring[s] = <<>>
       /\ known' = known \cup {s}
       /\ inside' = inside \cup {s}
       /\ parked' = parked \cup {s}
       /\ UNCHANGED ring

ToArm(m) == ~m.armed /\ ~m.dead /\ m.fd \in open

Arm(m) == IF ToArm(m) THEN [m EXCEPT !.armed = TRUE, !.lost = FALSE] ELSE m

\* Arm the members that have fired since the last wait, and look.
Wait(s) ==
    /\ s \notin inside
    /\ members' = [members EXCEPT ![s] = [i \in DOMAIN @ |-> Arm(@[i])]]
    /\ Rearm({m.fd : m \in {n \in ToSet(members[s]) : ToArm(n)}})
    /\ Look(s)
    /\ UNCHANGED <<open, ready, batch>>

Woken(s) == s \in inside \ parked

ResumeAndPark(s) ==    \* mutant: a fiber that is woken early does not look again
    /\ Woken(s)
    /\ parked' = parked \cup {s}
    /\ known' = known \cup {s}
    /\ UNCHANGED <<members, ring, inside, kernelVars>>

\* Woken by an event, by the deadline, or a task that completed and wakes them all.
Resume(s) ==
    /\ Woken(s)
    /\ Look(s)
    /\ UNCHANGED <<members, kernelVars>>

ResumeCancelled(s) ==
    /\ Woken(s)
    /\ s \in Cancellable
    /\ known' = known \ {s}
    /\ inside' = inside \ {s}
    /\ UNCHANGED <<setVars, parked, kernelVars>>

-----------------------------------------------------------------------------
(* The reactor thread and io_close_fd.                                     *)

Due(fd) == reg[fd] \cap ready[fd]

\* epoll_wait returns what is armed and ready, both directions for an error, and
\* EPOLLONESHOT disarms it.
EpollWait ==
    /\ batch = Nothing
    /\ \E fd \in Fds : Due(fd) # {}
    /\ batch' \in [Fds -> SUBSET Dirs]
    /\ \A fd \in Fds :
          \/ batch'[fd] = Due(fd)
          \/ Due(fd) # {} /\ ready[fd] = Dirs /\ batch'[fd] = Dirs
    /\ reg' = [fd \in Fds |-> IF Due(fd) = {} THEN reg[fd] ELSE {}]
    /\ UNCHANGED <<setVars, waitVars, open, ready>>

Unbounded(q) == q      \* mutant: no test for a full ring

Fits(q) == SubSeq(q, 1, Min({Ring, Len(q)}))

\* A member that is listed, and waits for one of the events.
Hit(events, m) == m.armed /\ m.ev \cap events[m.fd] # {}

HitIn(events, s) == {m.fd : m \in {n \in ToSet(members[s]) : Hit(events, n)}}

\* What the ring would hold with room for all: the hits in the order of q after the rest.
Reports(events, q, s) == ring[s] \o Subsequence(q, {i \in DOMAIN q : q[i] \in HitIn(events, s)})

\* A member that is hit is unlisted, and dead if its descriptor is being closed.
After(events, q, closed, s, m) ==
    LET gone == m.gone \/ m.fd \in closed
        all == Reports(events, q, s)
        lost == m.fd \in ToSet(SubSeq(all, Ring + 1, Len(all)))
    IN  IF Hit(events, m)
        THEN [m EXCEPT !.armed = FALSE, !.dead = m.fd \in closed, !.gone = gone, !.lost = lost]
        ELSE [m EXCEPT !.gone = gone]

\* Unlist the members that the events hit, put their descriptors in the rings as far as
\* there is room, and wake the fibers that their sets know to be parked.
Record(events, q, closed) ==
    LET told == {s \in known \cap parked : HitIn(events, s) # {}}
    IN  /\ members' = [s \in Sets |-> [i \in DOMAIN members[s] |-> After(events, q, closed, s, members[s][i])]]
        /\ ring' = [s \in Sets |-> Fits(Reports(events, q, s))]
        /\ parked' = parked \ told
        /\ known' = known \ told
        /\ UNCHANGED inside

\* The events are processed in the order of the kernel's list, and each descriptor
\* is armed again for the members that did not match.
Process ==
    /\ batch # Nothing
    /\ LET fired == {fd \in Fds : batch[fd] # {}}
       IN  /\ \E q \in Bijection(1..Cardinality(fired), fired) : Record(batch, q, {})
           /\ Rearm(fired)
    /\ batch' = Nothing
    /\ UNCHANGED <<open, ready>>

\* The members that are listed are dead and reported; then the descriptor is closed.
CloseFd(fd) ==
    /\ fd \in open
    /\ Record([Nothing EXCEPT ![fd] = Dirs], <<fd>>, {fd})
    /\ open' = open \ {fd}
    /\ ready' = [ready EXCEPT ![fd] = {}]
    /\ reg' = [reg EXCEPT ![fd] = {}]
    /\ UNCHANGED batch

-----------------------------------------------------------------------------
(* The environment.                                                        *)

\* The number is given to another descriptor.
Reuse(fd) ==
    /\ fd \notin open
    /\ open' = open \cup {fd}
    /\ UNCHANGED <<setVars, waitVars, ready, reg, batch>>

Arrive(fd, d) ==
    /\ fd \in open /\ d \notin ready[fd]
    /\ ready' = [ready EXCEPT ![fd] = @ \cup {d}]
    /\ UNCHANGED <<setVars, waitVars, open, reg, batch>>

Consume(fd) ==
    /\ ready[fd] # {}
    /\ ready' = [ready EXCEPT ![fd] = {}]
    /\ UNCHANGED <<setVars, waitVars, open, reg, batch>>

\* The timer thread takes the fiber off the parked list, or a task that completes.
Wake(s) ==
    /\ s \in parked
    /\ parked' = parked \ {s}
    /\ UNCHANGED <<setVars, known, inside, kernelVars>>

-----------------------------------------------------------------------------
Membership(s) ==
    \/ \E w \in Watched[s] : Add(s, w[1], w[2])
    \/ \E fd \in Fds : RemoveMember(s, fd)
    \/ Destroy(s)

Waiting(s) == Resume(s) \/ ResumeCancelled(s)

Environment ==
    \/ \E fd \in Fds : Reuse(fd) \/ Consume(fd) \/ \E d \in Dirs : Arrive(fd, d)
    \/ \E s \in Sets : Wake(s)

Next ==
    \/ \E s \in Sets : Membership(s) \/ Wait(s) \/ Waiting(s)
    \/ EpollWait \/ Process
    \/ \E fd \in Fds : CloseFd(fd)
    \/ Environment

Spec == Init /\ [][Next]_vars

\* The reactor thread keeps running, and so does a fiber that is woken.
FairSpec ==
    /\ Spec
    /\ WF_vars(EpollWait) /\ WF_vars(Process)
    /\ \A s \in Sets : WF_vars(Waiting(s))

-----------------------------------------------------------------------------
(* Correctness.                                                            *)

\* A set never reports a descriptor that is not, or no longer, a member of it,
\* whatever fires while members come and go.
EventsBelong ==
    \A s \in Sets : ToSet(ring[s]) \subseteq {m.fd : m \in ToSet(members[s])}

\* The descriptor is armed for the member, or will be when its event is processed.
Attended(m) == m.armed /\ (m.ev \subseteq reg[m.fd] \/ batch[m.fd] # {})

\* A set knows its fiber for as long as the fiber may be parked in it and no longer
\* than the wait, so that no later event wakes it out of a wait for something else;
\* and a fiber is parked only with nothing to report and all members attended: through
\* the other sets' arming and firing on the same descriptor, early wakes, closing, and
\* changes of the membership while it waits.  Excepted are members whose descriptor
\* was closed, and those whose event met a full ring that removals then emptied
\* before the fiber looked again.
ParkedIsAttended ==
    /\ known \subseteq inside
    /\ \A s \in parked :
          /\ s \in known
          /\ ring[s] = <<>>
          /\ \A m \in ToSet(members[s]) : m.gone \/ m.lost \/ Attended(m)

HasReady(s) == \E m \in ToSet(members[s]) : ~m.gone /\ ~m.lost /\ m.ev \cap ready[m.fd] # {}

\* A wait in a set with a member that is ready, and stays so, returns.
WaitReturns == \A s \in Sets : s \in inside /\ HasReady(s) ~> s \notin inside \/ ~HasReady(s)
=============================================================================
