-------------------------- MODULE CarrierPoolProofs --------------------------
(***************************************************************************)
(* For any number of carriers and any tree of tasks: a fiber is in one     *)
(* place at a time, is resumed only at home and after its swap, and a      *)
(* parked one waits for a task that is not done; whatever is stolen, woken *)
(* too early or shut down.                                                 *)
(***************************************************************************)
EXTENDS CarrierPool, FiniteSetTheorems, TLAPS

(***************************************************************************)
(* The inductive invariant.  It says for each carrier what its registers   *)
(* hold at each point of its loop, for each queue what is in it, and for   *)
(* each fiber where it is.                                                 *)
(***************************************************************************)

InDeque(f)  == \E c \in Carriers : f \in ToSet(deque[c])
InPub(f)    == \E p \in Threads : f \in ToSet(pub[p])
InHands(f)  == \E c \in Carriers : got[c] = f
InParked(f) == f \in ToSet(parked)

HasFiber == {"run", "publish", "signal", "swap", "retire"}
Stealing == {"cas", "pushback", "broadcast"}

\* What the carrier runs, and in which state of the fiber.
Runs(c) ==
    /\ cur[c] # None <=> pc[c] \in HasFiber
    /\ pc[c] \in {"run", "publish", "signal"} => st[cur[c]] = "RUNNING"
    /\ pc[c] = "swap" => st[cur[c]] \in {"READY", "PARKED"}
    /\ pc[c] = "retire" => st[cur[c]] = "DONE"
    /\ cur[c] # None => home[cur[c]] = c

\* What it has in its hands between a deque and the fiber's dispatch or return.
Carries(c) ==
    /\ got[c] # None <=> pc[c] \in {"dispatch", "pushback"}
    /\ got[c] # None => st[got[c]] = "READY"
    /\ pc[c] = "dispatch" => home[got[c]] \in {None, c}
    /\ pc[c] = "pushback" => home[got[c]] \in Carriers

\* A thief has not been round all its peers, and the victim still has what the
\* thief saw unless its top has moved.
Steals(c) ==
    /\ pc[c] \in Stealing => step[c] < N - 1
    /\ pc[c] = "cas" /\ ~lost[c] => deque[Victim(c)] # <<>>

\* What a thread publishes; the program thread starts the carriers first.
Publishes(p) ==
    /\ pub[p] # <<>> => pc[p] \in {"publish", "signal"}
    /\ pc[p] = "publish" => pub[p] # <<>>
    /\ \A f \in ToSet(pub[p]) : st[f] \in {"READY", "PARKED"}
    /\ p \in Carriers /\ ~started => pc[p] = "off"
    /\ pc[p] \in (IF p = Main THEN MainPcs ELSE CarrierPcs)

\* A deque holds fibers that are ready, its own or not started yet.
Queues(c) == \A f \in ToSet(deque[c]) : st[f] = "READY" /\ home[f] \in {None, c}

Parks == \A f \in ToSet(parked) : st[f] = "PARKED" /\ await[f] # None /\ ~done[await[f]]

\* A fiber that has run knows its home, and its context is saved there unless it
\* is still on its way out.
Fiber(f) ==
    /\ st[f] = "new" => home[f] = None
    /\ home[f] = None => st[f] \in {"new", "READY"}
    /\ st[f] \in {"READY", "PARKED"} /\ home[f] # None => saved[f] \/ cur[home[f]] = f
    /\ st[f] = "READY" => InDeque(f) \/ InPub(f) \/ InHands(f)
    /\ st[f] = "PARKED" => InParked(f) \/ InPub(f)
    /\ st[f] = "RUNNING" => \E c \in Carriers : cur[c] = f

\* Nothing is twice in a queue ...
Once ==
    /\ \A c \in Carriers : IsInjective(deque[c])
    /\ \A p \in Threads : IsInjective(pub[p])
    /\ IsInjective(parked)

\* ... or in two places.
Apart ==
    \A c, d \in Carriers : \A f \in Fibers :
        /\ f \in ToSet(deque[c]) /\ f \in ToSet(deque[d]) => c = d
        /\ got[c] = f /\ got[d] = f => c = d
        /\ got[c] = f => f \notin ToSet(deque[d])

PubApart ==
    \A p \in Threads : \A f \in ToSet(pub[p]) :
        /\ \A q \in Threads : f \in ToSet(pub[q]) => p = q
        /\ ~InDeque(f) /\ ~InHands(f) /\ ~InParked(f)

PoolInv ==
    /\ TypeOK
    /\ \A c \in Carriers : Runs(c) /\ Carries(c) /\ Steals(c) /\ Queues(c)
    /\ \A p \in Threads : Publishes(p)
    /\ \A f \in Fibers : Fiber(f)
    /\ Parks
    /\ Once /\ Apart /\ PubApart

-----------------------------------------------------------------------------
(* Queues.                                                                 *)

\* A queue that grows at its end.
LEMMA Appended ==
    ASSUME NEW q \in Seq(Fibers), NEW f \in Fibers
    PROVE  /\ Append(q, f) \in Seq(Fibers) /\ Append(q, f) # <<>>
           /\ ToSet(Append(q, f)) = ToSet(q) \cup {f}
           /\ IsInjective(q) /\ f \notin ToSet(q) => IsInjective(Append(q, f))
  <1>1. /\ Len(q) \in Nat /\ DOMAIN q = 1..Len(q)
        /\ Append(q, f) \in Seq(Fibers) /\ Append(q, f) # <<>>
        /\ DOMAIN Append(q, f) = 1..(Len(q) + 1)
        /\ \A i \in 1..Len(q) : Append(q, f)[i] = q[i]
        /\ Append(q, f)[Len(q) + 1] = f
    OBVIOUS
  <1>2. ToSet(Append(q, f)) \subseteq ToSet(q) \cup {f}
    BY <1>1 DEF ToSet
  <1>3. ToSet(q) \cup {f} \subseteq ToSet(Append(q, f))
    BY <1>1 DEF ToSet
  <1>4. ASSUME IsInjective(q), f \notin ToSet(q) PROVE IsInjective(Append(q, f))
    <2>1. \A i \in DOMAIN q : q[i] # f
      BY <1>4 DEF ToSet
    <2> QED BY <1>1, <1>4, <2>1 DEF IsInjective
  <1> QED BY <1>1, <1>2, <1>3, <1>4

\* ... or at its front.
LEMMA Prepended ==
    ASSUME NEW q \in Seq(Fibers), NEW f \in Fibers
    PROVE  /\ <<f>> \o q \in Seq(Fibers)
           /\ ToSet(<<f>> \o q) = ToSet(q) \cup {f}
           /\ IsInjective(q) /\ f \notin ToSet(q) => IsInjective(<<f>> \o q)
  <1> DEFINE r == <<f>> \o q
  <1>1. /\ Len(q) \in Nat /\ DOMAIN q = 1..Len(q)
        /\ r \in Seq(Fibers) /\ DOMAIN r = 1..(Len(q) + 1)
        /\ r[1] = f /\ \A i \in 1..Len(q) : r[i + 1] = q[i]
    OBVIOUS
  <1>2. \A j \in DOMAIN r : j # 1 => j - 1 \in 1..Len(q) /\ r[j] = q[j - 1]
    BY <1>1
  <1> HIDE DEF r
  <1>3. ToSet(r) \subseteq ToSet(q) \cup {f}
    BY <1>1, <1>2 DEF ToSet
  <1>4. ToSet(q) \cup {f} \subseteq ToSet(r)
    <2>1. \A i \in 1..Len(q) : i + 1 \in DOMAIN r /\ 1 \in DOMAIN r
      BY <1>1
    <2>2. 1 \in DOMAIN r
      BY <1>1
    <2> QED BY <1>1, <2>1, <2>2 DEF ToSet
  <1>5. ASSUME IsInjective(q), f \notin ToSet(q) PROVE IsInjective(r)
    <2>1. \A i \in DOMAIN q : q[i] # f
      BY <1>5 DEF ToSet
    <2> QED BY <1>1, <1>2, <1>5, <2>1 DEF IsInjective
  <1> QED BY <1>1, <1>3, <1>4, <1>5 DEF r

\* Taking the first.
LEMMA Headed ==
    ASSUME NEW q \in Seq(Fibers), q # <<>>, IsInjective(q)
    PROVE  /\ Tail(q) \in Seq(Fibers) /\ IsInjective(Tail(q))
           /\ Head(q) \in ToSet(q)
           /\ ToSet(Tail(q)) = ToSet(q) \ {Head(q)}
  <1>1. /\ Len(q) \in Nat \ {0} /\ DOMAIN q = 1..Len(q)
        /\ Tail(q) \in Seq(Fibers)
        /\ DOMAIN Tail(q) = 1..(Len(q) - 1)
        /\ \A i \in 1..(Len(q) - 1) : Tail(q)[i] = q[i + 1]
        /\ Head(q) = q[1]
    OBVIOUS
  <1>2. IsInjective(Tail(q))
    BY <1>1 DEF IsInjective
  <1>3. Head(q) \in ToSet(q)
    BY <1>1 DEF ToSet
  <1>4. ToSet(Tail(q)) \subseteq ToSet(q) \ {Head(q)}
    BY <1>1 DEF ToSet, IsInjective
  <1>5. ASSUME NEW x \in ToSet(q), x # Head(q) PROVE x \in ToSet(Tail(q))
    <2>1. PICK i \in 1..Len(q) : q[i] = x
      BY <1>1 DEF ToSet
    <2>2. i - 1 \in 1..(Len(q) - 1) /\ Tail(q)[i - 1] = x
      BY <1>1, <1>5, <2>1
    <2> QED BY <1>1, <2>2 DEF ToSet
  <1> QED BY <1>1, <1>2, <1>3, <1>4, <1>5

\* Taking the last.
LEMMA Lasted ==
    ASSUME NEW q \in Seq(Fibers), q # <<>>, IsInjective(q)
    PROVE  /\ Front(q) \in Seq(Fibers) /\ IsInjective(Front(q))
           /\ Last(q) \in ToSet(q)
           /\ ToSet(Front(q)) = ToSet(q) \ {Last(q)}
           /\ Front(q) = <<>> => Len(q) = 1
  <1>1. /\ Len(q) \in Nat \ {0} /\ DOMAIN q = 1..Len(q)
        /\ Front(q) \in Seq(Fibers)
        /\ DOMAIN Front(q) = 1..(Len(q) - 1)
        /\ \A i \in 1..(Len(q) - 1) : Front(q)[i] = q[i]
        /\ Last(q) = q[Len(q)]
        /\ Len(Front(q)) = Len(q) - 1
    <2>1. Len(q) \in Nat \ {0} /\ DOMAIN q = 1..Len(q)
      OBVIOUS
    <2>2. 1 \in 1..(Len(q) + 1) /\ Len(q) - 1 \in 0..Len(q)
      BY <2>1
    <2>3. /\ SubSeq(q, 1, Len(q) - 1) \in Seq(Fibers)
          /\ Len(SubSeq(q, 1, Len(q) - 1)) = Len(q) - 1
          /\ \A i \in 1..(Len(q) - 1) : SubSeq(q, 1, Len(q) - 1)[i] = q[i]
      BY <2>1, <2>2
    <2> QED BY <2>1, <2>3 DEF Front, Last
  <1>2. IsInjective(Front(q))
    BY <1>1 DEF IsInjective
  <1>3. Last(q) \in ToSet(q)
    BY <1>1 DEF ToSet
  <1>4. ToSet(Front(q)) \subseteq ToSet(q) \ {Last(q)}
    BY <1>1 DEF ToSet, IsInjective
  <1>5. ASSUME NEW x \in ToSet(q), x # Last(q) PROVE x \in ToSet(Front(q))
    <2>1. PICK i \in 1..Len(q) : q[i] = x
      BY <1>1 DEF ToSet
    <2>2. i \in 1..(Len(q) - 1) /\ Front(q)[i] = x
      BY <1>1, <1>5, <2>1
    <2> QED BY <1>1, <2>2 DEF ToSet
  <1>6. ASSUME Front(q) = <<>> PROVE Len(q) = 1
    <2>1. Len(Front(q)) = 0
      BY <1>6
    <2>2. Len(Front(q)) = Len(q) - 1 /\ Len(q) \in Nat
      BY <1>1
    <2> QED BY <2>1, <2>2
  <1> QED BY <1>1, <1>2, <1>3, <1>4, <1>5, <1>6

\* A queue with nothing or one fiber in it.
LEMMA Short ==
    /\ ToSet(<<>>) = {} /\ IsInjective(<<>>) /\ <<>> \in Seq(Fibers)
    /\ \A f \in Fibers :
          /\ <<f>> \in Seq(Fibers) /\ <<f>> # <<>>
          /\ ToSet(<<f>>) = {f} /\ IsInjective(<<f>>)
  BY DEF ToSet, IsInjective

\* Whoever is in a queue is a fiber, and then the queue is not empty.
LEMMA Queued ==
    ASSUME NEW q \in Seq(Fibers)
    PROVE  ToSet(q) \subseteq Fibers /\ (q = <<>> <=> ToSet(q) = {})
  <1>1. Len(q) \in Nat /\ DOMAIN q = 1..Len(q) /\ \A i \in DOMAIN q : q[i] \in Fibers
    OBVIOUS
  <1>2. q = <<>> => ToSet(q) = {}
    BY Short
  <1>3. q # <<>> => 1 \in DOMAIN q
    BY <1>1
  <1> QED BY <1>1, <1>2, <1>3 DEF ToSet

-----------------------------------------------------------------------------
(* What the invariant says of a single step.                               *)

LEMMA Constants ==
    /\ 0 \in Carriers /\ Main \notin Carriers /\ None \notin Carriers /\ None \notin Fibers
    /\ Main \notin Fibers /\ Threads = Carriers \cup {Main} /\ N - 1 \in Nat
    /\ Main \in Threads /\ \A c \in Carriers : c \in Threads
  BY PoolAssumption DEF Carriers, Threads

LEMMA VictimRange ==
    ASSUME NEW c \in Carriers, step[c] \in 0..(N - 1)
    PROVE  Victim(c) \in Carriers
  <1>1. c + 1 + step[c] \in Int /\ N \in Nat \ {0}
    BY PoolAssumption DEF Carriers
  <1>2. \A i \in Int : i % N \in 0..(N - 1)
    BY <1>1
  <1> QED BY <1>1, <1>2 DEF Victim, Carriers

\* The two counters of a carrier stay in their ranges.
LEMMA Counters ==
    ASSUME PoolInv, NEW c \in Carriers
    PROVE  /\ step[c] \in 0..(N - 1) /\ 0 \in 0..(N - 1)
           /\ step[c] # N - 1 => step[c] + 1 \in 0..(N - 1)
           /\ pc[c] \in Stealing => step[c] # N - 1
           /\ Victim(c) \in Carriers
           /\ 0 \in 0..MaxPinnedRounds
           /\ pinned[c] < MaxPinnedRounds => pinned[c] + 1 \in 0..MaxPinnedRounds
  <1>1. step[c] \in 0..(N - 1) /\ pinned[c] \in 0..MaxPinnedRounds
    BY DEF PoolInv, TypeOK
  <1>2. pc[c] \in Stealing => step[c] < N - 1
    BY DEF PoolInv, Steals
  <1>3. N - 1 \in Nat
    BY Constants
  <1>4. pinned[c] < MaxPinnedRounds => pinned[c] + 1 \in 0..MaxPinnedRounds
    BY <1>1 DEF MaxPinnedRounds
  <1>5. /\ 0 \in 0..(N - 1)
        /\ step[c] # N - 1 => step[c] + 1 \in 0..(N - 1)
        /\ step[c] < N - 1 => step[c] # N - 1
    BY <1>1, <1>3
  <1> QED BY <1>1, <1>2, <1>4, <1>5, VictimRange DEF MaxPinnedRounds

\* What the registers and the queues hold are fibers.
Ranges ==
    /\ \A c \in Carriers : cur[c] \in Fibers \cup {None} /\ got[c] \in Fibers \cup {None}
    /\ \A c \in Carriers : deque[c] \in Seq(Fibers) /\ ToSet(deque[c]) \subseteq Fibers
    /\ \A p \in Threads : pub[p] \in Seq(Fibers) /\ ToSet(pub[p]) \subseteq Fibers
    /\ parked \in Seq(Fibers) /\ ToSet(parked) \subseteq Fibers
    /\ \A f \in Fibers : home[f] \in Carriers \cup {None}

LEMMA InRange == TypeOK => Ranges
  BY Queued DEF TypeOK, Ranges

\* One entry of a function changes, and no other.
LEMMA Changed ==
    ASSUME NEW S, NEW T, NEW F \in [S -> T], NEW x \in S, NEW y, NEW G, G = [F EXCEPT ![x] = y]
    PROVE  G[x] = y /\ \A z \in S : z # x => G[z] = F[z]
  OBVIOUS

\* A carrier's current fiber is nobody else's; one that is neither ready nor parked
\* is in no queue.
LEMMA Current ==
    ASSUME PoolInv, NEW c \in Carriers, pc[c] \in HasFiber
    PROVE  /\ cur[c] \in Fibers /\ home[cur[c]] = c
           /\ \A d \in Carriers : cur[d] = cur[c] => d = c
  <1>1. \A d \in Carriers : Runs(d) /\ cur[d] \in Fibers \cup {None}
    BY DEF PoolInv, TypeOK
  <1>2. cur[c] # None /\ home[cur[c]] = c
    BY <1>1 DEF Runs
  <1> QED BY <1>1, <1>2 DEF Runs

LEMMA Nowhere ==
    ASSUME PoolInv, NEW f \in Fibers, st[f] \notin {"READY", "PARKED"}
    PROVE  ~InDeque(f) /\ ~InPub(f) /\ ~InHands(f) /\ ~InParked(f)
  <1>1. ~InDeque(f)
    BY DEF PoolInv, Queues, InDeque
  <1>2. ~InPub(f)
    BY DEF PoolInv, Publishes, InPub
  <1>3. ~InHands(f)
    BY Constants DEF PoolInv, Carries, InHands
  <1>4. ~InParked(f)
    BY DEF PoolInv, Parks, InParked
  <1> QED BY <1>1, <1>2, <1>3, <1>4

\* What moves no fiber leaves every fiber in its place.
LEMMA Stays ==
    ASSUME Once, Apart, PubApart, UNCHANGED <<deque, got, pub, parked>>
    PROVE  Once' /\ Apart' /\ PubApart'
  BY DEF Once, Apart, PubApart, InDeque, InHands, InParked

-----------------------------------------------------------------------------
(* The steps of a running fiber.                                           *)

\* task_wait: the task is not done, the fiber parks ...
LEMMA ParkInv ==
    ASSUME PoolInv, NEW c \in Carriers, NEW g \in Fibers, Wait(c, g), ~done[g]
    PROVE  PoolInv'
  <1> DEFINE f == cur[c]
  <1>0. TypeOK /\ Ranges
    BY InRange DEF PoolInv
  <1>1. /\ pc[c] = "run" /\ pc' = [pc EXCEPT ![c] = "swap"]
        /\ await' = [await EXCEPT ![f] = g]
        /\ st' = [st EXCEPT ![f] = "PARKED"]
        /\ parked' = <<f>> \o parked
        /\ UNCHANGED <<home, saved, done, joined, deque, signalled, started, shutdown, cur, got,
                       pub, step, lost, pinned>>
    BY DEF Wait, Goto
  <1>2. /\ f \in Fibers /\ home[f] = c /\ st[f] = "RUNNING"
        /\ c \in Threads /\ c # Main
        /\ \A d \in Carriers : cur[d] = f => d = c
        /\ ~InDeque(f) /\ ~InPub(f) /\ ~InHands(f) /\ ~InParked(f)
    <2>1. pc[c] \in HasFiber /\ c \in Threads /\ c # Main
      BY <1>1, Constants DEF HasFiber
    <2>2. f \in Fibers /\ home[f] = c /\ \A d \in Carriers : cur[d] = f => d = c
      BY <2>1, Current
    <2>3. st[f] = "RUNNING"
      BY <1>1 DEF PoolInv, Runs
    <2>4. ~InDeque(f) /\ ~InPub(f) /\ ~InHands(f) /\ ~InParked(f)
      BY <2>2, <2>3, Nowhere
    <2> QED BY <2>1, <2>2, <2>3, <2>4
  <1>p. parked' \in Seq(Fibers) /\ ToSet(parked') = ToSet(parked) \cup {f} /\ IsInjective(parked')
    BY <1>0, <1>1, <1>2, Prepended DEF PoolInv, Once, InParked, Ranges
  <1>t. TypeOK'
    BY <1>0, <1>1, <1>2, <1>p DEF TypeOK, CarrierPcs
  <1>c. /\ pc'[c] = "swap" /\ \A p \in Threads : p # c => pc'[p] = pc[p]
        /\ st'[f] = "PARKED" /\ \A h \in Fibers : h # f => st'[h] = st[h]
        /\ await'[f] = g /\ \A h \in Fibers : h # f => await'[h] = await[h]
    BY <1>0, <1>1, <1>2 DEF TypeOK
  <1>m. /\ PubApart /\ UNCHANGED <<deque, got, pub>> /\ ~InPub(f)
        /\ ToSet(parked') = ToSet(parked) \cup {f}
    BY <1>1, <1>2, <1>p DEF PoolInv
  <1>12. PubApart'
    BY <1>m DEF PubApart, InDeque, InPub, InHands, InParked
  <1> USE <1>0, <1>2, Constants DEF Ranges
  <1> USE <1>p
  <1>3. \A d \in Carriers : Runs(d)'
    BY <1>1, <1>c DEF PoolInv, Runs, HasFiber
  <1>4. \A d \in Carriers : Carries(d)'
    BY <1>1, <1>c DEF PoolInv, Carries, InHands
  <1>5. \A d \in Carriers : Steals(d)'
    BY <1>1, <1>c DEF PoolInv, Steals, Stealing, Victim
  <1>6. \A d \in Carriers : Queues(d)'
    BY <1>1, <1>c DEF PoolInv, Queues, InDeque
  <1>7. \A q \in Threads : Publishes(q)'
    BY <1>1, <1>c DEF PoolInv, Publishes, InPub, CarrierPcs
  <1>8. \A h \in Fibers : Fiber(h)'
    BY <1>1, <1>c DEF PoolInv, Fiber, InDeque, InPub, InHands, InParked
  <1>9. Parks'
    BY <1>1, <1>c DEF PoolInv, Parks, InParked
  <1>10. Once'
    BY <1>1, <1>c DEF PoolInv, Once
  <1>11. Apart'
    BY <1>1, <1>c DEF PoolInv, Apart, InDeque, InPub, InHands, InParked
  <1> QED BY <1>t, <1>3, <1>4, <1>5, <1>6, <1>7, <1>8, <1>9, <1>10, <1>11, <1>12 DEF PoolInv

\* ... or it is, and the fiber goes on.
LEMMA JoinInv ==
    ASSUME PoolInv, NEW c \in Carriers, NEW g \in Fibers, Wait(c, g), done[g]
    PROVE  PoolInv'
  <1> DEFINE f == cur[c]
  <1>0. TypeOK /\ Ranges
    BY InRange DEF PoolInv
  <1>1. /\ pc[c] = "run"
        /\ await' = [await EXCEPT ![f] = None] /\ joined' = joined \cup {g}
        /\ UNCHANGED <<st, home, saved, done, poolVars, threadVars>>
    BY DEF Wait, poolVars, threadVars
  <1>2. /\ f \in Fibers /\ home[f] = c /\ st[f] = "RUNNING"
        /\ c \in Threads /\ c # Main
        /\ \A d \in Carriers : cur[d] = f => d = c
        /\ ~InDeque(f) /\ ~InPub(f) /\ ~InHands(f) /\ ~InParked(f)
    <2>1. pc[c] \in HasFiber /\ c \in Threads /\ c # Main
      BY <1>1, Constants DEF HasFiber
    <2>2. f \in Fibers /\ home[f] = c /\ \A d \in Carriers : cur[d] = f => d = c
      BY <2>1, Current
    <2>3. st[f] = "RUNNING"
      BY <1>1 DEF PoolInv, Runs
    <2>4. ~InDeque(f) /\ ~InPub(f) /\ ~InHands(f) /\ ~InParked(f)
      BY <2>2, <2>3, Nowhere
    <2> QED BY <2>1, <2>2, <2>3, <2>4
  <1>t. TypeOK'
    BY <1>0, <1>1, <1>2 DEF TypeOK, poolVars, threadVars
  <1>c. /\ \A h \in Fibers : h # f => await'[h] = await[h]
        /\ UNCHANGED <<st, home, saved, done, deque, parked, started, pc, cur, got, pub, step, lost>>
    BY <1>0, <1>1, <1>2 DEF TypeOK, poolVars, threadVars
  <1>q. Once' /\ Apart' /\ PubApart'
    BY <1>1, <1>c, Stays DEF PoolInv
  <1> USE <1>0, <1>2, Constants DEF Ranges
  <1>3. \A d \in Carriers : Runs(d)'
    BY <1>1, <1>c DEF PoolInv, Runs, HasFiber
  <1>4. \A d \in Carriers : Carries(d)'
    BY <1>1, <1>c DEF PoolInv, Carries, InHands
  <1>5. \A d \in Carriers : Steals(d)'
    BY <1>1, <1>c DEF PoolInv, Steals, Stealing, Victim
  <1>6. \A d \in Carriers : Queues(d)'
    BY <1>1, <1>c DEF PoolInv, Queues, InDeque
  <1>7. \A q \in Threads : Publishes(q)'
    BY <1>1, <1>c DEF PoolInv, Publishes, InPub, CarrierPcs
  <1>8. \A h \in Fibers : Fiber(h)'
    BY <1>1, <1>c DEF PoolInv, Fiber, InDeque, InPub, InHands, InParked
  <1>9. Parks'
    BY <1>1, <1>c DEF PoolInv, Parks, InParked
  <1> QED BY <1>t, <1>3, <1>4, <1>5, <1>6, <1>7, <1>8, <1>9, <1>q DEF PoolInv

\* The swap, once the fiber is queued already or not.
LEMMA SwapInv ==
    ASSUME PoolInv, NEW c \in Carriers, Swap(c)
    PROVE  PoolInv'
  <1> DEFINE f == cur[c]
  <1>0. TypeOK /\ Ranges
    BY InRange DEF PoolInv
  <1>1. /\ pc[c] = "swap" /\ pc' = [pc EXCEPT ![c] = "pop"]
        /\ saved' = [saved EXCEPT ![f] = TRUE] /\ cur' = [cur EXCEPT ![c] = None]
        /\ UNCHANGED <<st, home, await, done, joined, deque, parked, signalled, started, shutdown,
                       got, pub, step, lost, pinned>>
    BY DEF Swap, Goto, poolVars
  <1>2. /\ f \in Fibers /\ home[f] = c /\ st[f] \in {"READY", "PARKED"}
        /\ c \in Threads /\ c # Main
    BY <1>1, Current, Constants DEF PoolInv, Runs, HasFiber
  <1>t. TypeOK'
    BY <1>0, <1>1, <1>2 DEF TypeOK, CarrierPcs
  <1>c. /\ pc'[c] = "pop" /\ \A p \in Threads : p # c => pc'[p] = pc[p]
        /\ saved'[f] = TRUE /\ \A h \in Fibers : h # f => saved'[h] = saved[h]
        /\ cur'[c] = None /\ \A d \in Carriers : d # c => cur'[d] = cur[d]
    BY <1>0, <1>1, <1>2 DEF TypeOK
  <1>q. Once' /\ Apart' /\ PubApart'
    BY <1>1, <1>c, Stays DEF PoolInv
  <1> USE <1>0, <1>2, Constants DEF Ranges
  <1>3. \A d \in Carriers : Runs(d)'
    BY <1>1, <1>c DEF PoolInv, Runs, HasFiber
  <1>4. \A d \in Carriers : Carries(d)'
    BY <1>1, <1>c DEF PoolInv, Carries, InHands
  <1>5. \A d \in Carriers : Steals(d)'
    BY <1>1, <1>c DEF PoolInv, Steals, Stealing, Victim
  <1>6. \A d \in Carriers : Queues(d)'
    BY <1>1, <1>c DEF PoolInv, Queues, InDeque
  <1>7. \A q \in Threads : Publishes(q)'
    BY <1>1, <1>c DEF PoolInv, Publishes, InPub, CarrierPcs
  <1>8. \A h \in Fibers : Fiber(h)'
    BY <1>1, <1>c DEF PoolInv, Fiber, InDeque, InPub, InHands, InParked
  <1>9. Parks'
    BY <1>1, <1>c DEF PoolInv, Parks, InParked
  <1> QED BY <1>t, <1>3, <1>4, <1>5, <1>6, <1>7, <1>8, <1>9, <1>q DEF PoolInv

\* The trampoline returns ...
LEMMA ReturnInv ==
    ASSUME PoolInv, NEW c \in Carriers, Return(c)
    PROVE  PoolInv'
  <1> DEFINE f == cur[c]
  <1>0. TypeOK /\ Ranges
    BY InRange DEF PoolInv
  <1>1. /\ pc[c] = "run" /\ pc' = [pc EXCEPT ![c] = "retire"]
        /\ st' = [st EXCEPT ![f] = "DONE"]
        /\ UNCHANGED <<home, saved, await, done, joined, deque, parked, signalled, started, shutdown,
                       cur, got, pub, step, lost, pinned>>
    BY DEF Return, Goto, poolVars
  <1>2. /\ f \in Fibers /\ home[f] = c /\ st[f] = "RUNNING"
        /\ c \in Threads /\ c # Main
        /\ \A d \in Carriers : cur[d] = f => d = c
        /\ ~InDeque(f) /\ ~InPub(f) /\ ~InHands(f) /\ ~InParked(f)
    <2>1. pc[c] \in HasFiber /\ c \in Threads /\ c # Main
      BY <1>1, Constants DEF HasFiber
    <2>2. f \in Fibers /\ home[f] = c /\ \A d \in Carriers : cur[d] = f => d = c
      BY <2>1, Current
    <2>3. st[f] = "RUNNING"
      BY <1>1 DEF PoolInv, Runs
    <2>4. ~InDeque(f) /\ ~InPub(f) /\ ~InHands(f) /\ ~InParked(f)
      BY <2>2, <2>3, Nowhere
    <2> QED BY <2>1, <2>2, <2>3, <2>4
  <1>t. TypeOK'
    BY <1>0, <1>1, <1>2 DEF TypeOK, CarrierPcs
  <1>c. /\ pc'[c] = "retire" /\ \A p \in Threads : p # c => pc'[p] = pc[p]
        /\ st'[f] = "DONE" /\ \A h \in Fibers : h # f => st'[h] = st[h]
    BY <1>0, <1>1, <1>2 DEF TypeOK
  <1>q. Once' /\ Apart' /\ PubApart'
    BY <1>1, <1>c, Stays DEF PoolInv
  <1> USE <1>0, <1>2, Constants DEF Ranges
  <1>3. \A d \in Carriers : Runs(d)'
    BY <1>1, <1>c DEF PoolInv, Runs, HasFiber
  <1>4. \A d \in Carriers : Carries(d)'
    BY <1>1, <1>c DEF PoolInv, Carries, InHands
  <1>5. \A d \in Carriers : Steals(d)'
    BY <1>1, <1>c DEF PoolInv, Steals, Stealing, Victim
  <1>6. \A d \in Carriers : Queues(d)'
    BY <1>1, <1>c DEF PoolInv, Queues, InDeque
  <1>7. \A q \in Threads : Publishes(q)'
    BY <1>1, <1>c DEF PoolInv, Publishes, InPub, CarrierPcs
  <1>8. \A h \in Fibers : Fiber(h)'
    BY <1>1, <1>c DEF PoolInv, Fiber, InDeque, InPub, InHands, InParked
  <1>9. Parks'
    BY <1>1, <1>c DEF PoolInv, Parks, InParked
  <1> QED BY <1>t, <1>3, <1>4, <1>5, <1>6, <1>7, <1>8, <1>9, <1>q DEF PoolInv

\* ... and the carrier frees the fiber.
LEMMA RetireInv ==
    ASSUME PoolInv, NEW c \in Carriers, Retire(c)
    PROVE  PoolInv'
  <1> DEFINE f == cur[c]
  <1>0. TypeOK /\ Ranges
    BY InRange DEF PoolInv
  <1>1. /\ pc[c] = "retire" /\ pc' = [pc EXCEPT ![c] = "pop"]
        /\ st' = [st EXCEPT ![f] = "freed"] /\ cur' = [cur EXCEPT ![c] = None]
        /\ UNCHANGED <<home, saved, await, done, joined, deque, parked, signalled, started, shutdown,
                       got, pub, step, lost, pinned>>
    BY DEF Retire, Goto, poolVars
  <1>2. /\ f \in Fibers /\ home[f] = c /\ st[f] = "DONE"
        /\ c \in Threads /\ c # Main
        /\ \A d \in Carriers : cur[d] = f => d = c
        /\ ~InDeque(f) /\ ~InPub(f) /\ ~InHands(f) /\ ~InParked(f)
    <2>1. pc[c] \in HasFiber /\ c \in Threads /\ c # Main
      BY <1>1, Constants DEF HasFiber
    <2>2. f \in Fibers /\ home[f] = c /\ \A d \in Carriers : cur[d] = f => d = c
      BY <2>1, Current
    <2>3. st[f] = "DONE"
      BY <1>1 DEF PoolInv, Runs
    <2>4. ~InDeque(f) /\ ~InPub(f) /\ ~InHands(f) /\ ~InParked(f)
      BY <2>2, <2>3, Nowhere
    <2> QED BY <2>1, <2>2, <2>3, <2>4
  <1>t. TypeOK'
    BY <1>0, <1>1, <1>2 DEF TypeOK, CarrierPcs
  <1>c. /\ pc'[c] = "pop" /\ \A p \in Threads : p # c => pc'[p] = pc[p]
        /\ st'[f] = "freed" /\ \A h \in Fibers : h # f => st'[h] = st[h]
        /\ cur'[c] = None /\ \A d \in Carriers : d # c => cur'[d] = cur[d]
    BY <1>0, <1>1, <1>2 DEF TypeOK
  <1>q. Once' /\ Apart' /\ PubApart'
    BY <1>1, <1>c, Stays DEF PoolInv
  <1> USE <1>0, <1>2, Constants DEF Ranges
  <1>3. \A d \in Carriers : Runs(d)'
    BY <1>1, <1>c DEF PoolInv, Runs, HasFiber
  <1>4. \A d \in Carriers : Carries(d)'
    BY <1>1, <1>c DEF PoolInv, Carries, InHands
  <1>5. \A d \in Carriers : Steals(d)'
    BY <1>1, <1>c DEF PoolInv, Steals, Stealing, Victim
  <1>6. \A d \in Carriers : Queues(d)'
    BY <1>1, <1>c DEF PoolInv, Queues, InDeque
  <1>7. \A q \in Threads : Publishes(q)'
    BY <1>1, <1>c DEF PoolInv, Publishes, InPub, CarrierPcs
  <1>8. \A h \in Fibers : Fiber(h)'
    <2> SUFFICES ASSUME NEW h \in Fibers PROVE Fiber(h)'
      OBVIOUS
    <2>1. Fiber(h)
      BY DEF PoolInv
    <2>2. /\ InDeque(h)' = InDeque(h) /\ InPub(h)' = InPub(h)
          /\ InHands(h)' = InHands(h) /\ InParked(h)' = InParked(h)
      BY <1>1 DEF InDeque, InPub, InHands, InParked
    <2>3. CASE h = f
      BY <1>1, <1>c, <2>1, <2>3 DEF Fiber
    <2>4. CASE h # f
      BY <1>1, <1>c, <2>1, <2>2, <2>4 DEF Fiber
    <2> QED BY <2>3, <2>4
  <1>9. Parks'
    BY <1>1, <1>c DEF PoolInv, Parks, InParked
  <1> QED BY <1>t, <1>3, <1>4, <1>5, <1>6, <1>7, <1>8, <1>9, <1>q DEF PoolInv

\* task_complete: every parked fiber goes to the list that the carrier publishes.
LEMMA CompleteInv ==
    ASSUME PoolInv, NEW c \in Carriers, Complete(c)
    PROVE  PoolInv'
  <1> DEFINE f == cur[c]
  <1>0. TypeOK /\ Ranges
    BY InRange DEF PoolInv
  <1>1. /\ pc[c] = "run" /\ pc' = [pc EXCEPT ![c] = IF parked = <<>> THEN "run" ELSE "publish"]
        /\ done' = [done EXCEPT ![f] = TRUE]
        /\ pub' = [pub EXCEPT ![c] = parked] /\ parked' = <<>>
        /\ UNCHANGED <<st, home, saved, await, joined, deque, signalled, started, shutdown, cur, got,
                       step, lost, pinned>>
    BY DEF Complete, Goto
  <1>2. /\ f \in Fibers /\ home[f] = c /\ st[f] = "RUNNING"
        /\ c \in Threads /\ c # Main
        /\ \A d \in Carriers : cur[d] = f => d = c
        /\ ~InDeque(f) /\ ~InPub(f) /\ ~InHands(f) /\ ~InParked(f)
    <2>1. pc[c] \in HasFiber /\ c \in Threads /\ c # Main
      BY <1>1, Constants DEF HasFiber
    <2>2. f \in Fibers /\ home[f] = c /\ \A d \in Carriers : cur[d] = f => d = c
      BY <2>1, Current
    <2>3. st[f] = "RUNNING"
      BY <1>1 DEF PoolInv, Runs
    <2>4. ~InDeque(f) /\ ~InPub(f) /\ ~InHands(f) /\ ~InParked(f)
      BY <2>2, <2>3, Nowhere
    <2> QED BY <2>1, <2>2, <2>3, <2>4
  <1>p. /\ pub[c] = <<>> /\ ToSet(<<>>) = {} /\ IsInjective(<<>>) /\ <<>> \in Seq(Fibers)
        /\ parked = <<>> <=> ToSet(parked) = {}
    BY <1>0, <1>1, <1>2, Short, Queued DEF PoolInv, Publishes, Ranges
  <1>t. TypeOK'
    BY <1>0, <1>1, <1>2, <1>p DEF TypeOK, CarrierPcs
  <1>c. /\ pc'[c] = IF parked = <<>> THEN "run" ELSE "publish"
        /\ \A p \in Threads : p # c => pc'[p] = pc[p]
        /\ pub'[c] = parked /\ \A p \in Threads : p # c => pub'[p] = pub[p]
    BY <1>0, <1>1, <1>2 DEF TypeOK
  <1>m. /\ PubApart /\ UNCHANGED <<deque, got>> /\ parked' = <<>> /\ ToSet(<<>>) = {}
        /\ pub'[c] = parked /\ \A p \in Threads : p # c => pub'[p] = pub[p]
        /\ c \in Threads /\ Parks /\ \A d \in Carriers : Queues(d) /\ Carries(d)
        /\ None \notin Fibers /\ ToSet(parked) \subseteq Fibers
    BY <1>0, <1>1, <1>2, <1>p, <1>c, Constants DEF PoolInv, Ranges
  <1>12. PubApart'
    BY <1>m DEF PubApart, InDeque, InPub, InHands, InParked, Queues, Carries, Parks
  <1> USE <1>0, <1>2, Constants DEF Ranges
  <1> USE <1>p
  <1>n. \A h \in Fibers : /\ InParked(h) \/ InPub(h) => InPub(h)'
                         /\ (InDeque(h)' <=> InDeque(h)) /\ (InHands(h)' <=> InHands(h))
    BY <1>1, <1>c DEF InDeque, InPub, InHands, InParked
  <1>3. \A d \in Carriers : Runs(d)'
    BY <1>1, <1>c DEF PoolInv, Runs, HasFiber
  <1>4. \A d \in Carriers : Carries(d)'
    BY <1>1, <1>c DEF PoolInv, Carries, InHands
  <1>5. \A d \in Carriers : Steals(d)'
    BY <1>1, <1>c DEF PoolInv, Steals, Stealing, Victim
  <1>6. \A d \in Carriers : Queues(d)'
    BY <1>1, <1>c DEF PoolInv, Queues, InDeque
  <1>7. \A q \in Threads : Publishes(q)'
    BY <1>1, <1>c DEF PoolInv, Publishes, Parks, CarrierPcs
  <1>8. \A h \in Fibers : Fiber(h)'
    BY <1>1, <1>n DEF PoolInv, Fiber
  <1>9. Parks'
    BY <1>1, <1>c DEF PoolInv, Parks, InParked
  <1>10. Once'
    BY <1>1, <1>c DEF PoolInv, Once
  <1>11. Apart'
    BY <1>1, <1>c DEF PoolInv, Apart, InDeque, InPub, InHands, InParked
  <1> QED BY <1>t, <1>3, <1>4, <1>5, <1>6, <1>7, <1>8, <1>9, <1>10, <1>11, <1>12 DEF PoolInv

-----------------------------------------------------------------------------
(* The steps of the carrier loop.                                          *)

\* A carrier that goes from one point of its loop to another with nothing in its
\* hands need only answer for what a thief knows.
LEMMA LoopInv ==
    ASSUME PoolInv, NEW c \in Carriers, NEW l \in {"pop", "look", "cas", "decide", "asleep", "exited"},
           pc[c] \in {"pop", "look", "cas", "broadcast", "decide", "asleep"},
           pc' = [pc EXCEPT ![c] = l], TypeOK', Steals(c)',
           UNCHANGED <<fiberVars, deque, parked, started, cur, got, pub>>,
           \A d \in Carriers : d # c => step'[d] = step[d] /\ lost'[d] = lost[d]
    PROVE  PoolInv'
  <1>0. TypeOK /\ Ranges
    BY InRange DEF PoolInv
  <1>1. /\ c \in Threads /\ c # Main
        /\ pc'[c] = l /\ \A p \in Threads : p # c => pc'[p] = pc[p]
    BY <1>0, Constants DEF TypeOK
  <1>2. UNCHANGED <<st, home, saved, await, done, joined, deque, parked, started, cur, got, pub>>
    BY DEF fiberVars
  <1>q. Once' /\ Apart' /\ PubApart'
    BY <1>1, <1>2, Stays DEF PoolInv
  <1> USE <1>0, <1>2, Constants DEF Ranges
  <1>3. \A d \in Carriers : Runs(d)'
    BY <1>1 DEF PoolInv, Runs, HasFiber
  <1>4. \A d \in Carriers : Carries(d)'
    BY <1>1 DEF PoolInv, Carries, InHands
  <1>5. \A d \in Carriers : Steals(d)'
    BY <1>1 DEF PoolInv, Steals, Stealing, Victim
  <1>6. \A d \in Carriers : Queues(d)'
    BY <1>1 DEF PoolInv, Queues, InDeque
  <1>7. \A q \in Threads : Publishes(q)'
    BY <1>1 DEF PoolInv, Publishes, InPub, CarrierPcs
  <1>8. \A h \in Fibers : Fiber(h)'
    BY <1>1 DEF PoolInv, Fiber, InDeque, InPub, InHands, InParked
  <1>9. Parks'
    BY <1>1 DEF PoolInv, Parks, InParked
  <1> QED BY <1>3, <1>4, <1>5, <1>6, <1>7, <1>8, <1>9, <1>q DEF PoolInv

\* The first dispatch gives the fiber its home; a later one is at home already.
LEMMA DispatchInv ==
    ASSUME PoolInv, NEW c \in Carriers, Dispatch(c)
    PROVE  PoolInv'
  <1> DEFINE f == got[c]
  <1>0. TypeOK /\ Ranges
    BY InRange DEF PoolInv
  <1>1. /\ pc[c] = "dispatch" /\ pc' = [pc EXCEPT ![c] = "run"]
        /\ home' = [home EXCEPT ![f] = IF home[f] = None THEN c ELSE home[f]]
        /\ st' = [st EXCEPT ![f] = "RUNNING"] /\ saved' = [saved EXCEPT ![f] = FALSE]
        /\ cur' = [cur EXCEPT ![c] = f] /\ got' = [got EXCEPT ![c] = None]
        /\ UNCHANGED <<await, done, joined, deque, parked, signalled, started, shutdown, pub, step,
                       lost, pinned>>
    BY DEF Dispatch, Goto, poolVars
  <1>2. /\ f \in Fibers /\ home[f] \in {None, c} /\ st[f] = "READY" /\ cur[c] = None
        /\ c \in Threads /\ c # Main /\ f # None
        /\ \A d \in Carriers : cur[d] # f
    BY <1>0, <1>1, Constants DEF PoolInv, Runs, Carries, HasFiber, Ranges
  <1>p. /\ \A d \in Carriers : f \notin ToSet(deque[d]) /\ (d # c => got[d] # f)
        /\ \A p \in Threads : f \notin ToSet(pub[p])
        /\ f \notin ToSet(parked)
    BY <1>2 DEF PoolInv, Apart, PubApart, Parks, InHands
  <1>t. TypeOK'
    BY <1>0, <1>1, <1>2 DEF TypeOK, CarrierPcs
  <1>c. /\ pc'[c] = "run" /\ \A p \in Threads : p # c => pc'[p] = pc[p]
        /\ home'[f] = c /\ \A h \in Fibers : h # f => home'[h] = home[h]
        /\ st'[f] = "RUNNING" /\ \A h \in Fibers : h # f => st'[h] = st[h]
        /\ \A h \in Fibers : h # f => saved'[h] = saved[h]
        /\ cur'[c] = f /\ \A d \in Carriers : d # c => cur'[d] = cur[d]
        /\ got'[c] = None /\ \A d \in Carriers : d # c => got'[d] = got[d]
    BY <1>0, <1>1, <1>2 DEF TypeOK
  <1>m. /\ PubApart /\ UNCHANGED <<deque, pub, parked>> /\ None \notin Fibers
        /\ got'[c] = None /\ \A d \in Carriers : d # c => got'[d] = got[d]
        /\ \A p \in Threads : ToSet(pub[p]) \subseteq Fibers
    BY <1>0, <1>1, <1>c, Constants DEF PoolInv, Ranges
  <1>12. PubApart'
    BY <1>m DEF PubApart, InDeque, InPub, InHands, InParked
  <1> USE <1>0, <1>2, Constants DEF Ranges
  <1> USE <1>p
  <1>n. \A h \in Fibers : h # f /\ InHands(h) => InHands(h)'
    BY <1>c DEF InHands
  <1>3. \A d \in Carriers : Runs(d)'
    BY <1>1, <1>c DEF PoolInv, Runs, HasFiber
  <1>4. \A d \in Carriers : Carries(d)'
    BY <1>1, <1>c DEF PoolInv, Carries, InHands
  <1>5. \A d \in Carriers : Steals(d)'
    BY <1>1, <1>c DEF PoolInv, Steals, Stealing, Victim
  <1>6. \A d \in Carriers : Queues(d)'
    BY <1>1, <1>c DEF PoolInv, Queues, InDeque
  <1>7. \A q \in Threads : Publishes(q)'
    BY <1>1, <1>c DEF PoolInv, Publishes, InPub, CarrierPcs
  <1>8. \A h \in Fibers : Fiber(h)'
    BY <1>1, <1>c, <1>n DEF PoolInv, Fiber, InDeque, InPub, InParked
  <1>9. Parks'
    BY <1>1, <1>c DEF PoolInv, Parks, InParked
  <1>10. Once'
    BY <1>1, <1>c DEF PoolInv, Once
  <1>11. Apart'
    BY <1>1, <1>c DEF PoolInv, Apart, InDeque, InPub, InHands, InParked
  <1> QED BY <1>t, <1>3, <1>4, <1>5, <1>6, <1>7, <1>8, <1>9, <1>10, <1>11, <1>12 DEF PoolInv

\* The newest fiber of the own deque.
LEMMA PopInv ==
    ASSUME PoolInv, NEW c \in Carriers, Pop(c), deque[c] # <<>>
    PROVE  PoolInv'
  <1> DEFINE f == Last(deque[c])
  <1>0. TypeOK /\ Ranges
    BY InRange DEF PoolInv
  <1>1. /\ pc[c] = "pop" /\ pc' = [pc EXCEPT ![c] = "dispatch"]
        /\ got' = [got EXCEPT ![c] = f] /\ pinned' = [pinned EXCEPT ![c] = 0]
        /\ deque' = [deque EXCEPT ![c] = Front(deque[c])]
        /\ IF Len(deque[c]) = 1 THEN TopMoved(c) ELSE UNCHANGED lost
        /\ UNCHANGED <<st, home, saved, await, done, joined, parked, signalled, started, shutdown,
                       cur, pub, step>>
    BY DEF Pop, Take, Goto, fiberVars
  <1>p. /\ Front(deque[c]) \in Seq(Fibers) /\ IsInjective(Front(deque[c]))
        /\ f \in ToSet(deque[c]) /\ ToSet(Front(deque[c])) = ToSet(deque[c]) \ {f}
        /\ Front(deque[c]) = <<>> => Len(deque[c]) = 1
    BY <1>0, Lasted DEF PoolInv, Once, Ranges
  <1>2. /\ f \in Fibers /\ f # None /\ home[f] \in {None, c} /\ st[f] = "READY" /\ got[c] = None
        /\ c \in Threads /\ c # Main
        /\ \A d \in Carriers : (d # c => f \notin ToSet(deque[d])) /\ got[d] # f
        /\ \A p \in Threads : f \notin ToSet(pub[p])
    <2>1. f \in Fibers /\ f # None /\ c \in Threads /\ c # Main
      BY <1>0, <1>p, Constants DEF Ranges
    <2>2. home[f] \in {None, c} /\ st[f] = "READY" /\ got[c] = None
      BY <1>1, <1>p DEF PoolInv, Queues, Carries
    <2>3. \A d \in Carriers : (d # c => f \notin ToSet(deque[d])) /\ got[d] # f
      BY <1>p, <2>1 DEF PoolInv, Apart
    <2>4. \A p \in Threads : f \notin ToSet(pub[p])
      BY <1>p DEF PoolInv, PubApart, InDeque
    <2> QED BY <2>1, <2>2, <2>3, <2>4
  <1>l. /\ lost' \in [Carriers -> BOOLEAN]
        /\ \A d \in Carriers : ~lost'[d] => ~lost[d]
        /\ \A d \in Carriers : pc[d] = "cas" /\ Victim(d) = c /\ ~lost'[d] => Len(deque[c]) # 1
    BY <1>0, <1>1 DEF TopMoved, TypeOK
  <1>t. TypeOK'
    BY <1>0, <1>1, <1>2, <1>p, <1>l, Counters DEF TypeOK, CarrierPcs
  <1>c. /\ pc'[c] = "dispatch" /\ \A p \in Threads : p # c => pc'[p] = pc[p]
        /\ got'[c] = f /\ \A d \in Carriers : d # c => got'[d] = got[d]
        /\ deque'[c] = Front(deque[c]) /\ \A d \in Carriers : d # c => deque'[d] = deque[d]
    BY <1>0, <1>1, <1>2 DEF TypeOK
  <1>m. /\ PubApart /\ UNCHANGED <<pub, parked>>
        /\ \A h : (InDeque(h)' => InDeque(h)) /\ (InHands(h)' => InHands(h) \/ InDeque(h))
    BY <1>1, <1>2, <1>p, <1>c DEF PoolInv, InDeque, InHands
  <1>12. PubApart'
    BY <1>m DEF PubApart, InPub, InParked
  <1> USE <1>0, <1>2, Constants DEF Ranges
  <1> USE <1>p
  <1>n. \A h \in Fibers : InHands(h) \/ InDeque(h) => InHands(h)' \/ InDeque(h)'
    BY <1>c DEF InHands, InDeque
  <1>3. \A d \in Carriers : Runs(d)'
    BY <1>1, <1>c DEF PoolInv, Runs, HasFiber
  <1>4. \A d \in Carriers : Carries(d)'
    BY <1>1, <1>c DEF PoolInv, Carries, InHands
  <1>5. \A d \in Carriers : Steals(d)'
    BY <1>1, <1>c, <1>l DEF PoolInv, Steals, Stealing, Victim
  <1>6. \A d \in Carriers : Queues(d)'
    BY <1>1, <1>c DEF PoolInv, Queues, InDeque
  <1>7. \A q \in Threads : Publishes(q)'
    BY <1>1, <1>c DEF PoolInv, Publishes, InPub, CarrierPcs
  <1>8. \A h \in Fibers : Fiber(h)'
    BY <1>1, <1>c, <1>n DEF PoolInv, Fiber, InPub, InParked
  <1>9. Parks'
    BY <1>1, <1>c DEF PoolInv, Parks, InParked
  <1>10. Once'
    BY <1>1, <1>c DEF PoolInv, Once
  <1>11. Apart'
    BY <1>1, <1>c DEF PoolInv, Apart, InDeque, InPub, InHands, InParked
  <1> QED BY <1>t, <1>3, <1>4, <1>5, <1>6, <1>7, <1>8, <1>9, <1>10, <1>11, <1>12 DEF PoolInv

\* A thief takes the oldest: to run it, or to bring it back to its home.
LEMMA StealInv ==
    ASSUME PoolInv, NEW c \in Carriers, Steal(c), ~lost[c]
    PROVE  PoolInv'
  <1> DEFINE v == Victim(c)  f == Head(deque[v])  l == IF home[f] \in {None, c} THEN "dispatch" ELSE "pushback"
  <1>0. TypeOK /\ Ranges
    BY InRange DEF PoolInv
  <1>1. /\ pc[c] = "cas" /\ pc' = [pc EXCEPT ![c] = l]
        /\ got' = [got EXCEPT ![c] = f]
        /\ pinned' = IF home[f] \in {None, c} THEN [pinned EXCEPT ![c] = 0] ELSE pinned
        /\ deque' = [deque EXCEPT ![v] = Tail(deque[v])]
        /\ TopMoved(v)
        /\ UNCHANGED <<st, home, saved, await, done, joined, parked, signalled, started, shutdown,
                       cur, pub, step>>
    BY DEF Steal, Take, Goto, fiberVars
  <1>v. /\ v \in Carriers /\ deque[v] # <<>>
        /\ c \in Threads /\ c # Main /\ got[c] = None
    BY <1>1, Counters, Constants DEF PoolInv, Steals, Carries
  <1>p. /\ Tail(deque[v]) \in Seq(Fibers) /\ IsInjective(Tail(deque[v]))
        /\ f \in ToSet(deque[v]) /\ ToSet(Tail(deque[v])) = ToSet(deque[v]) \ {f}
    BY <1>0, <1>v, Headed DEF PoolInv, Once, Ranges
  <1> HIDE DEF v, f
  <1>2. /\ f \in Fibers /\ f # None /\ home[f] \in {None, v} /\ st[f] = "READY"
        /\ \A d \in Carriers : (d # v => f \notin ToSet(deque[d])) /\ got[d] # f
        /\ \A p \in Threads : f \notin ToSet(pub[p])
    <2>1. f \in Fibers /\ f # None
      BY <1>0, <1>v, <1>p, Constants DEF Ranges
    <2>2. home[f] \in {None, v} /\ st[f] = "READY"
      BY <1>v, <1>p DEF PoolInv, Queues
    <2>3. \A d \in Carriers : (d # v => f \notin ToSet(deque[d])) /\ got[d] # f
      BY <1>v, <1>p, <2>1 DEF PoolInv, Apart
    <2>4. \A p \in Threads : f \notin ToSet(pub[p])
      BY <1>v, <1>p DEF PoolInv, PubApart, InDeque
    <2> QED BY <2>1, <2>2, <2>3, <2>4
  <1>l. /\ lost' \in [Carriers -> BOOLEAN]
        /\ \A d \in Carriers : ~lost'[d] => ~lost[d]
        /\ \A d \in Carriers : pc[d] = "cas" /\ Victim(d) = v => lost'[d]
        /\ pinned' \in [Carriers -> 0..MaxPinnedRounds] /\ l \in {"dispatch", "pushback"}
    BY <1>0, <1>1, Counters DEF TopMoved, TypeOK
  <1>t. TypeOK'
    BY <1>0, <1>1, <1>v, <1>2, <1>p, <1>l DEF TypeOK, CarrierPcs
  <1>c. /\ pc'[c] = l /\ \A p \in Threads : p # c => pc'[p] = pc[p]
        /\ got'[c] = f /\ \A d \in Carriers : d # c => got'[d] = got[d]
        /\ deque'[v] = Tail(deque[v]) /\ \A d \in Carriers : d # v => deque'[d] = deque[d]
    BY <1>0, <1>1, <1>v, <1>2 DEF TypeOK
  <1>m. /\ PubApart /\ UNCHANGED <<pub, parked>>
        /\ \A h : (InDeque(h)' => InDeque(h)) /\ (InHands(h)' => InHands(h) \/ InDeque(h))
    BY <1>1, <1>v, <1>2, <1>p, <1>c DEF PoolInv, InDeque, InHands
  <1>12. PubApart'
    BY <1>m DEF PubApart, InPub, InParked
  <1>n. \A h \in Fibers : InHands(h) \/ InDeque(h) => InHands(h)' \/ InDeque(h)'
    <2>1. \E d \in Carriers : got'[d] = f
      BY <1>c
    <2>2. \A h \in Fibers : InHands(h) => InHands(h)'
      BY <1>c, <1>v, Constants DEF InHands
    <2>3. ASSUME NEW h \in Fibers, InDeque(h), h # f PROVE InDeque(h)'
      <3>1. PICK d \in Carriers : h \in ToSet(deque[d])
        BY <2>3 DEF InDeque
      <3>2. h \in ToSet(deque'[d])
        BY <1>c, <1>p, <2>3, <3>1
      <3> QED BY <3>2 DEF InDeque
    <2> QED BY <2>1, <2>2, <2>3 DEF InHands
  <1> USE <1>0, <1>2, Constants DEF Ranges
  <1> USE <1>p, <1>v
  <1>3. \A d \in Carriers : Runs(d)'
    BY <1>1, <1>c DEF PoolInv, Runs, HasFiber
  <1>4. \A d \in Carriers : Carries(d)'
    BY <1>1, <1>c DEF PoolInv, Carries, InHands
  <1>5. \A d \in Carriers : Steals(d)'
    BY <1>1, <1>c, <1>l DEF PoolInv, Steals, Stealing, Victim
  <1>6. \A d \in Carriers : Queues(d)'
    BY <1>1, <1>c DEF PoolInv, Queues, InDeque
  <1>7. \A q \in Threads : Publishes(q)'
    BY <1>1, <1>c DEF PoolInv, Publishes, InPub, CarrierPcs
  <1>8. \A h \in Fibers : Fiber(h)'
    BY <1>1, <1>c, <1>n DEF PoolInv, Fiber, InPub, InParked
  <1>9. Parks'
    BY <1>1, <1>c DEF PoolInv, Parks, InParked
  <1>10. Once'
    BY <1>1, <1>c DEF PoolInv, Once
  <1>11. Apart'
    BY <1>1, <1>c DEF PoolInv, Apart, InDeque, InPub, InHands, InParked
  <1> QED BY <1>t, <1>3, <1>4, <1>5, <1>6, <1>7, <1>8, <1>9, <1>10, <1>11, <1>12 DEF PoolInv

\* The thief brings it back.
LEMMA PushBackInv ==
    ASSUME PoolInv, NEW c \in Carriers, PushBack(c)
    PROVE  PoolInv'
  <1> DEFINE f == got[c]  v == home[f]
  <1>0. TypeOK /\ Ranges
    BY InRange DEF PoolInv
  <1>1. /\ pc[c] = "pushback" /\ pc' = [pc EXCEPT ![c] = "broadcast"]
        /\ got' = [got EXCEPT ![c] = None]
        /\ deque' = [deque EXCEPT ![v] = Append(deque[v], f)]
        /\ UNCHANGED <<st, home, saved, await, done, joined, parked, signalled, started, shutdown,
                       cur, pub, step, lost, pinned>>
    BY DEF PushBack, Goto, fiberVars
  <1>2. /\ f \in Fibers /\ f # None /\ v \in Carriers /\ st[f] = "READY"
        /\ c \in Threads /\ c # Main
    BY <1>0, <1>1, Constants DEF PoolInv, Carries, Ranges
  <1> HIDE DEF v, f
  <1>3. /\ \A d \in Carriers : f \notin ToSet(deque[d]) /\ (d # c => got[d] # f)
        /\ \A p \in Threads : f \notin ToSet(pub[p])
        /\ got[c] = f /\ home[f] = v
    BY <1>2 DEF PoolInv, Apart, PubApart, InHands, v, f
  <1>p. /\ Append(deque[v], f) \in Seq(Fibers) /\ IsInjective(Append(deque[v], f))
        /\ Append(deque[v], f) # <<>>
        /\ ToSet(Append(deque[v], f)) = ToSet(deque[v]) \cup {f}
    BY <1>0, <1>2, <1>3, Appended DEF PoolInv, Once, Ranges
  <1>t. TypeOK'
    BY <1>0, <1>1, <1>2, <1>p DEF TypeOK, CarrierPcs
  <1>c. /\ pc'[c] = "broadcast" /\ \A p \in Threads : p # c => pc'[p] = pc[p]
        /\ got'[c] = None /\ \A d \in Carriers : d # c => got'[d] = got[d]
        /\ deque'[v] = Append(deque[v], f) /\ \A d \in Carriers : d # v => deque'[d] = deque[d]
    BY <1>0, <1>1, <1>2 DEF TypeOK
  <1>m. /\ PubApart /\ UNCHANGED <<pub, parked>>
        /\ \A h \in Fibers : (InDeque(h)' => InDeque(h) \/ InHands(h)) /\ (InHands(h)' => InHands(h))
        /\ \A p \in Threads : ToSet(pub[p]) \subseteq Fibers
    BY <1>0, <1>1, <1>2, <1>3, <1>p, <1>c, Constants DEF PoolInv, InDeque, InHands, Ranges
  <1>12. PubApart'
    BY <1>m DEF PubApart, InPub, InParked
  <1> USE <1>0, <1>2, Constants DEF Ranges
  <1> USE <1>p, <1>3
  <1>n. \A h \in Fibers : InHands(h) \/ InDeque(h) => InHands(h)' \/ InDeque(h)'
    <2>1. \E d \in Carriers : f \in ToSet(deque'[d])
      BY <1>c
    <2>2. \A h \in Fibers : InHands(h) => h = f \/ InHands(h)'
      BY <1>c DEF InHands
    <2>3. \A h \in Fibers : InDeque(h) => InDeque(h)'
      BY <1>c DEF InDeque
    <2> QED BY <2>1, <2>2, <2>3 DEF InDeque
  <1>13. \A d \in Carriers : Runs(d)'
    BY <1>1, <1>c DEF PoolInv, Runs, HasFiber
  <1>4. \A d \in Carriers : Carries(d)'
    BY <1>1, <1>c DEF PoolInv, Carries, InHands
  <1>5. \A d \in Carriers : Steals(d)'
    BY <1>1, <1>c DEF PoolInv, Steals, Stealing, Victim
  <1>6. \A d \in Carriers : Queues(d)'
    BY <1>1, <1>c DEF PoolInv, Queues, InDeque
  <1>7. \A q \in Threads : Publishes(q)'
    <2>1. \A q \in Threads : Publishes(q)
      BY DEF PoolInv
    <2>2. \A q \in Threads : pub'[q] = pub[q]
      BY <1>1
    <2>3. "broadcast" \in CarrierPcs /\ pc[c] \notin {"publish", "signal", "off"}
      BY <1>1 DEF CarrierPcs
    <2> QED BY <1>1, <1>c, <2>1, <2>2, <2>3 DEF Publishes
  <1>8. \A h \in Fibers : Fiber(h)'
    BY <1>1, <1>c, <1>n DEF PoolInv, Fiber, InPub, InParked
  <1>9. Parks'
    BY <1>1, <1>c DEF PoolInv, Parks, InParked
  <1>10. Once'
    BY <1>1, <1>c DEF PoolInv, Once
  <1>11. Apart'
    BY <1>1, <1>c DEF PoolInv, Apart, InDeque, InPub, InHands, InParked
  <1> QED BY <1>t, <1>13, <1>4, <1>5, <1>6, <1>7, <1>8, <1>9, <1>10, <1>11, <1>12 DEF PoolInv

\* The own deque is empty.
LEMMA IdleInv ==
    ASSUME PoolInv, NEW c \in Carriers, Pop(c), deque[c] = <<>>
    PROVE  PoolInv'
  <1>0. TypeOK /\ pc[c] \in CarrierPcs \cup MainPcs /\ c \in Threads
    BY Constants DEF PoolInv, TypeOK
  <1>1. /\ pc[c] = "pop" /\ pc' = [pc EXCEPT ![c] = "look"] /\ step' = [step EXCEPT ![c] = 0]
        /\ UNCHANGED <<fiberVars, deque, parked, signalled, started, shutdown, cur, got, pub, lost, pinned>>
    BY DEF Pop, Goto
  <1>2. TypeOK'
    BY <1>0, <1>1, Counters DEF TypeOK, CarrierPcs, fiberVars
  <1>3. Steals(c)'
    BY <1>0, <1>1 DEF TypeOK, Steals, Stealing
  <1>4. \A d \in Carriers : d # c => step'[d] = step[d] /\ lost'[d] = lost[d]
    BY <1>0, <1>1 DEF TypeOK
  <1> QED BY <1>1, <1>2, <1>3, <1>4, LoopInv

\* A look at a peer.
LEMMA LookInv ==
    ASSUME PoolInv, NEW c \in Carriers, Look(c)
    PROVE  PoolInv'
  <1>0. TypeOK /\ pc[c] \in CarrierPcs \cup MainPcs /\ c \in Threads
    BY Constants DEF PoolInv, TypeOK
  <1>1. pc[c] = "look" /\ UNCHANGED <<fiberVars, poolVars, cur, got, pub, pinned>>
    BY DEF Look
  <1>2. PICK l \in {"look", "cas", "decide"} :
          /\ pc' = [pc EXCEPT ![c] = l]
          /\ l = "look" => step[c] # N - 1 /\ step' = [step EXCEPT ![c] = step[c] + 1] /\ UNCHANGED lost
          /\ l = "cas" => /\ step[c] < N - 1 /\ deque[Victim(c)] # <<>>
                          /\ lost' = [lost EXCEPT ![c] = FALSE] /\ UNCHANGED step
          /\ l = "decide" => UNCHANGED <<step, lost>>
    <2>1. CASE step[c] = N - 1 /\ Goto(c, "decide") /\ UNCHANGED <<step, lost>>
      BY <2>1 DEF Goto
    <2>2. CASE step[c] < N - 1 /\ NextVictim(c) /\ UNCHANGED lost
      <3>1. step[c] # N - 1
        BY <2>2, Constants
      <3> QED BY <2>2, <3>1 DEF NextVictim, Goto
    <2>3. CASE /\ step[c] < N - 1 /\ deque[Victim(c)] # <<>> /\ Goto(c, "cas")
               /\ lost' = [lost EXCEPT ![c] = FALSE] /\ UNCHANGED step
      BY <2>3 DEF Goto
    <2> QED BY <2>1, <2>2, <2>3 DEF Look
  <1>3. TypeOK'
    <2>1. pc' \in [Threads -> CarrierPcs \cup MainPcs]
      BY <1>0, <1>2 DEF TypeOK, CarrierPcs
    <2>2. step' \in [Carriers -> 0..(N - 1)]
      <3>1. l = "look" => step[c] + 1 \in 0..(N - 1)
        BY <1>2, Counters
      <3> QED BY <1>0, <1>2, <3>1 DEF TypeOK
    <2>3. lost' \in [Carriers -> BOOLEAN]
      BY <1>0, <1>2 DEF TypeOK
    <2> QED BY <1>0, <1>1, <2>1, <2>2, <2>3 DEF TypeOK, fiberVars, poolVars
  <1>4. Steals(c)'
    BY <1>0, <1>1, <1>2 DEF TypeOK, Steals, Stealing, Victim, poolVars
  <1>5. \A d \in Carriers : d # c => step'[d] = step[d] /\ lost'[d] = lost[d]
    BY <1>0, <1>2 DEF TypeOK
  <1> QED BY <1>1, <1>2, <1>3, <1>4, <1>5, LoopInv DEF poolVars

\* A thief that lost its race.
LEMMA LostInv ==
    ASSUME PoolInv, NEW c \in Carriers, Steal(c), lost[c]
    PROVE  PoolInv'
  <1>0. TypeOK /\ pc[c] \in CarrierPcs \cup MainPcs /\ c \in Threads
    BY Constants DEF PoolInv, TypeOK
  <1>1. /\ pc[c] = "cas" /\ pc' = [pc EXCEPT ![c] = "look"] /\ step' = [step EXCEPT ![c] = step[c] + 1]
        /\ UNCHANGED <<fiberVars, deque, parked, signalled, started, shutdown, cur, got, pub, lost, pinned>>
    BY DEF Steal, NextVictim, Goto
  <1>2. TypeOK'
    BY <1>0, <1>1, Counters DEF TypeOK, CarrierPcs, fiberVars, Stealing
  <1>3. Steals(c)'
    BY <1>0, <1>1 DEF TypeOK, Steals, Stealing
  <1>4. \A d \in Carriers : d # c => step'[d] = step[d] /\ lost'[d] = lost[d]
    BY <1>0, <1>1 DEF TypeOK
  <1> QED BY <1>1, <1>2, <1>3, <1>4, LoopInv

\* The others are told of what was brought back.
LEMMA BroadcastInv ==
    ASSUME PoolInv, NEW c \in Carriers, Broadcast(c)
    PROVE  PoolInv'
  <1>0. TypeOK /\ pc[c] \in CarrierPcs \cup MainPcs /\ c \in Threads
    BY Constants DEF PoolInv, TypeOK
  <1>1. /\ pc[c] = "broadcast" /\ pc' = [pc EXCEPT ![c] = "look"] /\ step' = [step EXCEPT ![c] = step[c] + 1]
        /\ signalled' = Asleep
        /\ UNCHANGED <<fiberVars, deque, parked, started, shutdown, cur, got, pub, lost, pinned>>
    BY DEF Broadcast, NextVictim, Goto
  <1>2. TypeOK'
    BY <1>0, <1>1, Counters DEF TypeOK, CarrierPcs, fiberVars, Stealing, Asleep
  <1>3. Steals(c)'
    BY <1>0, <1>1 DEF TypeOK, Steals, Stealing
  <1>4. \A d \in Carriers : d # c => step'[d] = step[d] /\ lost'[d] = lost[d]
    BY <1>0, <1>1 DEF TypeOK
  <1> QED BY <1>1, <1>2, <1>3, <1>4, LoopInv

\* Exit, another round, or sleep.
LEMMA DecideInv ==
    ASSUME PoolInv, NEW c \in Carriers, Decide(c)
    PROVE  PoolInv'
  <1>0. TypeOK /\ pc[c] \in CarrierPcs \cup MainPcs /\ c \in Threads
    BY Constants DEF PoolInv, TypeOK
  <1>1. PICK l \in {"pop", "asleep", "exited"} :
          /\ pc[c] = "decide" /\ pc' = [pc EXCEPT ![c] = l] /\ step' = [step EXCEPT ![c] = 0]
          /\ \/ UNCHANGED pinned
             \/ pinned' = [pinned EXCEPT ![c] = 0]
             \/ pinned[c] < MaxPinnedRounds /\ pinned' = [pinned EXCEPT ![c] = pinned[c] + 1]
          /\ UNCHANGED <<fiberVars, poolVars, cur, got, pub, lost>>
    BY DEF Decide, DecideWith, DecideWithin, Goto
  <1>2. TypeOK'
    <2>1. pc' \in [Threads -> CarrierPcs \cup MainPcs]
      BY <1>0, <1>1 DEF TypeOK, CarrierPcs
    <2>2. step' \in [Carriers -> 0..(N - 1)]
      BY <1>0, <1>1, Counters DEF TypeOK
    <2>3. pinned' \in [Carriers -> 0..MaxPinnedRounds]
      <3>1. pinned[c] < MaxPinnedRounds => pinned[c] + 1 \in 0..MaxPinnedRounds
        BY Counters
      <3>2. 0 \in 0..MaxPinnedRounds
        BY Counters
      <3> QED BY <1>0, <1>1, <3>1, <3>2 DEF TypeOK
    <2> QED BY <1>0, <1>1, <2>1, <2>2, <2>3 DEF TypeOK, fiberVars, poolVars
  <1>3. Steals(c)'
    BY <1>0, <1>1 DEF TypeOK, Steals, Stealing
  <1>4. \A d \in Carriers : d # c => step'[d] = step[d] /\ lost'[d] = lost[d]
    BY <1>0, <1>1 DEF TypeOK
  <1> QED BY <1>1, <1>2, <1>3, <1>4, LoopInv DEF poolVars

\* The end of a sleep.
LEMMA WakeInv ==
    ASSUME PoolInv, NEW c \in Carriers, Wake(c)
    PROVE  PoolInv'
  <1>0. TypeOK /\ pc[c] \in CarrierPcs \cup MainPcs /\ c \in Threads
    BY Constants DEF PoolInv, TypeOK
  <1>1. /\ pc[c] = "asleep" /\ pc' = [pc EXCEPT ![c] = "pop"] /\ signalled' = signalled \ {c}
        /\ UNCHANGED <<fiberVars, deque, parked, started, shutdown, cur, got, pub, step, lost, pinned>>
    BY DEF Wake, Goto
  <1>2. TypeOK'
    BY <1>0, <1>1 DEF TypeOK, CarrierPcs, fiberVars
  <1>3. Steals(c)'
    BY <1>0, <1>1 DEF TypeOK, Steals, Stealing
  <1>4. \A d \in Carriers : d # c => step'[d] = step[d] /\ lost'[d] = lost[d]
    BY <1>1
  <1> QED BY <1>1, <1>2, <1>3, <1>4, LoopInv

-----------------------------------------------------------------------------
(* Publishing.                                                             *)

LEMMA SignalInv ==
    ASSUME PoolInv, NEW p \in Threads, Signal(p)
    PROVE  PoolInv'
  <1> DEFINE l == IF pub[p] # <<>> THEN "publish" ELSE IF p = Main THEN "main" ELSE "run"
  <1>0. TypeOK /\ Ranges
    BY InRange DEF PoolInv
  <1>1. /\ pc[p] = "signal" /\ pc' = [pc EXCEPT ![p] = l]
        /\ signalled' \subseteq signalled \cup Asleep
        /\ UNCHANGED <<st, home, saved, await, done, joined, deque, parked, started, shutdown, cur, got,
                       pub, step, lost, pinned>>
    BY DEF Signal, Goto, fiberVars
  <1>2. /\ l \in {"publish", "main", "run"} /\ (l = "main" => p = Main)
        /\ (l = "publish" <=> pub[p] # <<>>)
        /\ (l = "run" => p \in Carriers /\ p # Main)
    BY Constants
  <1> HIDE DEF l
  <1>t. TypeOK'
    BY <1>0, <1>1, <1>2 DEF TypeOK, CarrierPcs, MainPcs, Asleep
  <1>c. /\ pc'[p] = l /\ \A q \in Threads : q # p => pc'[q] = pc[q]
    BY <1>0, <1>1, <1>2 DEF TypeOK
  <1>q. Once' /\ Apart' /\ PubApart'
    BY <1>1, <1>c, Stays DEF PoolInv
  <1> USE <1>0, <1>2, Constants DEF Ranges
  <1>3. \A d \in Carriers : Runs(d)'
    BY <1>1, <1>c DEF PoolInv, Runs, HasFiber
  <1>4. \A d \in Carriers : Carries(d)'
    BY <1>1, <1>c DEF PoolInv, Carries, InHands
  <1>5. \A d \in Carriers : Steals(d)'
    BY <1>1, <1>c DEF PoolInv, Steals, Stealing, Victim
  <1>6. \A d \in Carriers : Queues(d)'
    BY <1>1, <1>c DEF PoolInv, Queues, InDeque
  <1>7. \A q \in Threads : Publishes(q)'
    BY <1>1, <1>c DEF PoolInv, Publishes, InPub, CarrierPcs, MainPcs
  <1>8. \A h \in Fibers : Fiber(h)'
    BY <1>1, <1>c DEF PoolInv, Fiber, InDeque, InPub, InHands, InParked
  <1>9. Parks'
    BY <1>1, <1>c DEF PoolInv, Parks, InParked
  <1> QED BY <1>t, <1>3, <1>4, <1>5, <1>6, <1>7, <1>8, <1>9, <1>q DEF PoolInv

\* A task is spawned; the first one starts the carriers.
LEMMA SpawnInv ==
    ASSUME PoolInv, NEW p \in Threads, NEW g \in Fibers, Spawn(p, g)
    PROVE  PoolInv'
  <1>0. TypeOK /\ Ranges
    BY InRange DEF PoolInv
  <1>1. /\ pc[p] = IF p = Main THEN "main" ELSE "run"
        /\ st[g] = "new" /\ st' = [st EXCEPT ![g] = "READY"]
        /\ pub' = [pub EXCEPT ![p] = <<g>>] /\ started' = TRUE
        /\ pc' = [q \in Threads |->
                    CASE q = p                      -> "publish"
                      [] q \in Carriers /\ ~started -> "pop"
                      [] OTHER                      -> pc[q]]
        /\ UNCHANGED <<home, saved, await, done, joined, deque, parked, signalled, shutdown, cur, got,
                       step, lost, pinned>>
    BY DEF Spawn, InBody
  <1>2. /\ ~InDeque(g) /\ ~InPub(g) /\ ~InHands(g) /\ ~InParked(g)
        /\ pub[p] = <<>> /\ home[g] = None
        /\ \A d \in Carriers : ~started => pc[d] = "off"
        /\ \A d \in Carriers : cur[d] # g
    <2>1. ~InDeque(g) /\ ~InPub(g) /\ ~InHands(g) /\ ~InParked(g)
      BY <1>1, Nowhere
    <2>2. home[g] = None
      BY <1>1 DEF PoolInv, Fiber
    <2>3. pub[p] = <<>>
      BY <1>1 DEF PoolInv, Publishes
    <2>4. \A d \in Carriers : ~started => pc[d] = "off"
      BY Constants DEF PoolInv, Publishes
    <2>5. \A d \in Carriers : cur[d] # g
      BY <2>2, Constants DEF PoolInv, Runs
    <2> QED BY <2>1, <2>2, <2>3, <2>4, <2>5
  <1>p. /\ <<g>> \in Seq(Fibers) /\ <<g>> # <<>> /\ ToSet(<<g>>) = {g} /\ IsInjective(<<g>>)
        /\ ToSet(pub[p]) = {}
    BY <1>2, Short
  <1>t. TypeOK'
    BY <1>0, <1>1, <1>2, <1>p DEF TypeOK, CarrierPcs
  <1>c. /\ pc'[p] = "publish"
        /\ \A q \in Threads : q # p => pc'[q] = IF q \in Carriers /\ ~started THEN "pop" ELSE pc[q]
        /\ st'[g] = "READY" /\ \A h \in Fibers : h # g => st'[h] = st[h]
        /\ pub'[p] = <<g>> /\ \A q \in Threads : q # p => pub'[q] = pub[q]
    BY <1>0, <1>1, <1>2 DEF TypeOK
  <1>m. /\ PubApart /\ UNCHANGED <<deque, got, parked>>
        /\ ToSet(pub'[p]) = {g} /\ \A q \in Threads : q # p => pub'[q] = pub[q]
        /\ ~InDeque(g) /\ ~InPub(g) /\ ~InHands(g) /\ ~InParked(g)
    BY <1>1, <1>2, <1>p, <1>c DEF PoolInv
  <1>12. PubApart'
    BY <1>m DEF PubApart, InDeque, InPub, InHands, InParked
  <1> USE <1>0, <1>2, Constants DEF Ranges
  <1> USE <1>p
  <1>n. \A h \in Fibers : h = g \/ InPub(h) => InPub(h)'
    BY <1>c DEF InPub
  <1>3. \A d \in Carriers : Runs(d)'
    BY <1>1, <1>c DEF PoolInv, Runs, HasFiber
  <1>4. \A d \in Carriers : Carries(d)'
    BY <1>1, <1>c DEF PoolInv, Carries, InHands
  <1>5. \A d \in Carriers : Steals(d)'
    BY <1>1, <1>c DEF PoolInv, Steals, Stealing, Victim
  <1>6. \A d \in Carriers : Queues(d)'
    BY <1>1, <1>c DEF PoolInv, Queues, InDeque
  <1>7. \A q \in Threads : Publishes(q)'
    BY <1>1, <1>c DEF PoolInv, Publishes, InPub, CarrierPcs, MainPcs
  <1>8. \A h \in Fibers : Fiber(h)'
    BY <1>1, <1>c, <1>n DEF PoolInv, Fiber, InDeque, InHands, InParked
  <1>9. Parks'
    BY <1>1, <1>c DEF PoolInv, Parks, InParked
  <1>10. Once'
    BY <1>1, <1>c DEF PoolInv, Once
  <1>11. Apart'
    BY <1>1, <1>c DEF PoolInv, Apart, InDeque, InPub, InHands, InParked
  <1> QED BY <1>t, <1>3, <1>4, <1>5, <1>6, <1>7, <1>8, <1>9, <1>10, <1>11, <1>12 DEF PoolInv

\* The next fiber of the list goes to its home, or to the deque at hand.
LEMMA PushInv ==
    ASSUME PoolInv, NEW p \in Threads, Push(p)
    PROVE  PoolInv'
  <1> DEFINE f == Head(pub[p])  v == Target(p, f)
  <1>0. TypeOK /\ Ranges
    BY InRange DEF PoolInv
  <1>1. /\ pc[p] = "publish" /\ pc' = [pc EXCEPT ![p] = "signal"]
        /\ st' = [st EXCEPT ![f] = "READY"]
        /\ pub' = [pub EXCEPT ![p] = Tail(pub[p])]
        /\ deque' = [deque EXCEPT ![v] = Append(deque[v], f)]
        /\ UNCHANGED <<home, saved, await, done, joined, parked, signalled, started, shutdown, cur, got,
                       step, lost, pinned>>
    BY DEF Push, Goto
  <1>h. /\ Tail(pub[p]) \in Seq(Fibers) /\ IsInjective(Tail(pub[p]))
        /\ f \in ToSet(pub[p]) /\ ToSet(Tail(pub[p])) = ToSet(pub[p]) \ {f}
    BY <1>0, <1>1, Headed DEF PoolInv, Publishes, Once, Ranges
  <1>v. f \in Fibers /\ v \in Carriers /\ home[f] \in {None, v}
    BY <1>0, <1>h, Constants DEF Target, Ranges
  <1> HIDE DEF v, f
  <1>2. /\ f # None /\ st[f] \in {"READY", "PARKED"}
        /\ \A d \in Carriers : f \notin ToSet(deque[d]) /\ got[d] # f
        /\ \A q \in Threads : q # p => f \notin ToSet(pub[q])
        /\ f \notin ToSet(parked)
    BY <1>h, <1>v, Constants DEF PoolInv, Publishes, PubApart, InDeque, InHands, InParked
  <1>p. /\ Append(deque[v], f) \in Seq(Fibers) /\ IsInjective(Append(deque[v], f))
        /\ Append(deque[v], f) # <<>>
        /\ ToSet(Append(deque[v], f)) = ToSet(deque[v]) \cup {f}
    BY <1>0, <1>v, <1>2, Appended DEF PoolInv, Once, Ranges
  <1>t. TypeOK'
    BY <1>0, <1>1, <1>h, <1>v, <1>2, <1>p DEF TypeOK, CarrierPcs
  <1>c. /\ pc'[p] = "signal" /\ \A q \in Threads : q # p => pc'[q] = pc[q]
        /\ st'[f] = "READY" /\ \A h \in Fibers : h # f => st'[h] = st[h]
        /\ pub'[p] = Tail(pub[p]) /\ \A q \in Threads : q # p => pub'[q] = pub[q]
        /\ deque'[v] = Append(deque[v], f) /\ \A d \in Carriers : d # v => deque'[d] = deque[d]
    BY <1>0, <1>1, <1>v DEF TypeOK
  <1>m. /\ PubApart /\ UNCHANGED <<got, parked>>
        /\ \A q \in Threads : ToSet(pub'[q]) \subseteq ToSet(pub[q]) \ {f}
        /\ \A h : InDeque(h)' => InDeque(h) \/ h = f
    BY <1>1, <1>h, <1>v, <1>2, <1>p, <1>c DEF PoolInv, InDeque
  <1>n. /\ \A h \in Fibers : (InPub(h) => h = f \/ InPub(h)') /\ (InDeque(h) => InDeque(h)')
        /\ \A h \in Fibers : h = f => InDeque(h)'
    <2>1. \A h \in Fibers : h = f => InDeque(h)'
      BY <1>c, <1>p, <1>v DEF InDeque
    <2>2. \A h \in Fibers : InPub(h) => h = f \/ InPub(h)'
      BY <1>c, <1>h DEF InPub
    <2>3. \A h \in Fibers : InDeque(h) => InDeque(h)'
      BY <1>c, <1>p DEF InDeque
    <2> QED BY <2>1, <2>2, <2>3
  <1>12. PubApart'
    BY <1>m DEF PubApart, InPub, InParked, InHands
  <1> USE <1>0, <1>2, Constants DEF Ranges
  <1> USE <1>p, <1>h, <1>v
  <1>3. \A d \in Carriers : Runs(d)'
    BY <1>1, <1>c DEF PoolInv, Runs, HasFiber
  <1>4. \A d \in Carriers : Carries(d)'
    BY <1>1, <1>c DEF PoolInv, Carries, InHands
  <1>5. \A d \in Carriers : Steals(d)'
    BY <1>1, <1>c DEF PoolInv, Steals, Stealing, Victim
  <1>6. \A d \in Carriers : Queues(d)'
    BY <1>1, <1>c DEF PoolInv, Queues, InDeque
  <1>7. \A q \in Threads : Publishes(q)'
    BY <1>1, <1>c DEF PoolInv, Publishes, InPub, CarrierPcs, MainPcs
  <1>8. \A h \in Fibers : Fiber(h)'
    BY <1>1, <1>c, <1>n DEF PoolInv, Fiber, InHands, InParked
  <1>9. Parks'
    BY <1>1, <1>c DEF PoolInv, Parks, InParked
  <1>10. Once'
    BY <1>1, <1>c DEF PoolInv, Once
  <1>11. Apart'
    BY <1>1, <1>c DEF PoolInv, Apart, InDeque, InPub, InHands, InParked
  <1> QED BY <1>t, <1>3, <1>4, <1>5, <1>6, <1>7, <1>8, <1>9, <1>10, <1>11, <1>12 DEF PoolInv

-----------------------------------------------------------------------------
(* The program thread.                                                     *)

LEMMA MainWaitInv ==
    ASSUME PoolInv, NEW g \in Fibers, MainWait(g)
    PROVE  PoolInv'
  <1>0. TypeOK /\ Ranges
    BY InRange DEF PoolInv
  <1>1. /\ joined' = joined \cup {g}
        /\ UNCHANGED <<st, home, saved, await, done, deque, parked, signalled, started, shutdown, pc, cur,
                       got, pub, step, lost, pinned>>
    BY DEF MainWait, poolVars, threadVars
  <1>t. TypeOK'
    BY <1>0, <1>1 DEF TypeOK
  <1>q. Once' /\ Apart' /\ PubApart'
    BY <1>1, Stays DEF PoolInv
  <1> USE <1>0, Constants DEF Ranges
  <1>3. \A d \in Carriers : Runs(d)'
    BY <1>1 DEF PoolInv, Runs, HasFiber
  <1>4. \A d \in Carriers : Carries(d)'
    BY <1>1 DEF PoolInv, Carries, InHands
  <1>5. \A d \in Carriers : Steals(d)'
    BY <1>1 DEF PoolInv, Steals, Stealing, Victim
  <1>6. \A d \in Carriers : Queues(d)'
    BY <1>1 DEF PoolInv, Queues, InDeque
  <1>7. \A q \in Threads : Publishes(q)'
    BY <1>1 DEF PoolInv, Publishes, InPub, CarrierPcs
  <1>8. \A h \in Fibers : Fiber(h)'
    BY <1>1 DEF PoolInv, Fiber, InDeque, InPub, InHands, InParked
  <1>9. Parks'
    BY <1>1 DEF PoolInv, Parks, InParked
  <1> QED BY <1>t, <1>3, <1>4, <1>5, <1>6, <1>7, <1>8, <1>9, <1>q DEF PoolInv

LEMMA ShutdownInv ==
    ASSUME PoolInv, Shutdown
    PROVE  PoolInv'
  <1> DEFINE l == IF started THEN "join" ELSE "over"
  <1>0. TypeOK /\ Ranges
    BY InRange DEF PoolInv
  <1>1. /\ pc[Main] = "main" /\ pc' = [pc EXCEPT ![Main] = l]
        /\ shutdown' = started \/ shutdown' = shutdown
        /\ signalled' = signalled \/ signalled' = Asleep
        /\ UNCHANGED <<st, home, saved, await, done, joined, deque, parked, started, cur, got,
                       pub, step, lost, pinned>>
    BY DEF Shutdown, Goto, fiberVars
  <1>2. l \in {"join", "over"}
    OBVIOUS
  <1> HIDE DEF l
  <1>t. TypeOK'
    BY <1>0, <1>1, <1>2, Constants DEF TypeOK, CarrierPcs, MainPcs, Asleep
  <1>c. /\ pc'[Main] = l /\ \A q \in Threads : q # Main => pc'[q] = pc[q]
    BY <1>0, <1>1, <1>2, Constants DEF TypeOK
  <1>q. Once' /\ Apart' /\ PubApart'
    BY <1>1, <1>c, Stays DEF PoolInv
  <1> USE <1>0, <1>2, Constants DEF Ranges
  <1>3. \A d \in Carriers : Runs(d)'
    BY <1>1, <1>c DEF PoolInv, Runs, HasFiber
  <1>4. \A d \in Carriers : Carries(d)'
    BY <1>1, <1>c DEF PoolInv, Carries, InHands
  <1>5. \A d \in Carriers : Steals(d)'
    BY <1>1, <1>c DEF PoolInv, Steals, Stealing, Victim
  <1>6. \A d \in Carriers : Queues(d)'
    BY <1>1, <1>c DEF PoolInv, Queues, InDeque
  <1>7. \A q \in Threads : Publishes(q)'
    BY <1>1, <1>c DEF PoolInv, Publishes, InPub, CarrierPcs, MainPcs
  <1>8. \A h \in Fibers : Fiber(h)'
    BY <1>1, <1>c DEF PoolInv, Fiber, InDeque, InPub, InHands, InParked
  <1>9. Parks'
    BY <1>1, <1>c DEF PoolInv, Parks, InParked
  <1> QED BY <1>t, <1>3, <1>4, <1>5, <1>6, <1>7, <1>8, <1>9, <1>q DEF PoolInv

\* The carriers have exited: no fiber is on its way anywhere.
LEMMA ResetInv ==
    ASSUME PoolInv, Reset
    PROVE  PoolInv'
  <1>0. TypeOK /\ Ranges
    BY InRange DEF PoolInv
  <1>1. /\ pc[Main] = "join" /\ \A d \in Carriers : pc[d] = "exited"
        /\ st' = [f \in Fibers |-> IF f \in ToSet(parked) THEN "freed" ELSE st[f]]
        /\ parked' = <<>> /\ shutdown' = FALSE /\ started' = FALSE
        /\ pc' = [p \in Threads |-> IF p = Main THEN "over" ELSE "off"]
        /\ UNCHANGED <<home, saved, await, done, joined, deque, signalled, cur, got,
                       pub, step, lost, pinned>>
    BY DEF Reset
  <1>2. /\ \A d \in Carriers : cur[d] = None /\ got[d] = None
        /\ \A p \in Threads : ToSet(pub[p]) = {} /\ pub[p] = <<>>
        /\ ToSet(<<>>) = {} /\ IsInjective(<<>>) /\ <<>> \in Seq(Fibers)
        /\ \A f \in Fibers : f \in ToSet(parked) => st[f] = "PARKED"
    BY <1>1, Short, Constants DEF PoolInv, Runs, Carries, Publishes, Parks, HasFiber
  <1>t. TypeOK'
    BY <1>0, <1>1, <1>2 DEF TypeOK, CarrierPcs, MainPcs
  <1>c. /\ pc'[Main] = "over" /\ \A d \in Carriers : pc'[d] = "off"
        /\ \A f \in Fibers : st'[f] = IF f \in ToSet(parked) THEN "freed" ELSE st[f]
    BY <1>1, Constants
  <1>m. \A p \in Threads : ToSet(pub'[p]) = {}
    BY <1>1, <1>2
  <1>12. PubApart'
    BY <1>m DEF PubApart
  <1> USE <1>0, <1>2, Constants DEF Ranges
  <1>3. \A d \in Carriers : Runs(d)'
    BY <1>1, <1>c DEF PoolInv, Runs, HasFiber
  <1>4. \A d \in Carriers : Carries(d)'
    BY <1>1, <1>c DEF PoolInv, Carries, InHands
  <1>5. \A d \in Carriers : Steals(d)'
    BY <1>1, <1>c DEF PoolInv, Steals, Stealing, Victim
  <1>6. \A d \in Carriers : Queues(d)'
    BY <1>1, <1>c DEF PoolInv, Queues, InDeque
  <1>7. \A q \in Threads : Publishes(q)'
    BY <1>1, <1>c DEF PoolInv, Publishes, CarrierPcs, MainPcs
  <1>8. \A h \in Fibers : Fiber(h)'
    BY <1>1, <1>c DEF PoolInv, Fiber, InDeque, InPub, InHands, InParked
  <1>9. Parks'
    BY <1>1, <1>c DEF PoolInv, Parks, InParked
  <1>10. Once'
    BY <1>1, <1>c DEF PoolInv, Once
  <1>11. Apart'
    BY <1>1, <1>c DEF PoolInv, Apart, InDeque, InPub, InHands, InParked
  <1> QED BY <1>t, <1>3, <1>4, <1>5, <1>6, <1>7, <1>8, <1>9, <1>10, <1>11, <1>12 DEF PoolInv

-----------------------------------------------------------------------------
(* The invariant.                                                          *)

LEMMA PoolStart ==
    ASSUME Init PROVE PoolInv
  <1>1. /\ \A f \in Fibers : st[f] = "new" /\ home[f] = None
        /\ \A c \in Carriers : cur[c] = None /\ got[c] = None /\ deque[c] = <<>> /\ pc[c] = "off"
        /\ \A p \in Threads : pub[p] = <<>>
        /\ pc[Main] = "main" /\ parked = <<>>
    BY Constants DEF Init
  <1>2. ToSet(<<>>) = {} /\ IsInjective(<<>>) /\ <<>> \in Seq(Fibers) /\ <<>> \in Seq(Fibers)
    BY Short
  <1>3. TypeOK
    <2>1. 0 \in 0..(N - 1) /\ 0 \in 0..MaxPinnedRounds
      BY Constants DEF MaxPinnedRounds
    <2> QED BY <1>2, <2>1 DEF Init, TypeOK, CarrierPcs, MainPcs
  <1>4. \A c \in Carriers : Runs(c) /\ Carries(c) /\ Steals(c) /\ Queues(c)
    BY <1>1, <1>2 DEF Runs, Carries, Steals, Queues, HasFiber, Stealing
  <1>5. \A p \in Threads : Publishes(p)
    BY <1>1, <1>2, Constants DEF Publishes, CarrierPcs, MainPcs
  <1>6. (\A f \in Fibers : Fiber(f)) /\ Parks
    BY <1>1, <1>2 DEF Fiber, Parks
  <1>7. Once /\ Apart /\ PubApart
    BY <1>1, <1>2, Constants DEF Once, Apart, PubApart
  <1> QED BY <1>3, <1>4, <1>5, <1>6, <1>7 DEF PoolInv

LEMMA PoolStutter ==
    ASSUME PoolInv, UNCHANGED vars PROVE PoolInv'
  <1>1. UNCHANGED <<st, home, saved, await, done, joined, deque, parked, signalled, started, shutdown,
                    pc, cur, got, pub, step, lost, pinned>>
    BY DEF vars, fiberVars, poolVars, threadVars
  <1>2. TypeOK'
    BY <1>1 DEF PoolInv, TypeOK
  <1>3. /\ \A c \in Carriers : Runs(c)' /\ Carries(c)' /\ Steals(c)' /\ Queues(c)'
        /\ \A p \in Threads : Publishes(p)'
    BY <1>1 DEF PoolInv, Runs, Carries, Steals, Queues, Publishes, Victim
  <1>4. (\A f \in Fibers : Fiber(f)') /\ Parks'
    BY <1>1 DEF PoolInv, Fiber, Parks, InDeque, InPub, InHands, InParked
  <1>5. Once' /\ Apart' /\ PubApart'
    BY <1>1, Stays DEF PoolInv
  <1> QED BY <1>2, <1>3, <1>4, <1>5 DEF PoolInv

LEMMA PublishInv ==
    ASSUME PoolInv, NEW p \in Threads, Publish(p) PROVE PoolInv'
  BY PushInv, SignalInv, SpawnInv DEF Publish

LEMMA CarrierStepInv ==
    ASSUME PoolInv, NEW c \in Carriers, CarrierStep(c) PROVE PoolInv'
  <1>1. CASE RunFiber(c)
    <2>1. ASSUME NEW g \in Fibers, Wait(c, g) PROVE PoolInv'
      BY <2>1, ParkInv, JoinInv
    <2> QED BY <1>1, <2>1, SwapInv, CompleteInv, ReturnInv, RetireInv DEF RunFiber
  <1>2. CASE RunLoop(c)
    <2>1. ASSUME Pop(c) PROVE PoolInv'
      BY <2>1, PopInv, IdleInv
    <2>2. ASSUME Steal(c) PROVE PoolInv'
      BY <2>2, StealInv, LostInv
    <2> QED BY <1>2, <2>1, <2>2, LookInv, PushBackInv, BroadcastInv, DecideInv, WakeInv,
               DispatchInv DEF RunLoop
  <1>3. CASE Publish(c)
    BY <1>3, PublishInv, Constants
  <1> QED BY <1>1, <1>2, <1>3 DEF CarrierStep

LEMMA PoolStep ==
    ASSUME PoolInv, [Next]_vars PROVE PoolInv'
  <1>1. CASE MainStep
    BY <1>1, PublishInv, MainWaitInv, ShutdownInv, ResetInv, Constants DEF MainStep
  <1>2. CASE \E c \in Carriers : CarrierStep(c)
    BY <1>2, CarrierStepInv
  <1>3. CASE Over \/ UNCHANGED vars
    BY <1>3, PoolStutter DEF Over
  <1> QED BY <1>1, <1>2, <1>3 DEF Next

\* The invariant holds of every behaviour.
THEOREM PoolSafe == Spec => []PoolInv
  <1>1. Init => PoolInv
    BY PoolStart
  <1>2. PoolInv /\ [Next]_vars => PoolInv'
    BY PoolStep
  <1> QED BY <1>1, <1>2, PTL DEF Spec

\* Every register, queue and counter of the pool holds what the code declares.
THEOREM PoolTypeCorrect == Spec => []TypeOK
  <1>1. PoolInv => TypeOK
    BY DEF PoolInv
  <1> QED BY <1>1, PoolSafe, PTL

-----------------------------------------------------------------------------
(* One place at a time.                                                    *)

\* Two references to a fiber are one.
LEMMA OneRef ==
    ASSUME PoolInv, NEW f \in Fibers, NEW r \in Refs(f), NEW s \in Refs(f)
    PROVE  r = s
  <1> DEFINE D == UNION {{<<"deque", c, i>> : i \in {j \in DOMAIN deque[c] : deque[c][j] = f}} : c \in Carriers}
             P == UNION {{<<"pub", p, i>> : i \in {j \in DOMAIN pub[p] : pub[p][j] = f}} : p \in Threads}
             K == {<<"parked", i>> : i \in {j \in DOMAIN parked : parked[j] = f}}
             G == {<<"got", c>> : c \in {d \in Carriers : got[d] = f}}
  <1>0. Refs(f) = D \cup P \cup K \cup G
    BY DEF Refs
  <1>1. /\ \A x \in D : InDeque(f)
        /\ \A x \in P : InPub(f)
        /\ \A x \in K : InParked(f)
        /\ \A x \in G : InHands(f)
    BY DEF InDeque, InPub, InParked, InHands, ToSet
  <1>2. \A x, y \in D : x = y
    BY DEF PoolInv, Once, Apart, IsInjective, ToSet
  <1>3. \A x, y \in P : x = y
    BY DEF PoolInv, Once, PubApart, IsInjective, ToSet
  <1>4. \A x, y \in K : x = y
    BY DEF PoolInv, Once, IsInjective
  <1>5. \A x, y \in G : x = y
    BY DEF PoolInv, Apart
  <1>6. /\ ~(InDeque(f) /\ InHands(f))
        /\ InPub(f) => ~InDeque(f) /\ ~InHands(f) /\ ~InParked(f)
    BY DEF PoolInv, Apart, PubApart, InDeque, InHands, InPub
  <1>7. InParked(f) => ~InDeque(f) /\ ~InHands(f)
    BY Constants DEF PoolInv, Parks, Queues, Carries, InParked, InDeque, InHands
  <1>8. /\ r \in D \/ r \in P \/ r \in K \/ r \in G
        /\ s \in D \/ s \in P \/ s \in K \/ s \in G
    BY <1>0
  <1> HIDE DEF D, P, K, G
  <1> QED BY <1>1, <1>2, <1>3, <1>4, <1>5, <1>6, <1>7, <1>8

\* A fiber that is in some place has a reference, and conversely.
LEMMA Placed ==
    ASSUME PoolInv, NEW f \in Fibers
    PROVE  Refs(f) # {} <=> InDeque(f) \/ InPub(f) \/ InHands(f) \/ InParked(f)
  <1>1. ASSUME InDeque(f) PROVE Refs(f) # {}
    <2>1. PICK c \in Carriers : \E i \in DOMAIN deque[c] : deque[c][i] = f
      BY <1>1 DEF InDeque, ToSet
    <2>2. PICK i \in DOMAIN deque[c] : deque[c][i] = f
      BY <2>1
    <2> DEFINE S(x) == {<<"deque", x, k>> : k \in {j \in DOMAIN deque[x] : deque[x][j] = f}}
    <2>3. <<"deque", c, i>> \in S(c)
      BY <2>2
    <2>4. (UNION {S(x) : x \in Carriers}) \subseteq Refs(f)
      BY DEF Refs
    <2> HIDE DEF S
    <2> QED BY <2>3, <2>4
  <1>2. ASSUME InPub(f) PROVE Refs(f) # {}
    <2>1. PICK p \in Threads : \E i \in DOMAIN pub[p] : pub[p][i] = f
      BY <1>2 DEF InPub, ToSet
    <2>2. PICK i \in DOMAIN pub[p] : pub[p][i] = f
      BY <2>1
    <2> DEFINE S(x) == {<<"pub", x, k>> : k \in {j \in DOMAIN pub[x] : pub[x][j] = f}}
    <2>3. <<"pub", p, i>> \in S(p)
      BY <2>2
    <2>4. (UNION {S(x) : x \in Threads}) \subseteq Refs(f)
      BY DEF Refs
    <2> HIDE DEF S
    <2> QED BY <2>3, <2>4
  <1>3. ASSUME InHands(f) \/ InParked(f) PROVE Refs(f) # {}
    <2>1. ASSUME InHands(f) PROVE Refs(f) # {}
      <3>1. PICK c \in Carriers : got[c] = f
        BY <2>1 DEF InHands
      <3>2. <<"got", c>> \in Refs(f)
        BY <3>1 DEF Refs
      <3> QED BY <3>2
    <2>2. ASSUME InParked(f) PROVE Refs(f) # {}
      <3>1. PICK i \in DOMAIN parked : parked[i] = f
        BY <2>2 DEF InParked, ToSet
      <3>2. <<"parked", i>> \in Refs(f)
        BY <3>1 DEF Refs
      <3> QED BY <3>2
    <2> QED BY <1>3, <2>1, <2>2
  <1>4. ASSUME Refs(f) # {} PROVE InDeque(f) \/ InPub(f) \/ InHands(f) \/ InParked(f)
    BY <1>4 DEF InDeque, InPub, InHands, InParked, ToSet, Refs
  <1> QED BY <1>1, <1>2, <1>3, <1>4

\* A fiber is in one slot of one queue, in a carrier's hands, or running, and a
\* freed one is nowhere: the promise that nothing runs a fiber twice or touches one
\* whose memory is gone.
LEMMA PoolPlaces ==
    ASSUME PoolInv PROVE OnePlace
  <1> SUFFICES ASSUME NEW f \in Fibers
               PROVE  /\ Cardinality(Refs(f)) <= 1
                      /\ st[f] \in {"new", "DONE", "freed"} => Refs(f) = {}
                      /\ st[f] \in {"READY", "RUNNING", "PARKED"} =>
                            Refs(f) # {} \/ \E c \in Carriers : cur[c] = f
                      /\ \A c \in Carriers : cur[c] = f =>
                            /\ st[f] \notin {"new", "freed"}
                            /\ Refs(f) = {} \/ pc[c] = "swap"
                            /\ \A d \in Carriers : cur[d] = f => c = d
    BY DEF OnePlace
  <1>1. Cardinality(Refs(f)) <= 1
    <2>1. CASE Refs(f) = {}
      BY <2>1, FS_EmptySet
    <2>2. CASE Refs(f) # {}
      <3>1. PICK r \in Refs(f) : TRUE
        BY <2>2
      <3>2. Refs(f) = {r}
        BY <3>1, OneRef
      <3> QED BY <3>2, FS_Singleton
    <2> QED BY <2>1, <2>2
  <1>2. st[f] \notin {"READY", "PARKED"} => Refs(f) = {}
    BY Nowhere, Placed
  <1>3. st[f] \in {"READY", "RUNNING", "PARKED"} => Refs(f) # {} \/ \E c \in Carriers : cur[c] = f
    BY Placed DEF PoolInv, Fiber
  <1>4. ASSUME NEW c \in Carriers, cur[c] = f
        PROVE  /\ st[f] \notin {"new", "freed"}
               /\ Refs(f) = {} \/ pc[c] = "swap"
               /\ \A d \in Carriers : cur[d] = f => c = d
    <2>1. pc[c] \in HasFiber
      BY <1>4, Constants DEF PoolInv, Runs
    <2>2. \A d \in Carriers : cur[d] = f => c = d
      BY <1>4, <2>1, Current
    <2>3. st[f] \notin {"new", "freed"} /\ (pc[c] = "swap" \/ st[f] \notin {"READY", "PARKED"})
      BY <1>4, <2>1 DEF PoolInv, Runs, HasFiber
    <2> QED BY <1>2, <2>2, <2>3
  <1> QED BY <1>1, <1>2, <1>3, <1>4

THEOREM PoolOnePlace == Spec => []OnePlace
  <1>1. PoolInv => OnePlace
    BY PoolPlaces
  <1> QED BY <1>1, PoolSafe, PTL

-----------------------------------------------------------------------------
(* Resumption and wakeups.                                                 *)

\* A started fiber is dispatched by its home carrier alone, after the swap that
\* saved its context, although thieves pass it on and wakers queue it early.
THEOREM PoolPinned == Spec => []PinnedResume
  <1>1. ASSUME PoolInv PROVE PinnedResume
    <2> SUFFICES ASSUME NEW c \in Carriers
                 PROVE  /\ pc[c] = "dispatch" =>
                              home[got[c]] = None \/ (home[got[c]] = c /\ saved[got[c]])
                        /\ cur[c] # None => home[cur[c]] = c
      BY DEF PinnedResume
    <2>1. cur[c] # None => home[cur[c]] = c
      BY <1>1 DEF PoolInv, Runs
    <2>2. ASSUME pc[c] = "dispatch", home[got[c]] # None
          PROVE  home[got[c]] = c /\ saved[got[c]]
      <3>1. got[c] \in Fibers /\ st[got[c]] = "READY" /\ home[got[c]] = c
        BY <1>1, <2>2, InRange DEF PoolInv, Carries, Ranges
      <3>2. cur[c] = None
        BY <1>1, <2>2 DEF PoolInv, Runs, HasFiber
      <3> QED BY <1>1, <2>2, <3>1, <3>2, Constants DEF PoolInv, Fiber
    <2> QED BY <2>1, <2>2
  <1> QED BY <1>1, PoolSafe, PTL

\* A fiber on the parked list waits for a task that has not set its done flag, so
\* the task_complete still to come will find it there.
THEOREM PoolWakes == Spec => []NoLostWakeup
  <1>1. PoolInv => NoLostWakeup
    BY DEF PoolInv, Parks, NoLostWakeup
  <1> QED BY <1>1, PoolSafe, PTL
=============================================================================
