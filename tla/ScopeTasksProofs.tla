-------------------------- MODULE ScopeTasksProofs --------------------------
(***************************************************************************)
(* What ScopeTasks promises of the memory of tasks and of their failures,  *)
(* proved for any tree of tasks and any number of operations.              *)
(*                                                                         *)
(* ScopeInv has two halves.  Control relates the point a fiber is at with  *)
(* its task's flag and slot, with the blocks its body is in and the frames *)
(* those have, and with the children that a scope exit has passed.  Held   *)
(* says who holds a task: its spawner, by one entry and one variable at    *)
(* most, and one of the two owns it until it is freed.                     *)
(***************************************************************************)
EXTENDS ScopeTasks, FiniteSetTheorems, WellFoundedInduction, TLAPS

-----------------------------------------------------------------------------
(* Sequences, and what a loop leaves of them.                              *)

\* A set of natural numbers has a least member.
LEMMA Least ==
    ASSUME NEW S, S \subseteq Nat, S # {}
    PROVE  \E x \in S : \A y \in S : x <= y
  <1>1. PICK x \in S : \A y \in S : ~(<<y, x>> \in OpToRel(<, Nat))
    BY WFMin, NatLessThanWellFounded, Zenon
  <1>2. \A y \in S : ~(y < x)
    BY <1>1, Zenon DEF OpToRel
  <1> QED BY <1>2

\* Max picks one of the members of a bounded set.
LEMMA Largest ==
    ASSUME NEW n \in Nat, NEW S, S \subseteq 0..n, S # {}
    PROVE  Max(S) \in S
  <1> DEFINE D == {n - x : x \in S}
  <1>1. D \subseteq Nat /\ D # {}
    <2>1. \A x \in S : n - x \in Nat
      OBVIOUS
    <2> QED BY <2>1
  <1>2. PICK d \in D : \A e \in D : d <= e
    BY <1>1, Least
  <1>3. PICK m \in S : d = n - m
    OBVIOUS
  <1>4. \A x \in S : m >= x
    <2> TAKE x \in S
    <2>1. d <= n - x
      BY <1>2
    <2> QED BY <1>3, <2>1
  <1> QED BY <1>4 DEF Max

\* The places of a sequence that are kept: how many, and where each is found.
LEMMA Placed ==
    ASSUME NEW n \in Nat, NEW I \in SUBSET (1..n)
    PROVE  /\ Cardinality(I) \in 0..n
           /\ \A k \in 1..Cardinality(I) : Place(I, k) \in I
           /\ \A k, l \in 1..Cardinality(I) : Place(I, k) = Place(I, l) => k = l
           /\ \A i \in I : \E k \in 1..Cardinality(I) : Place(I, k) = i
  <1> DEFINE c == Cardinality(I)
             UpTo(i) == {j \in I : j <= i}
             rank == [i \in I |-> Cardinality(UpTo(i))]
  <1>1. /\ IsFiniteSet(I) /\ c \in Nat /\ c <= n
        /\ IsFiniteSet(1..c) /\ Cardinality(1..c) = c
    <2>1. IsFiniteSet(1..n) /\ Cardinality(1..n) = n
      BY FS_Interval
    <2>2. IsFiniteSet(I) /\ c <= n
      BY <2>1, FS_Subset
    <2>3. c \in Nat
      BY <2>2, FS_CardinalityType
    <2>4. IsFiniteSet(1..c) /\ Cardinality(1..c) = IF 1 > c THEN 0 ELSE c - 1 + 1
      BY <2>3, FS_Interval
    <2> QED BY <2>2, <2>3, <2>4
  <1>2. \A i \in I : IsFiniteSet(UpTo(i)) /\ rank[i] \in 1..c
    <2> TAKE i \in I
    <2>1. UpTo(i) \in SUBSET I /\ i \in UpTo(i)
      OBVIOUS
    <2>2. IsFiniteSet(UpTo(i)) /\ Cardinality(UpTo(i)) <= c
      BY <1>1, <2>1, FS_Subset
    <2>3. Cardinality(UpTo(i)) \in Nat
      BY <2>2, FS_CardinalityType
    <2>4. Cardinality(UpTo(i)) # 0
      BY <2>1, <2>2, FS_EmptySet
    <2> HIDE DEF UpTo, c
    <2> QED BY <1>1, <2>2, <2>3, <2>4
  <1>3. \A i, j \in I : i < j => rank[i] # rank[j]
    <2> TAKE i \in I
    <2> TAKE j \in I
    <2> HAVE i < j
    <2>1. UpTo(i) \in SUBSET UpTo(j)
      <3>1. \A x \in I : x <= i => x <= j
        OBVIOUS
      <3> QED BY <3>1
    <2>2. j \in UpTo(j) /\ j \notin UpTo(i)
      OBVIOUS
    <2>3. Cardinality(UpTo(i)) # Cardinality(UpTo(j))
      BY <1>2, <2>1, <2>2, FS_Subset
    <2> QED BY <2>3
  <1>4. \A i, j \in I : rank[i] = rank[j] => i = j
    <2> TAKE i \in I
    <2> TAKE j \in I
    <2>1. i < j \/ j < i \/ i = j
      OBVIOUS
    <2> HIDE DEF rank
    <2> QED BY <1>3, <2>1
  <1> HIDE DEF c, rank
  <1>5. rank \in Injection(I, 1..c)
    <2>1. rank \in [I -> 1..c]
      BY <1>2 DEF rank
    <2> QED BY <1>4, <2>1 DEF Injection, IsInjective
  <1>6. rank \in Surjection(I, 1..c)
    BY <1>1, <1>5, FS_Injection DEF c
  <1>7. \A k \in 1..c : \E i \in I : rank[i] = k
    BY <1>6 DEF Surjection
  <1>8. \A k \in 1..c : Place(I, k) \in I /\ rank[Place(I, k)] = k
    BY <1>7 DEF Place, rank
  <1>9. \A i \in I : rank[i] \in 1..c /\ Place(I, rank[i]) = i
    <2> TAKE i \in I
    <2>1. rank[i] \in 1..c
      BY <1>2
    <2> QED BY <1>4, <1>8, <2>1
  <1>10. c \in 0..n
    BY <1>1
  <1> QED BY <1>8, <1>9, <1>10 DEF c

\* The elements of r are those of s at the places in I, each once.
Picks(r, s, I) ==
    \E q \in [DOMAIN r -> I] :
        /\ \A k \in DOMAIN r : r[k] = s[q[k]]
        /\ \A j, k \in DOMAIN r : q[j] = q[k] => j = k
        /\ \A i \in I : \E k \in DOMAIN r : q[k] = i

\* What is kept of a sequence comes from different places of it, and from all in I.
LEMMA SubsequenceOf ==
    ASSUME NEW S, NEW s \in Seq(S), NEW I \in SUBSET DOMAIN s
    PROVE  /\ Subsequence(s, I) \in Seq(S) /\ Len(Subsequence(s, I)) <= Len(s)
           /\ Picks(Subsequence(s, I), s, I)
  <1> DEFINE c == Cardinality(I)  q == [k \in 1..c |-> Place(I, k)]  r == Subsequence(s, I)
  <1>1. Len(s) \in Nat /\ DOMAIN s = 1..Len(s) /\ \A i \in DOMAIN s : s[i] \in S
    OBVIOUS
  <1>2. /\ c \in 0..Len(s)
        /\ \A k \in 1..c : Place(I, k) \in I
        /\ \A k, l \in 1..c : Place(I, k) = Place(I, l) => k = l
        /\ \A i \in I : \E k \in 1..c : Place(I, k) = i
    BY <1>1, Placed
  <1>4. /\ q \in [1..c -> I]
        /\ \A j, k \in 1..c : q[j] = q[k] => j = k
        /\ \A i \in I : \E k \in 1..c : q[k] = i
    BY <1>2
  <1>5. r = [k \in 1..c |-> s[q[k]]]
    BY DEF Subsequence
  <1> HIDE DEF q, c, r
  <1>6. DOMAIN r = 1..c /\ \A k \in 1..c : r[k] = s[q[k]] /\ r[k] \in S
    BY <1>1, <1>4, <1>5
  <1>7. c \in Nat /\ c <= Len(s)
    BY <1>1, <1>2
  <1>8. r \in Seq(S) /\ Len(r) = c
    BY <1>5, <1>6, <1>7
  <1>9. Picks(r, s, I)
    <2> SUFFICES \E p \in [DOMAIN r -> I] :
           /\ \A k \in DOMAIN r : r[k] = s[p[k]]
           /\ \A j, k \in DOMAIN r : p[j] = p[k] => j = k
           /\ \A i \in I : \E k \in DOMAIN r : p[k] = i
      BY DEF Picks
    <2>1. q \in [DOMAIN r -> I]
      BY <1>4, <1>6
    <2> WITNESS q \in [DOMAIN r -> I]
    <2> QED BY <1>4, <1>6
  <1>10. r \in Seq(S) /\ Len(r) <= Len(s)
    BY <1>7, <1>8
  <1> QED BY <1>9, <1>10 DEF r

\* A sequence without its last element, and with one more.
LEMMA Fronted ==
    ASSUME NEW S, NEW s \in Seq(S), s # <<>>
    PROVE  /\ Front(s) \in Seq(S) /\ Len(s) \in Nat \ {0} /\ Len(Front(s)) = Len(s) - 1
           /\ DOMAIN s = 1..Len(s) /\ DOMAIN Front(s) = 1..(Len(s) - 1)
           /\ \A i \in DOMAIN Front(s) : i \in DOMAIN s /\ i # Len(s) /\ Front(s)[i] = s[i]
           /\ \A i \in DOMAIN s : i # Len(s) => i \in DOMAIN Front(s)
           /\ Len(s) \in DOMAIN s /\ Last(s) = s[Len(s)] /\ Last(s) \in S
  <1>1. Len(s) \in Nat \ {0} /\ DOMAIN s = 1..Len(s) /\ \A i \in DOMAIN s : s[i] \in S
    OBVIOUS
  <1>2. 1 \in 1..(Len(s) + 1) /\ Len(s) - 1 \in 0..Len(s)
    BY <1>1
  <1>3. /\ Front(s) \in Seq(S) /\ Len(Front(s)) = Len(s) - 1
        /\ \A i \in 1..(Len(s) - 1) : Front(s)[i] = s[i]
    BY <1>1, <1>2 DEF Front
  <1>4. DOMAIN Front(s) = 1..(Len(s) - 1)
    BY <1>3
  <1>5. Len(s) \in DOMAIN s /\ Last(s) = s[Len(s)] /\ Last(s) \in S
    BY <1>1 DEF Last
  <1>6. /\ \A i \in 1..(Len(s) - 1) : i \in DOMAIN s /\ i # Len(s)
        /\ \A i \in DOMAIN s : i # Len(s) => i \in 1..(Len(s) - 1)
    <2> DEFINE n == Len(s)
    <2>1. n \in Nat /\ DOMAIN s = 1..n
      BY <1>1
    <2> HIDE DEF n
    <2>2. /\ \A i \in 1..(n - 1) : i \in 1..n /\ i # n
          /\ \A i \in 1..n : i # n => i \in 1..(n - 1)
      BY <2>1
    <2> QED BY <2>1, <2>2 DEF n
  <1> QED BY <1>1, <1>3, <1>4, <1>5, <1>6

\* A sequence with one element more.
LEMMA Appended ==
    ASSUME NEW S, NEW s \in Seq(S), NEW x \in S, NEW r, r = Append(s, x)
    PROVE  /\ r \in Seq(S) /\ Len(s) \in Nat /\ Len(r) = Len(s) + 1 /\ r # <<>>
           /\ DOMAIN s = 1..Len(s) /\ DOMAIN r = 1..(Len(s) + 1)
           /\ \A i \in DOMAIN r : i # Len(s) + 1 => i \in DOMAIN s /\ r[i] = s[i]
           /\ \A i \in DOMAIN s : i \in DOMAIN r /\ i # Len(s) + 1
           /\ Len(s) + 1 \in DOMAIN r /\ r[Len(s) + 1] = x /\ Last(r) = x
  <1>1. /\ r \in Seq(S) /\ Len(s) \in Nat /\ Len(r) = Len(s) + 1 /\ r # <<>>
        /\ DOMAIN s = 1..Len(s) /\ DOMAIN r = 1..(Len(s) + 1)
        /\ \A i \in 1..Len(s) : r[i] = s[i]
        /\ r[Len(s) + 1] = x
    OBVIOUS
  <1>2. /\ \A i \in 1..(Len(s) + 1) : i # Len(s) + 1 => i \in 1..Len(s)
        /\ \A i \in 1..Len(s) : i \in 1..(Len(s) + 1) /\ i # Len(s) + 1
        /\ Len(s) + 1 \in 1..(Len(s) + 1)
    BY <1>1
  <1> QED BY <1>1, <1>2 DEF Last

\* No task has two entries in a frame.
Distinct(fr) ==
    \A i, j \in DOMAIN fr.entries :
        fr.entries[i].task = fr.entries[j].task /\ fr.entries[i].task # None => i = j

\* A frame in which a task is registered.
LEMMA Registering ==
    ASSUME NEW fr \in Frames, Len(fr.entries) <= fr.cap, Distinct(fr),
           NEW t \in Tasks, ~Holds(fr, t), NEW o \in BOOLEAN,
           NEW e, e = [task |-> t, owned |-> o], NEW r, r = Registered(fr, e)
    PROVE  /\ r \in Frames /\ Len(r.entries) <= r.cap /\ Distinct(r)
           /\ \A x \in Range(r.entries) : x = e \/ (x \in Range(fr.entries) /\ x.task \notin Reaped(fr))
           /\ \A x \in Range(fr.entries) : x.task = None \/ x.task \in Reaped(fr) \/ x \in Range(r.entries)
           /\ e \in Range(r.entries)
  <1> DEFINE s == fr.entries
             Stays(x) == Len(s) = fr.cap => x.task # None /\ ~Reapable(x)
             I == {i \in DOMAIN s : Stays(s[i])}
             kept == Subsequence(s, I)
             cap == CASE Len(kept) < fr.cap -> fr.cap [] fr.cap = 0 -> FirstCap [] OTHER -> 2 * fr.cap
  <1>1. r = [entries |-> Append(kept, e), cap |-> cap]
    BY DEF Registered
  <1>2. /\ s \in Seq(Entries) /\ fr.cap \in Nat /\ e \in Entries /\ Len(s) \in Nat
        /\ FirstCap \in Nat \ {0}
    BY ScopeAssumption DEF Frames, Entries
  <1>3. /\ kept \in Seq(Entries) /\ Len(kept) <= Len(s) /\ Picks(kept, s, I)
    <2>1. I \in SUBSET DOMAIN s
      OBVIOUS
    <2>2. s \in Seq(Entries)
      BY <1>2
    <2> HIDE DEF I, s
    <2> QED BY <2>1, <2>2, SubsequenceOf
  <1>4. PICK q \in [DOMAIN kept -> I] :
              /\ \A k \in DOMAIN kept : kept[k] = s[q[k]]
              /\ \A j, k \in DOMAIN kept : q[j] = q[k] => j = k
              /\ \A i \in I : \E k \in DOMAIN kept : q[k] = i
    BY <1>3 DEF Picks
  <1> DEFINE es == Append(kept, e)  n == Len(kept)
  <1> HIDE DEF kept, s, cap
  <1>5. /\ es \in Seq(Entries) /\ n \in Nat /\ Len(es) = n + 1
        /\ DOMAIN es = 1..(n + 1)
        /\ \A i \in DOMAIN es : i # n + 1 => i \in DOMAIN kept /\ es[i] = kept[i]
        /\ \A i \in DOMAIN kept : i \in DOMAIN es /\ es[i] = kept[i]
        /\ n + 1 \in DOMAIN es /\ es[n + 1] = e
    <2>1. kept \in Seq(Entries) /\ e \in Entries
      BY <1>2, <1>3
    <2>2. /\ es \in Seq(Entries) /\ n \in Nat /\ Len(es) = n + 1
          /\ DOMAIN kept = 1..n /\ DOMAIN es = 1..(n + 1)
          /\ \A i \in 1..n : es[i] = kept[i]
          /\ es[n + 1] = e
      BY <2>1
    <2> HIDE DEF es, n
    <2>3. \A i \in 1..(n + 1) : i # n + 1 => i \in 1..n
      BY <2>2
    <2>4. n + 1 \in 1..(n + 1) /\ \A i \in 1..n : i \in 1..(n + 1)
      BY <2>2
    <2> QED BY <2>2, <2>3, <2>4
  <1>6. cap \in Nat /\ n + 1 <= cap
    <2>1. n = Len(kept) /\ n \in Nat /\ fr.cap \in Nat /\ FirstCap \in Nat \ {0} /\ n <= fr.cap
      BY <1>2, <1>3, <1>5 DEF s
    <2>2. CASE n < fr.cap
      <3>1. cap = fr.cap
        BY <2>1, <2>2 DEF cap
      <3> QED BY <2>1, <2>2, <3>1
    <2>3. CASE ~(n < fr.cap) /\ fr.cap = 0
      <3>1. cap = FirstCap
        BY <2>1, <2>3 DEF cap
      <3> QED BY <2>1, <2>3, <3>1
    <2>4. CASE ~(n < fr.cap) /\ fr.cap # 0
      <3>1. cap = 2 * fr.cap
        BY <2>1, <2>4 DEF cap
      <3> QED BY <2>1, <2>4, <3>1
    <2> QED BY <2>2, <2>3, <2>4
  <1> HIDE DEF es, n
  <1> USE DEF s
  <1>7. r.entries = es /\ r.cap = cap /\ r \in Frames /\ Len(r.entries) <= r.cap
    <2>1. r = [entries |-> es, cap |-> cap]
      BY <1>1 DEF es
    <2> QED BY <1>5, <1>6, <2>1 DEF Frames
  <1>8. \A i \in DOMAIN s : s[i].task # t
    BY DEF Holds, Range
  <1>9. Distinct(r)
    <2> SUFFICES ASSUME NEW i \in DOMAIN es, NEW j \in DOMAIN es,
                        es[i].task = es[j].task, es[i].task # None
                 PROVE  i = j
      BY <1>7 DEF Distinct
    <2>1. \A k \in DOMAIN es : k # n + 1 => /\ k \in DOMAIN kept /\ q[k] \in DOMAIN s
                                           /\ es[k] = s[q[k]] /\ es[k].task # t
      BY <1>4, <1>5, <1>8
    <2>2. es[n + 1].task = t
      BY <1>5
    <2>3. CASE i = n + 1 \/ j = n + 1
      BY <2>1, <2>2, <2>3
    <2>4. CASE i # n + 1 /\ j # n + 1
      <3>1. q[i] = q[j]
        BY <2>1, <2>4 DEF Distinct
      <3> QED BY <1>4, <2>1, <2>4, <3>1
    <2> QED BY <2>3, <2>4
  <1>10. ASSUME NEW x \in Range(r.entries), x # e
         PROVE  x \in Range(fr.entries) /\ x.task \notin Reaped(fr)
    <2>1. PICK k \in DOMAIN es : x = es[k]
      BY <1>7 DEF Range
    <2>2. k \in DOMAIN kept /\ x = s[q[k]] /\ q[k] \in I
      BY <1>4, <1>5, <1>10, <2>1
    <2>3. x \in Range(s) /\ Stays(x)
      BY <2>2 DEF Range
    <2>4. ASSUME NEW y \in Range(s), Len(s) = fr.cap, Reapable(y), y.task = x.task PROVE FALSE
      <3>1. PICK j \in DOMAIN s : y = s[j]
        BY <2>4 DEF Range
      <3>2. y.task # None
        BY <2>3, <2>4
      <3>3. j = q[k]
        BY <2>2, <2>4, <3>1, <3>2 DEF Distinct
      <3> QED BY <2>2, <2>3, <2>4, <3>1, <3>3
    <2> QED BY <2>3, <2>4 DEF Reaped
  <1>11. ASSUME NEW x \in Range(fr.entries), x.task # None, x.task \notin Reaped(fr)
         PROVE  x \in Range(r.entries)
    <2>1. PICK i \in DOMAIN s : x = s[i]
      BY DEF Range
    <2>2. i \in I
      BY <1>11, <2>1 DEF Reaped
    <2>3. PICK k \in DOMAIN kept : q[k] = i
      BY <1>4, <2>2
    <2>4. k \in DOMAIN es /\ es[k] = x
      BY <1>4, <1>5, <2>1, <2>3
    <2> QED BY <1>7, <2>4 DEF Range
  <1>12. e \in Range(r.entries)
    BY <1>5, <1>7 DEF Range
  <1>13. \A x \in Range(r.entries) : x = e \/ (x \in Range(fr.entries) /\ x.task \notin Reaped(fr))
    BY <1>10
  <1>14. \A x \in Range(fr.entries) : x.task = None \/ x.task \in Reaped(fr) \/ x \in Range(r.entries)
    BY <1>11
  <1> QED BY <1>7, <1>9, <1>12, <1>13, <1>14

-----------------------------------------------------------------------------
(* The invariant.                                                          *)

\* Where a body is that is neither leaving a block nor over.
Working == {"unborn", "run", "await", "timed", "drain", "read", "write"}

\* A task's flag and slot follow the fiber that runs it.
Lives(f) ==
    /\ f \in done <=> pc[f] \in {"wake", "gone"}
    /\ f \in slot <=> pc[f] \notin {"unborn", "wake", "gone"}
    /\ pc[f] = "wake" => mutex = f
    /\ pc[f] \in {"await", "read", "write", "drain"} => handle[f] # None

\* The scope frames that a body has in the blocks it is in.
Inside(blk) == blk.frames + (IF blk.kind = "scope" THEN 1 ELSE 0)
\* The frames that a body has in its blocks: one is that of the body itself.
Depth(blks) == IF blks = <<>> THEN 1 ELSE Inside(Last(blks))

\* A block is entered with the frames of the block around it.
Nest(blks) ==
    \A k \in DOMAIN blks :
        blks[k].frames >= 1 /\ blks[k].frames = IF k = 1 THEN 1 ELSE Inside(blks[k - 1])

\* What a scope exit leaves is what the body had there before.
Mark(f) ==
    CASE join[f].goal = "return" -> join[f].mark = 0 /\ blocks[f] = <<>>
      [] join[f].goal = "exit" -> blocks[f] # <<>> /\ join[f].mark = Last(blocks[f]).frames
      [] join[f].goal = "catch" -> join[f].mark = Depth(blocks[f])

\* The blocks of a body nest, and its frames are those of the blocks, except while
\* a throw is on its way.
Nested(f) ==
    /\ Nest(blocks[f])
    /\ pc[f] \in Working => Len(frames[f]) = Depth(blocks[f])
    /\ pc[f] = "join" => Mark(f)
    /\ pc[f] = "drop" => Len(frames[f]) = IF blocks[f] = <<>> THEN 0 ELSE Last(blocks[f]).frames

\* Whom a scope exit has passed is done, and one that had thrown has set the trigger.
Joins(f) ==
    pc[f] = "join" /\ frames[f] # <<>> =>
        \A i \in DOMAIN Last(frames[f]).entries :
            LET t == Last(frames[f]).entries[i].task
            IN  i < join[f].i => t = None \/ (t \in done /\ (t \in failed => join[f].frame_trigger))

\* A body that is over has no variables left, and frames only if a throw ended it.
Completes(f) ==
    pc[f] \in {"complete", "wake"} => drops[f] = <<>> /\ (f \notin failed => frames[f] = <<>>)

\* A fiber is in step with its task, its blocks, and the children it has joined.
Control(f) == Lives(f) /\ Nested(f) /\ Joins(f) /\ Completes(f)

\* The tasks that a fiber has spawned.
Child(f, t) == t # Root /\ Parent[t] = f /\ pc[t] # "unborn"

\* A task is held by its spawner only, ...
Belongs(f) ==
    /\ \A k \in DOMAIN frames[f] : \A t \in Tasks : Holds(frames[f][k], t) => Child(f, t)
    /\ \A t \in Range(drops[f]) : Child(f, t)

\* ... by one entry of one frame and by one variable, ...
Once(f) ==
    /\ IsInjective(drops[f])
    /\ \A k \in DOMAIN frames[f] : Distinct(frames[f][k])
    /\ \A k, l \in DOMAIN frames[f] : \A t \in Tasks :
          Holds(frames[f][k], t) /\ Holds(frames[f][l], t) => k = l

\* ... and owned by a frame or by a variable.
Owns(f) ==
    \A k \in DOMAIN frames[f] : \A e \in Range(frames[f][k].entries) :
        e.owned => e.task \in Tasks /\ e.task \notin Range(drops[f])

\* A task that is not freed has an owner.
Accounted(t) ==
    t # Root /\ pc[t] # "unborn" =>
        \/ t \in freed
        \/ t \in Range(drops[Parent[t]])
        \/ \E k \in DOMAIN frames[Parent[t]] :
              [task |-> t, owned |-> TRUE] \in Range(frames[Parent[t]][k].entries)

\* Every task is held by its spawner, once, and by an owner.
Held == \A f \in Tasks : Belongs(f) /\ Once(f) /\ Owns(f) /\ Accounted(f)

\* The inductive invariant.
ScopeInv ==
    /\ TypeOK
    /\ \A f \in Tasks : Control(f)
    /\ Held
    /\ NoDangling

-----------------------------------------------------------------------------
(* What a step leaves as it is.                                            *)

\* Who holds which task does not change with what the fibers do meanwhile.
LEMMA HeldStays ==
    ASSUME TypeOK, Held, NoDangling, UNCHANGED <<frames, drops, freed>>,
           \A t \in Tasks : pc'[t] = "unborn" <=> pc[t] = "unborn",
           \A t \in freed : pc'[t] \in {"wake", "gone"}, slot' \subseteq slot
    PROVE  Held' /\ NoDangling'
  <1>1. \A f \in Tasks : Belongs(f)'
    <2>1. \A f \in Tasks : Range(drops[f]) \subseteq Tasks
      <3> TAKE f \in Tasks
      <3>1. drops[f] \in Seq(Tasks)
        BY DEF TypeOK
      <3>2. \A i \in DOMAIN drops[f] : drops[f][i] \in Tasks
        BY <3>1
      <3> QED BY <3>2 DEF Range
    <2> QED BY <2>1 DEF Held, Belongs, Child
  <1>2. \A f \in Tasks : Once(f)' /\ Owns(f)'
    BY DEF Held, Once, Owns
  <1>3. \A t \in Tasks : Accounted(t)'
    BY DEF Held, Accounted
  <1>4. NoDangling'
    BY DEF NoDangling
  <1> QED BY <1>1, <1>2, <1>3, <1>4 DEF Held

\* A fiber whose own state does not move stays in step with its task.
LEMMA StaysSo ==
    ASSUME ScopeInv, NEW g \in Tasks,
           pc'[g] = pc[g], handle'[g] = handle[g], blocks'[g] = blocks[g],
           frames'[g] = frames[g], drops'[g] = drops[g], join'[g] = join[g],
           g \in done' <=> g \in done, g \in slot' <=> g \in slot,
           mutex = g => mutex' = g,
           g \in failed /\ pc[g] \in {"complete", "wake"} => g \in failed',
           \A t \in done : t \in done' /\ (t \in failed' => t \in failed)
    PROVE  Control(g)'
  <1>0. Control(g)
    BY DEF ScopeInv
  <1>1. Lives(g)'
    BY <1>0 DEF Control, Lives
  <1>2. Nested(g)'
    BY <1>0 DEF Control, Nested, Mark
  <1>3. Joins(g)'
    BY <1>0 DEF Control, Joins
  <1>4. Completes(g)'
    BY <1>0 DEF Control, Completes
  <1> QED BY <1>1, <1>2, <1>3, <1>4 DEF Control

\* A step of one fiber leaves the others in step with their tasks.
LEMMA OthersStay ==
    ASSUME ScopeInv, NEW f \in Tasks,
           \A g \in Tasks \ {f} :
              /\ pc'[g] = pc[g] /\ handle'[g] = handle[g] /\ blocks'[g] = blocks[g]
              /\ frames'[g] = frames[g] /\ drops'[g] = drops[g] /\ join'[g] = join[g]
              /\ g \in done' <=> g \in done
              /\ g \in slot' <=> g \in slot
              /\ mutex = g => mutex' = g
              /\ g \in failed /\ pc[g] \in {"complete", "wake"} => g \in failed',
           \A t \in done : t \in done' /\ (t \in failed' => t \in failed),
           Control(f)'
    PROVE  \A g \in Tasks : Control(g)'
  <1>1. ASSUME NEW g \in Tasks \ {f} PROVE Control(g)'
    BY StaysSo
  <1> QED BY <1>1

\* A fiber goes on elsewhere.
LEMMA Moves ==
    ASSUME ScopeInv, TypeOK', NEW f \in Tasks,
           UNCHANGED <<frames, drops, mutex, done, slot, freed>>,
           \A g \in Tasks \ {f} :
              /\ pc'[g] = pc[g] /\ handle'[g] = handle[g] /\ blocks'[g] = blocks[g] /\ join'[g] = join[g]
              /\ g \in failed /\ pc[g] \in {"complete", "wake"} => g \in failed',
           \A t \in done : t \in failed' => t \in failed,
           pc[f] \notin {"unborn", "wake", "gone"}, pc'[f] \notin {"unborn", "wake", "gone"},
           pc'[f] \in {"await", "read", "write", "drain"} => handle'[f] # None,
           Nested(f)', Joins(f)', Completes(f)'
    PROVE  ScopeInv'
  <1>1. Lives(f)
    BY DEF ScopeInv, Control
  <1>2. Lives(f)'
    BY <1>1 DEF Lives
  <1>3. \A t \in Tasks : pc'[t] = "unborn" <=> pc[t] = "unborn"
    OBVIOUS
  <1>4. \A t \in freed : pc[t] \in {"wake", "gone"} /\ t \in Tasks
    BY DEF ScopeInv, NoDangling, TypeOK
  <1>5. Held' /\ NoDangling'
    BY <1>3, <1>4, HeldStays DEF ScopeInv
  <1>6. \A g \in Tasks : Control(g)'
    BY <1>2, OthersStay DEF Control
  <1> QED BY <1>5, <1>6 DEF ScopeInv

\* Nothing moves that the invariant speaks of.
LEMMA Rests ==
    ASSUME ScopeInv, TypeOK', UNCHANGED <<pc, handle, blocks, frames, drops, join, mutex, taskVars>>
    PROVE  ScopeInv'
  <1>1. Held' /\ NoDangling'
    BY HeldStays DEF ScopeInv, NoDangling, taskVars
  <1>2. \A g \in Tasks : Control(g)'
    <2> TAKE g \in Tasks
    <2>0. Control(g)
      BY DEF ScopeInv
    <2>1. Lives(g)'
      BY <2>0 DEF Control, Lives, taskVars
    <2>2. Nested(g)'
      BY <2>0 DEF Control, Nested, Mark
    <2>3. Joins(g)'
      BY <2>0 DEF Control, Joins, taskVars
    <2>4. Completes(g)'
      BY <2>0 DEF Control, Completes, taskVars
    <2> QED BY <2>1, <2>2, <2>3, <2>4 DEF Control
  <1> QED BY <1>1, <1>2 DEF ScopeInv

-----------------------------------------------------------------------------
(* Blocks, and the types that most steps keep.                             *)

\* Blocks nest with one block more, up to any of them, and without the innermost.
LEMMA Nesting ==
    ASSUME NEW blks \in Seq(Blocks), Nest(blks)
    PROVE  /\ Depth(blks) \in Nat /\ Depth(blks) >= 1
           /\ \A x \in Blocks : x.frames = Depth(blks) => Nest(Append(blks, x))
           /\ \A h \in DOMAIN blks :
                 /\ SubSeq(blks, 1, h - 1) \in Seq(Blocks)
                 /\ Nest(SubSeq(blks, 1, h - 1)) /\ Depth(SubSeq(blks, 1, h - 1)) = blks[h].frames
           /\ blks # <<>> => /\ Front(blks) \in Seq(Blocks) /\ Last(blks) \in Blocks
                             /\ Last(blks).frames >= 1 /\ Depth(blks) = Inside(Last(blks))
                             /\ Nest(Front(blks)) /\ Depth(Front(blks)) = Last(blks).frames
  <1> DEFINE n == Len(blks)
  <1>1. n \in Nat /\ DOMAIN blks = 1..n /\ (blks # <<>> => n \in DOMAIN blks)
    OBVIOUS
  <1>2. ASSUME NEW k \in DOMAIN blks
        PROVE  /\ blks[k] \in Blocks /\ blks[k].frames \in Nat
               /\ Inside(blks[k]) \in Nat /\ Inside(blks[k]) >= blks[k].frames
    <2>1. blks[k] \in Blocks
      OBVIOUS
    <2>2. blks[k].frames \in Nat
      BY <2>1 DEF Blocks
    <2> QED BY <2>1, <2>2 DEF Inside
  <1>3. blks # <<>> => Depth(blks) = Inside(blks[n]) /\ Last(blks) = blks[n]
    BY <1>1 DEF Depth, Last
  <1>4. Depth(blks) \in Nat /\ Depth(blks) >= 1
    <2>1. CASE blks = <<>>
      BY <2>1 DEF Depth
    <2>2. CASE blks # <<>>
      BY <1>1, <1>2, <1>3, <2>2 DEF Nest
    <2> QED BY <2>1, <2>2
  <1>5. ASSUME NEW x \in Blocks, x.frames = Depth(blks) PROVE Nest(Append(blks, x))
    <2> DEFINE r == Append(blks, x)
    <2>1. /\ DOMAIN r = 1..(n + 1) /\ r[n + 1] = x
          /\ \A k \in DOMAIN r : k # n + 1 => k \in DOMAIN blks /\ r[k] = blks[k]
          /\ \A k \in DOMAIN blks : r[k] = blks[k]
      BY <1>1, Appended
    <2> HIDE DEF r
    <2> SUFFICES ASSUME NEW k \in DOMAIN r
                 PROVE  r[k].frames >= 1 /\ r[k].frames = IF k = 1 THEN 1 ELSE Inside(r[k - 1])
      BY DEF Nest, r
    <2>2. CASE k # n + 1
      <3>1. k \in DOMAIN blks /\ (k # 1 => k - 1 \in DOMAIN blks)
        BY <1>1, <2>1, <2>2
      <3> QED BY <2>1, <3>1 DEF Nest
    <2>3. CASE k = n + 1
      <3>1. CASE n = 0
        <4>1. blks = <<>>
          BY <3>1
        <4> QED BY <1>4, <1>5, <2>1, <2>3, <3>1, <4>1 DEF Depth
      <3>2. CASE n # 0
        <4>1. blks # <<>> /\ k - 1 = n /\ k # 1 /\ n \in DOMAIN blks
          BY <1>1, <2>3, <3>2
        <4> QED BY <1>3, <1>4, <1>5, <2>1, <2>3, <4>1
      <3> QED BY <3>1, <3>2
    <2> QED BY <2>2, <2>3
  <1>6. ASSUME NEW h \in DOMAIN blks
        PROVE  /\ SubSeq(blks, 1, h - 1) \in Seq(Blocks)
               /\ Nest(SubSeq(blks, 1, h - 1)) /\ Depth(SubSeq(blks, 1, h - 1)) = blks[h].frames
    <2> DEFINE r == SubSeq(blks, 1, h - 1)
    <2>1. h \in 1..n /\ h - 1 \in Nat /\ h - 1 <= n
      BY <1>1
    <2>2. r \in Seq(Blocks) /\ Len(r) = h - 1 /\ \A k \in 1..(h - 1) : r[k] = blks[k]
      BY <1>1, <2>1
    <2>3. DOMAIN r = 1..(h - 1) /\ \A k \in 1..(h - 1) : k \in DOMAIN blks
      BY <1>1, <2>1, <2>2
    <2> HIDE DEF r
    <2>4. ASSUME NEW k \in DOMAIN r PROVE k \in DOMAIN blks /\ r[k] = blks[k] /\ (k # 1 => k - 1 \in DOMAIN r /\ r[k - 1] = blks[k - 1])
      BY <2>1, <2>2, <2>3
    <2>5. Nest(r)
      BY <2>4 DEF Nest
    <2>6. Depth(r) = blks[h].frames
      <3>1. CASE h = 1
        <4>1. r = <<>>
          BY <2>2, <3>1
        <4> QED BY <3>1, <4>1 DEF Depth, Nest
      <3>2. CASE h # 1
        <4>1. r # <<>> /\ Last(r) = blks[h - 1]
          BY <2>1, <2>2, <3>2 DEF Last
        <4> QED BY <3>2, <4>1 DEF Depth, Nest
      <3> QED BY <3>1, <3>2
    <2> QED BY <2>2, <2>5, <2>6 DEF r
  <1>7. blks # <<>> => /\ Front(blks) \in Seq(Blocks) /\ Last(blks) \in Blocks
                       /\ Last(blks).frames >= 1 /\ Depth(blks) = Inside(Last(blks))
                       /\ Nest(Front(blks)) /\ Depth(Front(blks)) = Last(blks).frames
    <2> SUFFICES ASSUME blks # <<>> PROVE /\ Front(blks) \in Seq(Blocks) /\ Last(blks) \in Blocks
                       /\ Last(blks).frames >= 1 /\ Depth(blks) = Inside(Last(blks))
                       /\ Nest(Front(blks)) /\ Depth(Front(blks)) = Last(blks).frames
      OBVIOUS
    <2>1. Front(blks) = SubSeq(blks, 1, n - 1)
      BY DEF Front
    <2>2. n \in DOMAIN blks
      BY <1>1
    <2> HIDE DEF n
    <2>3. Front(blks) \in Seq(Blocks) /\ Nest(Front(blks)) /\ Depth(Front(blks)) = blks[n].frames
      BY <1>6, <2>1, <2>2
    <2>4. Last(blks) = blks[n] /\ Last(blks) \in Blocks /\ Last(blks).frames >= 1
      BY <1>2, <1>3, <2>2 DEF Nest
    <2> QED BY <1>3, <2>3, <2>4
  <1> QED BY <1>4, <1>5, <1>6, <1>7

\* Where the handler is.
LEMMA HandlerIn ==
    ASSUME TypeOK, NEW f \in Tasks
    PROVE  Handler(f) = 0 \/ Handler(f) \in DOMAIN blocks[f]
  <1> DEFINE S == {k \in DOMAIN blocks[f] : blocks[f][k].kind = "try"} \cup {0}
  <1>1. blocks[f] \in Seq(Blocks)
    BY DEF TypeOK
  <1>2. Len(blocks[f]) \in Nat /\ DOMAIN blocks[f] = 1..Len(blocks[f])
    BY <1>1
  <1>3. S \subseteq 0..Len(blocks[f]) /\ S # {}
    BY <1>2
  <1>4. Max(S) \in S
    BY <1>2, <1>3, Largest
  <1> QED BY <1>4 DEF Handler

\* How far the drops go.
LEMMA MarkNat ==
    ASSUME TypeOK, NEW f \in Tasks
    PROVE  DropMark(f) \in Nat
  <1> DEFINE k == IF pc[f] = "unwind" THEN Handler(f) ELSE Len(blocks[f])
  <1>1. blocks[f] \in Seq(Blocks)
    BY DEF TypeOK
  <1>2. Len(blocks[f]) \in Nat /\ DOMAIN blocks[f] = 1..Len(blocks[f])
    BY <1>1
  <1>3. k = 0 \/ k \in DOMAIN blocks[f]
    BY <1>2, HandlerIn
  <1>4. ASSUME NEW i \in DOMAIN blocks[f] PROVE blocks[f][i].drops \in Nat
    <2>1. blocks[f][i] \in Blocks
      BY <1>1
    <2> QED BY <2>1 DEF Blocks
  <1> QED BY <1>3, <1>4 DEF DropMark

\* What Goto changes.
LEMMA GotoTyped ==
    ASSUME TypeOK, NEW f \in Tasks, NEW l \in Labels, Goto(f, l)
    PROVE  /\ pc' \in [Tasks -> Labels] /\ handle' \in [Tasks -> Tasks \cup {None}]
           /\ woken' \subseteq Tasks /\ expired' \subseteq Tasks
           /\ pc'[f] = l
           /\ handle'[f] = IF l \in {"await", "read", "write", "drain"} THEN handle[f] ELSE None
           /\ \A g \in Tasks \ {f} : pc'[g] = pc[g] /\ handle'[g] = handle[g]
  BY DEF TypeOK, Goto

\* The fields of a scope exit that starts.
LEMMA ExitTyped ==
    ASSUME NEW goal \in {"exit", "return", "catch"}, NEW m \in Nat
    PROVE  /\ Exit(goal, m) \in Exits /\ Exit(goal, m).goal = goal /\ Exit(goal, m).mark = m
           /\ Exit(goal, m).i = 1
           /\ NoExit \in Exits
  BY DEF Exit, Exits, NoExit

\* A step that leaves frames, variables and the task fields alone keeps the types.
LEMMA Retyped ==
    ASSUME TypeOK, UNCHANGED <<frames, drops, ops, mutex, done, slot, freed, outer>>,
           pc' \in [Tasks -> Labels], handle' \in [Tasks -> Tasks \cup {None}],
           blocks' \in [Tasks -> Seq(Blocks)], join' \in [Tasks -> Exits],
           cancelled' \subseteq Tasks, parked' \subseteq Tasks, woken' \subseteq Tasks,
           expired' \subseteq Tasks, failed' \subseteq Tasks
    PROVE  TypeOK'
  BY DEF TypeOK

\* An operation stays within the bound.
LEMMA Counted ==
    ASSUME TypeOK, NEW f \in Tasks, Operation(f)
    PROVE  ops' \in [Tasks -> Nat] /\ \A g \in Tasks : ops'[g] <= MaxOps[g]
  <1>1. MaxOps[f] \in Nat /\ ops[f] \in Nat /\ ops \in [Tasks -> Nat] /\ \A g \in Tasks : ops[g] <= MaxOps[g]
    BY ScopeAssumption DEF TypeOK
  <1>2. ops[f] + 1 <= MaxOps[f] /\ ops[f] + 1 \in Nat
    BY <1>1 DEF Operation
  <1> QED BY <1>1, <1>2 DEF Operation

-----------------------------------------------------------------------------
(* Throwing and waiting.                                                   *)

\* A fiber moves between points of its body where it has its frames.
LEMMA Works ==
    ASSUME ScopeInv, NEW f \in Tasks, NEW l \in {"run", "await", "drain", "read", "write"}, Goto(f, l),
           pc[f] \in Working \ {"unborn"}, l # "run" => handle[f] # None,
           UNCHANGED <<blocks, frames, drops, join, ops, parked, mutex, done, slot, freed, outer>>,
           cancelled' \subseteq Tasks, failed' \subseteq failed,
           \A g \in Tasks : g \in failed /\ pc[g] \in {"complete", "wake"} => g \in failed'
    PROVE  ScopeInv'
  <1>1. TypeOK /\ l \in Labels
    BY DEF ScopeInv, Labels
  <1>2. /\ pc' \in [Tasks -> Labels] /\ handle' \in [Tasks -> Tasks \cup {None}]
        /\ woken' \subseteq Tasks /\ expired' \subseteq Tasks
        /\ pc'[f] = l /\ (l # "run" => handle'[f] = handle[f])
        /\ \A g \in Tasks \ {f} : pc'[g] = pc[g] /\ handle'[g] = handle[g]
    BY <1>1, GotoTyped
  <1>3. TypeOK'
    BY <1>1, <1>2, Retyped DEF TypeOK
  <1>4. Nested(f)
    BY DEF ScopeInv, Control
  <1>5. Nested(f)' /\ Joins(f)' /\ Completes(f)'
    BY <1>2, <1>4 DEF Nested, Joins, Completes, Working
  <1> QED BY <1>2, <1>3, <1>5, Moves DEF Working

\* An exception starts on its way.
LEMMA Raises ==
    ASSUME ScopeInv, NEW f \in Tasks, Raise(f), pc[f] \notin {"unborn", "wake", "gone"},
           UNCHANGED <<blocks, frames, drops, ops, parked, mutex, done, slot, freed, outer>>,
           cancelled' \subseteq Tasks, failed' \subseteq failed,
           \A g \in Tasks : g \in failed /\ pc[g] \in {"complete", "wake"} => g \in failed'
    PROVE  ScopeInv'
  <1> DEFINE l == IF pc[f] = "drain" THEN "run" ELSE "unwind"
  <1>1. TypeOK /\ l \in Labels /\ Goto(f, l) /\ l \in {"run", "unwind"}
    BY DEF ScopeInv, Labels, Raise
  <1>2. /\ pc' \in [Tasks -> Labels] /\ handle' \in [Tasks -> Tasks \cup {None}]
        /\ woken' \subseteq Tasks /\ expired' \subseteq Tasks
        /\ pc'[f] = l
        /\ \A g \in Tasks \ {f} : pc'[g] = pc[g] /\ handle'[g] = handle[g]
    BY <1>1, GotoTyped
  <1>3. join' \in [Tasks -> Exits] /\ \A g \in Tasks \ {f} : join'[g] = join[g]
    BY <1>1, ExitTyped DEF TypeOK, Raise
  <1>4. TypeOK'
    BY <1>1, <1>2, <1>3, Retyped DEF TypeOK
  <1>5. Nested(f)
    BY DEF ScopeInv, Control
  <1>6. l = "run" => pc[f] \in Working
    BY DEF Working
  <1> HIDE DEF l
  <1>7. Nested(f)' /\ Joins(f)' /\ Completes(f)'
    BY <1>1, <1>2, <1>5, <1>6 DEF Nested, Joins, Completes, Working
  <1> QED BY <1>1, <1>2, <1>3, <1>4, <1>7, Moves

\* The body throws.
LEMMA ThrowInv ==
    ASSUME ScopeInv, NEW f \in Tasks, Throw(f), UNCHANGED outer
    PROVE  ScopeInv'
  <1>1. /\ pc[f] = "run" /\ Raise(f) /\ failed' = failed
        /\ UNCHANGED <<blocks, frames, drops, ops, parked, mutex, done, slot, freed, outer, cancelled>>
    BY DEF Throw, taskVars
  <1>2. cancelled' \subseteq Tasks
    BY <1>1 DEF ScopeInv, TypeOK
  <1> QED BY <1>1, <1>2, Raises

\* Where a fiber waits.
LEMMA Waits ==
    ASSUME NEW f, InWait(f)
    PROVE  pc[f] \in {"await", "timed", "drain", "join", "drop", "unwind"}
  BY DEF InWait, Dropping, Joining

\* A wait is thrown out of by a cancellation.
LEMMA WaitCancelledInv ==
    ASSUME ScopeInv, NEW f \in Tasks, WaitCancelled(f), UNCHANGED outer
    PROVE  ScopeInv'
  <1>1. /\ InWait(f) /\ Raise(f) /\ failed' = failed /\ cancelled' = cancelled \ {f}
        /\ UNCHANGED <<blocks, frames, drops, ops, parked, mutex, done, slot, freed, outer>>
    BY DEF WaitCancelled, Running, taskVars
  <1>2. cancelled' \subseteq Tasks
    BY <1>1 DEF ScopeInv, TypeOK
  <1>3. pc[f] \notin {"unborn", "wake", "gone"}
    BY <1>1, Waits
  <1> QED BY <1>1, <1>2, <1>3, Raises

\* A fiber parks, a deadline passes, the scope of Root cancels it.
LEMMA RestInv ==
    ASSUME ScopeInv,
           \/ \E f \in Tasks : (Park(f) \/ Deadline(f)) /\ UNCHANGED outer
           \/ CancelRoot
    PROVE  ScopeInv'
  <1>1. UNCHANGED <<pc, handle, blocks, frames, drops, join, ops, mutex, taskVars>>
    BY DEF Park, Deadline, CancelRoot, bodyVars
  <1>2. /\ cancelled' \subseteq Tasks /\ parked' \subseteq Tasks /\ woken' \subseteq Tasks
        /\ expired' \subseteq Tasks /\ outer' \in BOOLEAN
    <2>1. ASSUME NEW f \in Tasks, Park(f), UNCHANGED outer
          PROVE  /\ cancelled' \subseteq Tasks /\ parked' \subseteq Tasks /\ woken' \subseteq Tasks
                 /\ expired' \subseteq Tasks /\ outer' \in BOOLEAN
      BY <2>1 DEF ScopeInv, TypeOK, Park
    <2>2. ASSUME NEW f \in Tasks, Deadline(f), UNCHANGED outer
          PROVE  /\ cancelled' \subseteq Tasks /\ parked' \subseteq Tasks /\ woken' \subseteq Tasks
                 /\ expired' \subseteq Tasks /\ outer' \in BOOLEAN
      BY <2>2 DEF ScopeInv, TypeOK, Deadline
    <2>3. CASE CancelRoot
      BY <2>3, ScopeAssumption DEF ScopeInv, TypeOK, CancelRoot
    <2> QED BY <2>1, <2>2, <2>3
  <1>3. TypeOK'
    BY <1>1, <1>2 DEF ScopeInv, TypeOK, taskVars
  <1> QED BY <1>1, <1>3, Rests

\* While nobody holds the task mutex, a task that is done is not being completed.
LEMMA NoneWakes ==
    ASSUME ScopeInv, mutex = None, NEW t \in done
    PROVE  t \in Tasks /\ pc[t] \notin {"complete", "wake"}
  <1>1. t \in Tasks /\ Lives(t)
    BY DEF ScopeInv, TypeOK, Control
  <1> QED BY <1>1, ScopeAssumption DEF Lives

\* A task is awaited, and its exception taken out of it.
LEMMA AwaitedInv ==
    ASSUME ScopeInv, NEW f \in Tasks, Awaited(f), UNCHANGED outer
    PROVE  ScopeInv'
  <1>1. /\ pc[f] \in {"await", "drain"} /\ mutex = None /\ Target(f) \in done
        /\ failed' = failed \ {handle[f]}
        /\ UNCHANGED <<blocks, frames, drops, ops, cancelled, parked, mutex, done, slot, freed, outer>>
        /\ Raise(f) \/ (Goto(f, "run") /\ join' = join)
    BY DEF Awaited, Waited, Running
  <1>2. handle[f] \in done
    BY <1>1 DEF Target
  <1>3. /\ cancelled' \subseteq Tasks /\ failed' \subseteq failed
        /\ \A g \in Tasks : g \in failed /\ pc[g] \in {"complete", "wake"} => g \in failed'
    BY <1>1, <1>2, NoneWakes DEF ScopeInv, TypeOK
  <1>4. CASE Raise(f)
    BY <1>1, <1>3, <1>4, Raises
  <1>5. CASE Goto(f, "run") /\ join' = join
    BY <1>1, <1>3, <1>5, Works DEF Working
  <1> QED BY <1>1, <1>4, <1>5

\* A timed wait is over.
LEMMA TimedOverInv ==
    ASSUME ScopeInv, NEW f \in Tasks, TimedOver(f), UNCHANGED outer
    PROVE  ScopeInv'
  <1>1. /\ pc[f] = "timed" /\ failed' = failed
        /\ UNCHANGED <<blocks, frames, drops, join, ops, cancelled, parked, mutex, done, slot, freed, outer>>
        /\ \/ Target(f) \in done /\ Goto(f, "await")
           \/ Goto(f, IF handle[f] = None THEN "run" ELSE "read")
    BY DEF TimedOver, Waited, taskVars
  <1>2. cancelled' \subseteq Tasks /\ done \subseteq Tasks
    BY <1>1 DEF ScopeInv, TypeOK
  <1>3. CASE Target(f) \in done /\ Goto(f, "await")
    <2>1. handle[f] # None
      BY <1>1, <1>2, <1>3, ScopeAssumption DEF Target
    <2> QED BY <1>1, <1>2, <1>3, <2>1, Works DEF Working
  <1>4. CASE handle[f] = None /\ Goto(f, "run")
    BY <1>1, <1>2, <1>4, Works DEF Working
  <1>5. CASE handle[f] # None /\ Goto(f, "read")
    BY <1>1, <1>2, <1>5, Works DEF Working
  <1> QED BY <1>1, <1>3, <1>4, <1>5

\* The fiber slot is loaded; the fiber is marked.
LEMMA TaskCancelInv ==
    ASSUME ScopeInv, NEW f \in Tasks, TaskCancelRead(f) \/ TaskCancelWrite(f), UNCHANGED outer
    PROVE  ScopeInv'
  <1>1. /\ pc[f] \in {"read", "write"} /\ failed' = failed
        /\ UNCHANGED <<blocks, frames, drops, join, ops, parked, mutex, done, slot, freed, outer>>
        /\ Goto(f, "write") \/ Goto(f, "drain")
        /\ cancelled' \subseteq cancelled \cup {handle[f]}
    BY DEF TaskCancelRead, TaskCancelWrite, taskVars
  <1>2. handle[f] \in Tasks
    BY <1>1 DEF ScopeInv, TypeOK, Control, Lives
  <1>3. handle[f] # None /\ cancelled' \subseteq Tasks
    BY <1>1, <1>2, ScopeAssumption DEF ScopeInv, TypeOK
  <1> QED BY <1>1, <1>3, Works DEF Working

-----------------------------------------------------------------------------
(* The body.                                                               *)

\* A task held in a variable is awaited.
LEMMA AwaitInv ==
    ASSUME ScopeInv, NEW f \in Tasks, NEW t \in Tasks, NEW how \in {"await", "timed"}, Await(f, t, how),
           UNCHANGED outer
    PROVE  ScopeInv'
  <1>1. /\ pc[f] = "run" /\ pc' = [pc EXCEPT ![f] = how] /\ handle' = [handle EXCEPT ![f] = t]
        /\ UNCHANGED <<blocks, frames, drops, join, waitVars, taskVars, outer>>
    BY DEF Await, Operation
  <1>2. ops' \in [Tasks -> Nat] /\ \A g \in Tasks : ops'[g] <= MaxOps[g]
    BY Counted DEF Await, ScopeInv
  <1>3. /\ pc' \in [Tasks -> Labels] /\ handle' \in [Tasks -> Tasks \cup {None}]
        /\ pc'[f] = how /\ handle'[f] = t
        /\ \A g \in Tasks \ {f} : pc'[g] = pc[g] /\ handle'[g] = handle[g]
    BY <1>1 DEF ScopeInv, TypeOK, Labels
  <1>4. TypeOK'
    BY <1>1, <1>2, <1>3 DEF ScopeInv, TypeOK, waitVars, taskVars
  <1>5. Nested(f) /\ t # None
    BY ScopeAssumption DEF ScopeInv, Control
  <1>6. Nested(f)' /\ Joins(f)' /\ Completes(f)'
    BY <1>1, <1>3, <1>5 DEF Nested, Joins, Completes, Working
  <1>7. UNCHANGED <<mutex, done, failed, slot, freed>>
    BY <1>1 DEF waitVars, taskVars
  <1> QED BY <1>1, <1>3, <1>4, <1>5, <1>6, <1>7, Moves

\* A sleep begins.
LEMMA SleepInv ==
    ASSUME ScopeInv, NEW f \in Tasks, Sleep(f), UNCHANGED outer
    PROVE  ScopeInv'
  <1>1. /\ pc[f] = "run" /\ pc' = [pc EXCEPT ![f] = "timed"]
        /\ UNCHANGED <<handle, blocks, frames, drops, join, waitVars, taskVars, outer>>
    BY DEF Sleep, Operation
  <1>2. ops' \in [Tasks -> Nat] /\ \A g \in Tasks : ops'[g] <= MaxOps[g]
    BY Counted DEF Sleep, ScopeInv
  <1>3. /\ pc' \in [Tasks -> Labels] /\ pc'[f] = "timed" /\ \A g \in Tasks \ {f} : pc'[g] = pc[g]
    BY <1>1 DEF ScopeInv, TypeOK, Labels
  <1>4. TypeOK'
    BY <1>1, <1>2, <1>3 DEF ScopeInv, TypeOK, waitVars, taskVars
  <1>5. Nested(f)
    BY DEF ScopeInv, Control
  <1>6. Nested(f)' /\ Joins(f)' /\ Completes(f)'
    BY <1>1, <1>3, <1>5 DEF Nested, Joins, Completes, Working
  <1>7. UNCHANGED <<mutex, done, failed, slot, freed>>
    BY <1>1 DEF waitVars, taskVars
  <1> QED BY <1>1, <1>3, <1>4, <1>6, <1>7, Moves

-----------------------------------------------------------------------------
(* Leaving blocks, and joining.                                            *)

\* The innermost frame of a fiber.
LEMMA Innermost ==
    ASSUME TypeOK, NEW f \in Tasks
    PROVE  /\ frames[f] \in Seq(Frames) /\ Len(frames[f]) \in Nat
           /\ frames[f] = <<>> <=> Len(frames[f]) = 0
           /\ frames[f] # <<>> =>
                /\ Len(frames[f]) \in DOMAIN frames[f] /\ Last(frames[f]) = frames[f][Len(frames[f])]
                /\ Last(frames[f]) \in Frames
                /\ Last(frames[f]).entries \in Seq(Entries)
                /\ Len(Last(frames[f]).entries) <= Last(frames[f]).cap
                /\ Len(Last(frames[f]).entries) \in Nat
                /\ DOMAIN Last(frames[f]).entries = 1..Len(Last(frames[f]).entries)
  <1>1. frames[f] \in Seq(Frames)
    BY DEF TypeOK
  <1>2. Len(frames[f]) \in Nat /\ (frames[f] = <<>> <=> Len(frames[f]) = 0) /\ DOMAIN frames[f] = 1..Len(frames[f])
    BY <1>1
  <1>3. ASSUME frames[f] # <<>>
        PROVE  /\ Len(frames[f]) \in DOMAIN frames[f] /\ Last(frames[f]) = frames[f][Len(frames[f])]
               /\ Last(frames[f]) \in Frames
               /\ Last(frames[f]).entries \in Seq(Entries)
               /\ Len(Last(frames[f]).entries) <= Last(frames[f]).cap
    <2>1. Len(frames[f]) \in DOMAIN frames[f] /\ Last(frames[f]) = frames[f][Len(frames[f])]
      BY <1>2, <1>3 DEF Last
    <2>2. Last(frames[f]) \in Frames
      BY <1>1, <2>1
    <2>3. Last(frames[f]).entries \in Seq(Entries)
      BY <2>2 DEF Frames
    <2>4. Len(Last(frames[f]).entries) <= Last(frames[f]).cap
      BY <2>1 DEF TypeOK
    <2> QED BY <2>1, <2>2, <2>3, <2>4
  <1>4. ASSUME NEW es \in Seq(Entries) PROVE Len(es) \in Nat /\ DOMAIN es = 1..Len(es)
    OBVIOUS
  <1> QED BY <1>1, <1>2, <1>3, <1>4

\* A scope exit that starts has passed nobody.
LEMMA Starts ==
    ASSUME TypeOK, NEW f \in Tasks, frames'[f] = frames[f], join'[f].i = 1
    PROVE  Joins(f)'
  <1>1. frames[f] # <<>> => \A i \in DOMAIN Last(frames[f]).entries : ~(i < 1)
    BY Innermost
  <1> QED BY <1>1 DEF Joins

\* A body leaves its blocks, or one of them.
LEMMA LeaveInv ==
    ASSUME ScopeInv, NEW f \in Tasks, NEW how \in Exits, NEW rest \in Seq(Blocks), Leave(f, how, rest),
           how.i = 1, Nest(rest),
           how.goal = "catch" => rest # <<>> /\ Len(frames[f]) = Last(rest).frames,
           how.goal = "return" => how.mark = 0 /\ rest = <<>>,
           how.goal = "exit" => rest # <<>> /\ how.mark = Last(rest).frames,
           UNCHANGED outer
    PROVE  ScopeInv'
  <1> DEFINE l == IF how.goal = "catch" THEN "drop" ELSE "join"
  <1>1. /\ pc[f] = "run" /\ Goto(f, l) /\ l \in Labels
        /\ join' = [join EXCEPT ![f] = IF how.goal = "catch" THEN @ ELSE how]
        /\ blocks' = [blocks EXCEPT ![f] = rest]
        /\ UNCHANGED <<frames, drops, ops, cancelled, parked, mutex, done, failed, slot, freed, outer>>
    BY DEF Leave, taskVars, Labels
  <1>0. TypeOK
    BY DEF ScopeInv
  <1>2. /\ pc' \in [Tasks -> Labels] /\ handle' \in [Tasks -> Tasks \cup {None}]
        /\ woken' \subseteq Tasks /\ expired' \subseteq Tasks
        /\ pc'[f] = l
        /\ \A g \in Tasks \ {f} : pc'[g] = pc[g] /\ handle'[g] = handle[g]
    BY <1>0, <1>1, GotoTyped
  <1>3. /\ join' \in [Tasks -> Exits] /\ \A g \in Tasks \ {f} : join'[g] = join[g] /\ blocks'[g] = blocks[g]
        /\ blocks' \in [Tasks -> Seq(Blocks)] /\ blocks'[f] = rest
        /\ how.goal # "catch" => join'[f] = how
    BY <1>0, <1>1 DEF TypeOK
  <1>4. TypeOK'
    BY <1>0, <1>1, <1>2, <1>3, Retyped DEF TypeOK
  <1>5. Nested(f)'
    <2>1. CASE how.goal = "catch"
      BY <1>1, <1>2, <1>3, <2>1 DEF Nested, Working
    <2>2. CASE how.goal # "catch"
      <3>1. how.goal \in {"return", "exit"}
        BY <2>2 DEF Exits
      <3>2. Mark(f)'
        BY <1>3, <2>2, <3>1 DEF Mark
      <3> QED BY <1>2, <1>3, <2>2, <3>2 DEF Nested, Working
    <2> QED BY <2>1, <2>2
  <1>6. Joins(f)'
    <2>1. CASE how.goal = "catch"
      BY <1>2, <2>1 DEF Joins
    <2>2. CASE how.goal # "catch"
      BY <1>0, <1>1, <1>3, <2>2, Starts
    <2> QED BY <2>1, <2>2
  <1>7. Completes(f)' /\ l \in {"join", "drop"}
    BY <1>2 DEF Completes
  <1> QED BY <1>1, <1>2, <1>3, <1>4, <1>5, <1>6, <1>7, Moves

\* A return leaves all blocks.
LEMMA ReturnInv ==
    ASSUME ScopeInv, NEW f \in Tasks, Return(f), UNCHANGED outer
    PROVE  ScopeInv'
  <1>1. /\ Exit("return", 0) \in Exits /\ Exit("return", 0).goal = "return"
        /\ Exit("return", 0).mark = 0 /\ Exit("return", 0).i = 1
    BY ExitTyped
  <1>2. <<>> \in Seq(Blocks) /\ Nest(<<>>)
    BY DEF Nest
  <1>3. Leave(f, Exit("return", 0), <<>>)
    BY DEF Return
  <1> QED BY <1>1, <1>2, <1>3, LeaveInv

\* The end of a block leaves its scope, or drops its variables.
LEMMA EndBlockInv ==
    ASSUME ScopeInv, NEW f \in Tasks, EndBlock(f), UNCHANGED outer
    PROVE  ScopeInv'
  <1> DEFINE goal == IF Last(blocks[f]).kind = "scope" THEN "exit" ELSE "catch"
             m == Len(frames[f]) - 1
  <1>1. /\ blocks[f] # <<>> /\ pc[f] = "run" /\ Leave(f, Exit(goal, m), blocks[f])
    BY DEF EndBlock, Leave
  <1>2. blocks[f] \in Seq(Blocks) /\ Nested(f)
    BY DEF ScopeInv, TypeOK, Control
  <1>3. /\ Nest(blocks[f]) /\ Len(frames[f]) = Inside(Last(blocks[f]))
        /\ Last(blocks[f]) \in Blocks /\ Last(blocks[f]).frames >= 1
    BY <1>1, <1>2, Nesting DEF Nested, Working
  <1>4. /\ Last(blocks[f]).frames \in Nat
        /\ goal = "exit" => m = Last(blocks[f]).frames
        /\ goal = "catch" => Len(frames[f]) = Last(blocks[f]).frames
        /\ goal \in {"exit", "catch"} /\ m \in Nat
    BY <1>3 DEF Blocks, Inside
  <1> HIDE DEF goal, m
  <1>5. /\ Exit(goal, m) \in Exits /\ Exit(goal, m).goal = goal
        /\ Exit(goal, m).mark = m /\ Exit(goal, m).i = 1
    BY <1>4, ExitTyped
  <1> QED BY <1>1, <1>2, <1>3, <1>4, <1>5, LeaveInv

\* A scope exit passes a child that is done; one that had thrown is the trigger.
LEMMA JoinChildInv ==
    ASSUME ScopeInv, NEW f \in Tasks, JoinChild(f), UNCHANGED outer
    PROVE  ScopeInv'
  <1> DEFINE es == Last(frames[f]).entries
             i == join[f].i
             fails == ~join[f].frame_trigger /\ es[i].task \in failed
  <1>0. TypeOK
    BY DEF ScopeInv
  <1>1. /\ pc[f] = "join" /\ Target(f) \in done
        /\ join' = [join EXCEPT ![f].i = i + 1, ![f].frame_trigger = @ \/ fails]
        /\ cancelled' \subseteq cancelled \cup slot
        /\ UNCHANGED <<pc, handle, blocks, frames, drops, ops, parked, woken, expired, mutex,
                       done, failed, slot, freed, outer>>
    BY DEF JoinChild, Waited, taskVars
  <1>2. es[i].task \in done
    BY <1>1 DEF Target, Entry
  <1>3. /\ join[f] \in Exits /\ i \in Nat /\ join' \in [Tasks -> Exits]
        /\ \A g \in Tasks \ {f} : join'[g] = join[g]
        /\ join'[f].goal = join[f].goal /\ join'[f].mark = join[f].mark
        /\ join'[f].i = i + 1 /\ join'[f].frame_trigger = (join[f].frame_trigger \/ fails)
    <2> DEFINE r == [join[f] EXCEPT !.i = i + 1, !.frame_trigger = @ \/ fails]
    <2>1. join \in [Tasks -> Exits] /\ join[f] \in Exits
      BY <1>0 DEF TypeOK
    <2>2. i \in Nat /\ i + 1 \in Nat
      BY <2>1 DEF Exits
    <2>3. /\ r \in Exits /\ r.goal = join[f].goal /\ r.mark = join[f].mark
          /\ r.i = i + 1 /\ r.frame_trigger = (join[f].frame_trigger \/ fails)
      BY <2>1, <2>2 DEF Exits
    <2>4. join' = [join EXCEPT ![f] = r]
      BY <1>1, <2>1
    <2> HIDE DEF r
    <2> QED BY <2>1, <2>2, <2>3, <2>4
  <1>4. TypeOK'
    BY <1>0, <1>1, <1>3, Retyped DEF TypeOK
  <1>5. Nested(f) /\ Joins(f)
    BY DEF ScopeInv, Control
  <1>6. Nested(f)'
    BY <1>1, <1>3, <1>5 DEF Nested, Mark
  <1>7. Joins(f)'
    <2> SUFFICES ASSUME frames[f] # <<>>, NEW k \in DOMAIN es, k < i + 1,
                        es[k].task # None
                 PROVE  es[k].task \in done /\ (es[k].task \in failed => join[f].frame_trigger \/ fails)
      BY <1>1, <1>3 DEF Joins
    <2>1. k \in Nat
      BY <1>0, Innermost
    <2>2. CASE k = i
      BY <1>2, <2>2
    <2>3. CASE k # i
      <3>1. k < i
        BY <1>3, <2>1, <2>3
      <3> QED BY <1>1, <1>5, <3>1 DEF Joins
    <2> QED BY <2>2, <2>3
  <1>8. Completes(f)'
    BY <1>1 DEF Completes
  <1> QED BY <1>1, <1>3, <1>4, <1>6, <1>7, <1>8, Moves

\* A scope exit passes an entry that has been cleared.
LEMMA SkipClearedInv ==
    ASSUME ScopeInv, NEW f \in Tasks, SkipCleared(f), UNCHANGED outer
    PROVE  ScopeInv'
  <1> DEFINE es == Last(frames[f]).entries
             i == join[f].i
  <1>0. TypeOK
    BY DEF ScopeInv
  <1>1. /\ pc[f] = "join" /\ es[i].task = None
        /\ join' = [join EXCEPT ![f].i = @ + 1]
        /\ UNCHANGED <<pc, handle, blocks, frames, drops, ops, cancelled, parked, woken, expired, mutex,
                       done, failed, slot, freed, outer>>
    BY DEF SkipCleared, Joining, Entry, taskVars, waitVars
  <1>3. /\ join[f] \in Exits /\ i \in Nat /\ join' \in [Tasks -> Exits]
        /\ \A g \in Tasks \ {f} : join'[g] = join[g]
        /\ join'[f].goal = join[f].goal /\ join'[f].mark = join[f].mark
        /\ join'[f].i = i + 1 /\ join'[f].frame_trigger = join[f].frame_trigger
    <2> DEFINE r == [join[f] EXCEPT !.i = @ + 1]
    <2>1. join \in [Tasks -> Exits] /\ join[f] \in Exits
      BY <1>0 DEF TypeOK
    <2>2. i \in Nat /\ i + 1 \in Nat
      BY <2>1 DEF Exits
    <2>3. /\ r \in Exits /\ r.goal = join[f].goal /\ r.mark = join[f].mark
          /\ r.i = i + 1 /\ r.frame_trigger = join[f].frame_trigger
      BY <2>1, <2>2 DEF Exits
    <2>4. join' = [join EXCEPT ![f] = r]
      BY <1>1, <2>1
    <2> HIDE DEF r
    <2> QED BY <2>1, <2>2, <2>3, <2>4
  <1>4. TypeOK'
    BY <1>0, <1>1, <1>3, Retyped DEF TypeOK
  <1>5. Nested(f) /\ Joins(f)
    BY DEF ScopeInv, Control
  <1>6. Nested(f)'
    BY <1>1, <1>3, <1>5 DEF Nested, Mark
  <1>7. Joins(f)'
    <2> SUFFICES ASSUME frames[f] # <<>>, NEW k \in DOMAIN es, k < i + 1,
                        es[k].task # None
                 PROVE  es[k].task \in done /\ (es[k].task \in failed => join[f].frame_trigger)
      BY <1>1, <1>3 DEF Joins
    <2>1. k \in Nat /\ k # i
      BY <1>0, <1>1, Innermost
    <2>2. k < i
      BY <1>3, <2>1
    <2> QED BY <1>1, <1>5, <2>2 DEF Joins
  <1>8. Completes(f)'
    BY <1>1 DEF Completes
  <1> QED BY <1>1, <1>3, <1>4, <1>6, <1>7, <1>8, Moves

\* The frames are popped: the body goes on, or an exception does.
LEMMA JoinedInv ==
    ASSUME ScopeInv, NEW f \in Tasks, Joined(f), UNCHANGED outer
    PROVE  ScopeInv'
  <1>1. /\ pc[f] = "join" /\ Len(frames[f]) = join[f].mark
        /\ UNCHANGED <<blocks, frames, drops, ops, cancelled, parked, mutex, done, failed, slot, freed, outer>>
        /\ \/ Raise(f)
           \/ /\ Goto(f, IF join[f].goal = "catch" THEN "run" ELSE "drop")
              /\ join' = [join EXCEPT ![f] = NoExit]
    BY DEF Joined, taskVars
  <1>0. TypeOK
    BY DEF ScopeInv
  <1>2. CASE Raise(f)
    <2>1. cancelled' \subseteq Tasks
      BY <1>0, <1>1 DEF TypeOK
    <2> QED BY <1>1, <1>2, <2>1, Raises
  <1>3. CASE /\ Goto(f, IF join[f].goal = "catch" THEN "run" ELSE "drop")
             /\ join' = [join EXCEPT ![f] = NoExit]
    <2> DEFINE l == IF join[f].goal = "catch" THEN "run" ELSE "drop"
    <2>1. /\ pc' \in [Tasks -> Labels] /\ handle' \in [Tasks -> Tasks \cup {None}]
          /\ woken' \subseteq Tasks /\ expired' \subseteq Tasks
          /\ pc'[f] = l /\ l \in {"run", "drop"}
          /\ \A g \in Tasks \ {f} : pc'[g] = pc[g] /\ handle'[g] = handle[g]
      <3>1. l \in Labels /\ Goto(f, l)
        BY <1>3 DEF Labels
      <3> QED BY <1>0, <3>1, GotoTyped
    <2>2. join' \in [Tasks -> Exits] /\ \A g \in Tasks \ {f} : join'[g] = join[g]
      BY <1>0, <1>3, ExitTyped DEF TypeOK
    <2>3. TypeOK'
      BY <1>0, <1>1, <2>1, <2>2, Retyped DEF TypeOK
    <2>4. Nested(f)'
      <3>1. Nested(f) /\ Mark(f) /\ join[f].goal \in {"exit", "return", "catch"}
        BY <1>0, <1>1 DEF ScopeInv, Control, Nested, TypeOK, Exits
      <3>2. CASE join[f].goal = "catch"
        BY <1>1, <2>1, <3>1, <3>2 DEF Nested, Mark, Working
      <3>3. CASE join[f].goal # "catch"
        BY <1>1, <2>1, <3>1, <3>3 DEF Nested, Mark, Working
      <3> QED BY <3>2, <3>3
    <2>5. Joins(f)' /\ Completes(f)'
      BY <2>1 DEF Joins, Completes
    <2> HIDE DEF l
    <2> QED BY <1>1, <2>1, <2>2, <2>3, <2>4, <2>5, Moves
  <1> QED BY <1>1, <1>2, <1>3

\* When nothing is left to drop down to the bottom, nothing is left.
LEMMA AllDropped ==
    ASSUME TypeOK, NEW f \in Tasks, pc[f] \in {"drop", "unwind"}, ~Dropping(f), DropMark(f) = 0
    PROVE  drops[f] = <<>>
  <1>1. drops[f] \in Seq(Tasks)
    BY DEF TypeOK
  <1>2. Len(drops[f]) \in Nat /\ ~(Len(drops[f]) > 0)
    BY <1>1 DEF Dropping
  <1> QED BY <1>1, <1>2

\* The variables of a block, or of the body, are dropped.
LEMMA DroppedInv ==
    ASSUME ScopeInv, NEW f \in Tasks, Dropped(f), UNCHANGED outer
    PROVE  ScopeInv'
  <1> DEFINE l == IF blocks[f] = <<>> THEN "complete" ELSE "run"
  <1>0. TypeOK /\ Nested(f) /\ blocks[f] \in Seq(Blocks)
    BY DEF ScopeInv, Control, TypeOK
  <1>1. /\ pc[f] = "drop" /\ ~Dropping(f) /\ Goto(f, l) /\ l \in Labels
        /\ blocks' = [blocks EXCEPT ![f] = IF @ = <<>> THEN @ ELSE Front(@)]
        /\ UNCHANGED <<frames, drops, join, ops, cancelled, parked, mutex, done, failed, slot, freed, outer>>
    BY DEF Dropped, taskVars, Labels
  <1>2. /\ pc' \in [Tasks -> Labels] /\ handle' \in [Tasks -> Tasks \cup {None}]
        /\ woken' \subseteq Tasks /\ expired' \subseteq Tasks
        /\ pc'[f] = l /\ l \in {"complete", "run"}
        /\ \A g \in Tasks \ {f} : pc'[g] = pc[g] /\ handle'[g] = handle[g]
    BY <1>0, <1>1, GotoTyped
  <1>3. Nest(blocks[f])
    BY <1>0 DEF Nested
  <1>4. CASE blocks[f] = <<>>
    <2>1. blocks' = blocks
      BY <1>0, <1>1, <1>4 DEF TypeOK
    <2>2. TypeOK'
      BY <1>0, <1>1, <1>2, <2>1, Retyped DEF TypeOK
    <2>3. Nested(f)' /\ Joins(f)'
      BY <1>2, <1>3, <1>4, <2>1 DEF Nested, Joins, Working
    <2>4. drops[f] = <<>>
      <3>1. DropMark(f) = 0
        BY <1>1, <1>4 DEF DropMark
      <3> QED BY <1>0, <1>1, <3>1, AllDropped
    <2>5. frames[f] = <<>>
      BY <1>0, <1>1, <1>4, Innermost DEF Nested
    <2>6. Completes(f)'
      BY <1>1, <2>4, <2>5 DEF Completes
    <2> HIDE DEF l
    <2> QED BY <1>1, <1>2, <2>1, <2>2, <2>3, <2>6, Moves
  <1>5. CASE blocks[f] # <<>>
    <2>1. /\ Front(blocks[f]) \in Seq(Blocks) /\ Nest(Front(blocks[f]))
          /\ Depth(Front(blocks[f])) = Last(blocks[f]).frames
      BY <1>0, <1>3, <1>5, Nesting
    <2>2. /\ blocks' \in [Tasks -> Seq(Blocks)] /\ blocks'[f] = Front(blocks[f])
          /\ \A g \in Tasks \ {f} : blocks'[g] = blocks[g]
      BY <1>0, <1>1, <1>5, <2>1 DEF TypeOK
    <2>3. TypeOK'
      BY <1>0, <1>1, <1>2, <2>2, Retyped DEF TypeOK
    <2>4. pc'[f] = "run"
      BY <1>2, <1>5
    <2>5. Nested(f)' /\ Joins(f)' /\ Completes(f)'
      BY <1>0, <1>1, <1>5, <2>1, <2>2, <2>4 DEF Nested, Joins, Completes, Working
    <2> HIDE DEF l
    <2> QED BY <1>1, <1>2, <2>2, <2>3, <2>4, <2>5, Moves
  <1> QED BY <1>4, <1>5

\* What has been thrown lands: the handler leaves the scopes of its body, or the body is over.
LEMMA LandInv ==
    ASSUME ScopeInv, NEW f \in Tasks, Land(f), UNCHANGED outer
    PROVE  ScopeInv'
  <1> DEFINE h == Handler(f)
  <1>0. TypeOK /\ Nested(f) /\ Lives(f) /\ blocks[f] \in Seq(Blocks)
    BY DEF ScopeInv, Control, TypeOK
  <1>1. /\ pc[f] = "unwind" /\ ~Dropping(f)
        /\ UNCHANGED <<frames, drops, ops, cancelled, parked, mutex, done, slot, freed, outer>>
    BY DEF Land
  <1>2. Nest(blocks[f])
    BY <1>0 DEF Nested
  <1>3. CASE /\ h > 0
             /\ Goto(f, "join")
             /\ join' = [join EXCEPT ![f] = Exit("catch", blocks[f][h].frames)]
             /\ blocks' = [blocks EXCEPT ![f] = SubSeq(@, 1, h - 1)]
             /\ UNCHANGED failed
    <2>1. h \in DOMAIN blocks[f]
      BY <1>0, <1>3, HandlerIn
    <2> DEFINE rest == SubSeq(blocks[f], 1, h - 1)
               m == blocks[f][h].frames
    <2>2. rest \in Seq(Blocks) /\ Nest(rest) /\ Depth(rest) = m /\ m \in Nat
      BY <1>0, <1>2, <2>1, Nesting
    <2>3. /\ pc' \in [Tasks -> Labels] /\ handle' \in [Tasks -> Tasks \cup {None}]
          /\ woken' \subseteq Tasks /\ expired' \subseteq Tasks
          /\ pc'[f] = "join" /\ \A g \in Tasks \ {f} : pc'[g] = pc[g] /\ handle'[g] = handle[g]
      BY <1>0, <1>3, GotoTyped DEF Labels
    <2>4. blocks' = [blocks EXCEPT ![f] = rest] /\ join' = [join EXCEPT ![f] = Exit("catch", m)]
      BY <1>0, <1>3 DEF TypeOK
    <2>5. /\ Exit("catch", m) \in Exits /\ Exit("catch", m).goal = "catch"
          /\ Exit("catch", m).mark = m /\ Exit("catch", m).i = 1
      BY <2>2, ExitTyped
    <2> HIDE DEF rest, m, h
    <2>6. /\ blocks' \in [Tasks -> Seq(Blocks)] /\ join' \in [Tasks -> Exits]
          /\ blocks'[f] = rest /\ join'[f] = Exit("catch", m)
          /\ \A g \in Tasks \ {f} : blocks'[g] = blocks[g] /\ join'[g] = join[g]
      BY <1>0, <2>2, <2>4, <2>5 DEF TypeOK
    <2>7. failed' = failed
      BY <1>3
    <2>8. TypeOK'
      BY <1>0, <1>1, <2>3, <2>6, <2>7, Retyped DEF TypeOK
    <2>9. Mark(f)'
      BY <2>2, <2>5, <2>6 DEF Mark
    <2>10. Nested(f)'
      BY <2>2, <2>3, <2>6, <2>9 DEF Nested, Working
    <2>11. Joins(f)'
      BY <1>0, <1>1, <2>5, <2>6, Starts
    <2>12. Completes(f)'
      BY <2>3 DEF Completes
    <2> QED BY <1>1, <2>3, <2>6, <2>7, <2>8, <2>10, <2>11, <2>12, Moves
  <1>4. CASE /\ h = 0
             /\ Goto(f, "complete")
             /\ blocks' = [blocks EXCEPT ![f] = <<>>]
             /\ failed' = failed \cup {f}
             /\ UNCHANGED join
    <2>1. drops[f] = <<>>
      <3>1. DropMark(f) = 0
        BY <1>1, <1>4 DEF DropMark
      <3> QED BY <1>0, <1>1, <3>1, AllDropped
    <2>2. /\ pc' \in [Tasks -> Labels] /\ handle' \in [Tasks -> Tasks \cup {None}]
          /\ woken' \subseteq Tasks /\ expired' \subseteq Tasks
          /\ pc'[f] = "complete" /\ \A g \in Tasks \ {f} : pc'[g] = pc[g] /\ handle'[g] = handle[g]
      BY <1>0, <1>4, GotoTyped DEF Labels
    <2>3. /\ blocks' \in [Tasks -> Seq(Blocks)] /\ blocks'[f] = <<>>
          /\ \A g \in Tasks \ {f} : blocks'[g] = blocks[g]
      <3>1. blocks \in [Tasks -> Seq(Blocks)] /\ <<>> \in Seq(Blocks)
        BY <1>0 DEF TypeOK
      <3> QED BY <1>4, <3>1
    <2>4. failed' \subseteq Tasks /\ f \in failed' /\ (\A g \in Tasks \ {f} : g \in failed => g \in failed')
      BY <1>0, <1>4 DEF TypeOK
    <2>5. TypeOK'
      BY <1>0, <1>1, <1>4, <2>2, <2>3, <2>4, Retyped DEF TypeOK
    <2>6. \A t \in done : t \in failed' => t \in failed
      BY <1>0, <1>1, <1>4 DEF Lives
    <2>7. Nest(<<>>)
      BY DEF Nest
    <2>8. Nested(f)' /\ Joins(f)'
      BY <2>2, <2>3, <2>7 DEF Nested, Joins, Working
    <2>9. Completes(f)'
      BY <1>1, <2>1, <2>4 DEF Completes
    <2>10. join' = join
      BY <1>4
    <2> QED BY <1>1, <2>2, <2>3, <2>4, <2>5, <2>6, <2>8, <2>9, <2>10, Moves
  <1> QED BY <1>3, <1>4 DEF Land

-----------------------------------------------------------------------------
(* The end of a task.                                                      *)

\* The flag is set, and the slot cleared, under the task mutex.
LEMMA CompleteInv ==
    ASSUME ScopeInv, NEW f \in Tasks, Complete(f), UNCHANGED outer
    PROVE  ScopeInv'
  <1>0. TypeOK /\ Nested(f) /\ Completes(f) /\ Lives(f)
    BY DEF ScopeInv, Control
  <1>1. /\ pc[f] = "complete" /\ mutex = None /\ mutex' = f
        /\ slot' = slot \ {f} /\ done' = done \cup {f} /\ Goto(f, "wake")
        /\ UNCHANGED <<blocks, frames, drops, join, ops, cancelled, parked, failed, freed, outer>>
    BY DEF Complete
  <1>2. /\ pc' \in [Tasks -> Labels] /\ handle' \in [Tasks -> Tasks \cup {None}]
        /\ woken' \subseteq Tasks /\ expired' \subseteq Tasks
        /\ pc'[f] = "wake" /\ \A g \in Tasks \ {f} : pc'[g] = pc[g] /\ handle'[g] = handle[g]
    BY <1>0, <1>1, GotoTyped DEF Labels
  <1>3. TypeOK'
    BY <1>0, <1>1, <1>2 DEF TypeOK
  <1>4. Lives(f)'
    BY <1>1, <1>2 DEF Lives
  <1>5. Nested(f)' /\ Joins(f)' /\ Completes(f)'
    BY <1>0, <1>1, <1>2 DEF Nested, Joins, Completes, Working
  <1>6. Control(f)'
    BY <1>4, <1>5 DEF Control
  <1>7. \A g \in Tasks : Control(g)'
    <2>1. mutex \notin Tasks
      BY <1>1, ScopeAssumption
    <2>2. \A t \in done : t \in done' /\ (t \in failed' => t \in failed)
      BY <1>1
    <2>3. \A g \in Tasks \ {f} :
              /\ pc'[g] = pc[g] /\ handle'[g] = handle[g] /\ blocks'[g] = blocks[g]
              /\ frames'[g] = frames[g] /\ drops'[g] = drops[g] /\ join'[g] = join[g]
              /\ g \in done' <=> g \in done
              /\ g \in slot' <=> g \in slot
              /\ mutex = g => mutex' = g
              /\ g \in failed /\ pc[g] \in {"complete", "wake"} => g \in failed'
      BY <1>1, <1>2, <2>1
    <2> QED BY <1>6, <2>2, <2>3, OthersStay
  <1>8. Held' /\ NoDangling'
    <2>1. \A t \in Tasks : pc'[t] = "unborn" <=> pc[t] = "unborn"
      BY <1>1, <1>2
    <2>2. \A t \in freed : pc'[t] \in {"wake", "gone"}
      BY <1>0, <1>2 DEF ScopeInv, NoDangling, TypeOK
    <2> QED BY <1>0, <1>1, <2>1, <2>2, HeldStays DEF ScopeInv
  <1> QED BY <1>3, <1>7, <1>8 DEF ScopeInv

\* Everybody is woken, and the fiber is gone.
LEMMA WakeInv ==
    ASSUME ScopeInv, NEW f \in Tasks, Wake(f), UNCHANGED outer
    PROVE  ScopeInv'
  <1>0. TypeOK /\ Nested(f) /\ Completes(f) /\ Lives(f)
    BY DEF ScopeInv, Control
  <1>1. /\ pc[f] = "wake" /\ mutex' = None /\ parked' = {}
        /\ slot' = slot \ {f} /\ cancelled' = cancelled \ {f} /\ ops' = [ops EXCEPT ![f] = 0] /\ Goto(f, "gone")
        /\ UNCHANGED <<blocks, frames, drops, join, done, failed, freed, outer>>
    BY DEF Wake
  <1>2. /\ pc' \in [Tasks -> Labels] /\ handle' \in [Tasks -> Tasks \cup {None}]
        /\ woken' \subseteq Tasks /\ expired' \subseteq Tasks
        /\ pc'[f] = "gone" /\ \A g \in Tasks \ {f} : pc'[g] = pc[g] /\ handle'[g] = handle[g]
    BY <1>0, <1>1, GotoTyped DEF Labels
  <1>3. ops' \in [Tasks -> Nat] /\ \A g \in Tasks : ops'[g] <= MaxOps[g]
    <2>1. \A g \in Tasks : MaxOps[g] \in Nat
      BY ScopeAssumption
    <2>2. ops \in [Tasks -> Nat] /\ \A g \in Tasks : ops[g] <= MaxOps[g]
      BY <1>0 DEF TypeOK
    <2> QED BY <1>1, <2>1, <2>2
  <1>4. TypeOK'
    BY <1>0, <1>1, <1>2, <1>3 DEF TypeOK
  <1>5. Lives(f)' /\ mutex = f
    BY <1>0, <1>1, <1>2 DEF Lives
  <1>6. Nested(f)' /\ Joins(f)' /\ Completes(f)'
    BY <1>0, <1>1, <1>2 DEF Nested, Joins, Completes, Working
  <1>7. Control(f)'
    BY <1>5, <1>6 DEF Control
  <1>8. \A g \in Tasks : Control(g)'
    <2>1. \A t \in done : t \in done' /\ (t \in failed' => t \in failed)
      BY <1>1
    <2>2. \A g \in Tasks \ {f} :
              /\ pc'[g] = pc[g] /\ handle'[g] = handle[g] /\ blocks'[g] = blocks[g]
              /\ frames'[g] = frames[g] /\ drops'[g] = drops[g] /\ join'[g] = join[g]
              /\ g \in done' <=> g \in done
              /\ g \in slot' <=> g \in slot
              /\ mutex = g => mutex' = g
              /\ g \in failed /\ pc[g] \in {"complete", "wake"} => g \in failed'
      BY <1>1, <1>2, <1>5
    <2> QED BY <1>7, <2>1, <2>2, OthersStay
  <1>9. Held' /\ NoDangling'
    <2>1. \A t \in Tasks : pc'[t] = "unborn" <=> pc[t] = "unborn"
      BY <1>1, <1>2
    <2>2. \A t \in freed : pc'[t] \in {"wake", "gone"}
      BY <1>0, <1>2 DEF ScopeInv, NoDangling, TypeOK
    <2> QED BY <1>0, <1>1, <2>1, <2>2, HeldStays DEF ScopeInv
  <1> QED BY <1>4, <1>8, <1>9 DEF ScopeInv

-----------------------------------------------------------------------------
(* What changes who holds which task.                                      *)

\* What a fiber does to its own frames and variables, the others' tasks are not held by.
LEMMA Reheld ==
    ASSUME ScopeInv, NEW f \in Tasks,
           \A g \in Tasks \ {f} : frames'[g] = frames[g] /\ drops'[g] = drops[g],
           \A t \in Tasks : \/ pc'[t] = "unborn" <=> pc[t] = "unborn"
                            \/ pc'[t] # "unborn" /\ t # Root /\ Parent[t] = f,
           freed \subseteq freed', \A t \in freed' \ freed : t \in Tasks /\ Child(f, t),
           \A t \in freed' : /\ pc'[t] \in {"wake", "gone"} /\ t \notin slot'
                             /\ t \notin Range(drops'[f])
                             /\ \A k \in DOMAIN frames'[f] : ~Holds(frames'[f][k], t),
           Belongs(f)', Once(f)', Owns(f)',
           \A t \in Tasks \ {Root} : Parent[t] = f => Accounted(t)'
    PROVE  Held' /\ NoDangling'
  <1>1. \A g \in Tasks : drops[g] \in Seq(Tasks)
    BY DEF ScopeInv, TypeOK
  <1>2. \A g \in Tasks : Range(drops[g]) \subseteq Tasks
    BY <1>1 DEF Range
  <1>3. ASSUME NEW g \in Tasks \ {f} PROVE Belongs(g)' /\ Once(g)' /\ Owns(g)'
    <2>1. Belongs(g) /\ Once(g) /\ Owns(g)
      BY DEF ScopeInv, Held
    <2>2. frames'[g] = frames[g] /\ drops'[g] = drops[g]
      OBVIOUS
    <2>3. \A t \in Tasks : pc[t] # "unborn" => pc'[t] # "unborn"
      OBVIOUS
    <2>4. Belongs(g)'
      BY <1>2, <2>1, <2>2, <2>3 DEF Belongs, Child
    <2> QED BY <2>1, <2>2, <2>4 DEF Once, Owns
  <1>4. ASSUME NEW t \in Tasks PROVE Accounted(t)'
    <2>1. CASE t = Root \/ Parent[t] = f
      BY <2>1 DEF Accounted
    <2>2. CASE t # Root /\ Parent[t] # f
      <3>1. Accounted(t) /\ Parent[t] \in Tasks \ {f}
        BY <2>2, ScopeAssumption DEF ScopeInv, Held
      <3> QED BY <2>2, <3>1 DEF Accounted
    <2> QED BY <2>1, <2>2
  <1>5. ASSUME NEW t \in freed', NEW g \in Tasks
        PROVE  (\A k \in DOMAIN frames'[g] : ~Holds(frames'[g][k], t)) /\ t \notin Range(drops'[g])
    <2>1. CASE g = f
      BY <2>1
    <2>2. CASE g # f /\ t \in freed
      <3>1. frames'[g] = frames[g] /\ drops'[g] = drops[g]
        BY <2>2
      <3>2. \A fr \in Range(frames[g]) : ~Holds(fr, t)
        BY <2>2 DEF ScopeInv, NoDangling
      <3>3. \A k \in DOMAIN frames[g] : frames[g][k] \in Range(frames[g])
        BY DEF Range
      <3>4. t \notin Range(drops[g])
        BY <2>2 DEF ScopeInv, NoDangling
      <3> QED BY <3>1, <3>2, <3>3, <3>4
    <2>3. CASE g # f /\ t \notin freed
      <3>1. frames'[g] = frames[g] /\ drops'[g] = drops[g]
        BY <2>3
      <3>2. t \in Tasks /\ Child(f, t) /\ Belongs(g)
        BY <2>3 DEF ScopeInv, Held
      <3> QED BY <2>3, <3>1, <3>2 DEF Belongs, Child
    <2> QED BY <2>1, <2>2, <2>3
  <1>6. NoDangling'
    <2>1. \A t \in freed', g \in Tasks : \A fr \in Range(frames'[g]) : ~Holds(fr, t)
      BY <1>5 DEF Range
    <2>2. \A t \in freed', g \in Tasks : t \notin Range(drops'[g])
      BY <1>5
    <2> QED BY <2>1, <2>2 DEF NoDangling
  <1> QED BY <1>3, <1>4, <1>6 DEF Held

\* A block is entered.
LEMMA EnterInv ==
    ASSUME ScopeInv, NEW f \in Tasks, NEW kind \in {"scope", "try"}, Enter(f, kind), UNCHANGED outer
    PROVE  ScopeInv'
  <1> DEFINE x == [kind |-> kind, drops |-> Len(drops[f]), frames |-> Len(frames[f])]
             fs == IF kind = "scope" THEN Append(frames[f], EmptyFrame) ELSE frames[f]
             n == Len(frames[f])
  <1>0. TypeOK /\ Control(f) /\ blocks[f] \in Seq(Blocks) /\ frames[f] \in Seq(Frames) /\ drops[f] \in Seq(Tasks)
    BY DEF ScopeInv, TypeOK
  <1>1. /\ pc[f] = "run" /\ blocks' = [blocks EXCEPT ![f] = Append(@, x)]
        /\ frames' = [frames EXCEPT ![f] = IF kind = "scope" THEN Append(@, EmptyFrame) ELSE @]
        /\ UNCHANGED <<pc, handle, drops, join, cancelled, parked, woken, expired, mutex,
                       done, failed, slot, freed, outer>>
    BY DEF Enter, Operation, waitVars, taskVars
  <1>2. ops' \in [Tasks -> Nat] /\ \A g \in Tasks : ops'[g] <= MaxOps[g]
    BY Counted DEF Enter, ScopeInv
  <1>3. x \in Blocks /\ x.kind = kind /\ x.frames = n /\ n \in Nat
    BY <1>0 DEF Blocks
  <1>4. EmptyFrame \in Frames /\ EmptyFrame.entries = <<>> /\ EmptyFrame.cap = 0 /\ Len(<<>>) = 0
    BY DEF EmptyFrame, Frames
  <1>5. /\ fs \in Seq(Frames) /\ Len(fs) = IF kind = "scope" THEN n + 1 ELSE n
        /\ \A k \in DOMAIN fs : fs[k] = EmptyFrame \/ (k \in DOMAIN frames[f] /\ fs[k] = frames[f][k])
        /\ \A k \in DOMAIN frames[f] : k \in DOMAIN fs /\ fs[k] = frames[f][k]
    <2>1. CASE kind = "scope"
      <3> DEFINE r == Append(frames[f], EmptyFrame)
      <3>1. /\ r \in Seq(Frames) /\ Len(r) = n + 1
            /\ \A k \in DOMAIN r : k # n + 1 => k \in DOMAIN frames[f] /\ r[k] = frames[f][k]
            /\ \A k \in DOMAIN frames[f] : k \in DOMAIN r /\ k # n + 1
            /\ r[n + 1] = EmptyFrame
        BY <1>0, <1>4, Appended
      <3> HIDE DEF r
      <3>2. fs = r
        BY <2>1 DEF r
      <3> HIDE DEF fs
      <3> QED BY <2>1, <3>1, <3>2
    <2>2. CASE kind # "scope"
      BY <1>0, <2>2
    <2> QED BY <2>1, <2>2
  <1>6. /\ frames' \in [Tasks -> Seq(Frames)] /\ frames'[f] = fs
        /\ \A g \in Tasks \ {f} : frames'[g] = frames[g]
    <2>1. frames \in [Tasks -> Seq(Frames)] /\ frames' = [frames EXCEPT ![f] = fs]
      BY <1>0, <1>1 DEF TypeOK
    <2> HIDE DEF fs
    <2> QED BY <1>5, <2>1
  <1>7. /\ Append(blocks[f], x) \in Seq(Blocks) /\ Append(blocks[f], x) # <<>> /\ Last(Append(blocks[f], x)) = x
    <2>1. x \in Blocks
      BY <1>3
    <2> HIDE DEF x
    <2>2. blocks[f] \in Seq(Blocks)
      BY <1>0
    <2>3. Append(blocks[f], x) \in Seq(Blocks) /\ Append(blocks[f], x) # <<>>
      BY <2>1, <2>2
    <2>4. Last(Append(blocks[f], x)) = x
      <3>1. Len(Append(blocks[f], x)) = Len(blocks[f]) + 1 /\ Append(blocks[f], x)[Len(blocks[f]) + 1] = x
        BY <2>1, <2>2
      <3> QED BY <3>1 DEF Last
    <2> QED BY <2>3, <2>4
  <1>8. /\ blocks' \in [Tasks -> Seq(Blocks)] /\ blocks'[f] = Append(blocks[f], x)
        /\ \A g \in Tasks \ {f} : blocks'[g] = blocks[g]
    <2>1. blocks \in [Tasks -> Seq(Blocks)]
      BY <1>0 DEF TypeOK
    <2> QED BY <1>1, <1>7, <2>1
  <1> HIDE DEF fs, x, n
  <1>9. \A k \in DOMAIN fs : Len(fs[k].entries) <= fs[k].cap
    <2> TAKE k \in DOMAIN fs
    <2>1. CASE fs[k] = EmptyFrame
      <3>1. Len(EmptyFrame.entries) = 0
        BY <1>4
      <3> QED BY <1>4, <2>1, <3>1
    <2>2. CASE k \in DOMAIN frames[f] /\ fs[k] = frames[f][k]
      BY <1>0, <2>2 DEF TypeOK
    <2> QED BY <1>5, <2>1, <2>2
  <1>10. TypeOK'
    <2>1. \A g \in Tasks : \A k \in DOMAIN frames'[g] : Len(frames'[g][k].entries) <= frames'[g][k].cap
      BY <1>0, <1>6, <1>9 DEF TypeOK
    <2> QED BY <1>0, <1>1, <1>2, <1>6, <1>8, <2>1 DEF TypeOK
  <1>11. Nested(f)'
    <2>1. Nest(blocks[f]) /\ n = Depth(blocks[f])
      BY <1>0, <1>1 DEF Control, Nested, Working, n
    <2>2. Nest(blocks'[f])
      <3>1. \A y \in Blocks : y.frames = Depth(blocks[f]) => Nest(Append(blocks[f], y))
        BY <1>0, <2>1, Nesting
      <3> QED BY <1>3, <1>8, <2>1, <3>1
    <2>3. Len(frames'[f]) = Depth(blocks'[f])
      BY <1>3, <1>5, <1>6, <1>7, <1>8 DEF Depth, Inside
    <2> QED BY <1>1, <2>2, <2>3 DEF Nested
  <1>12. Control(f)'
    <2>1. Lives(f)'
      BY <1>0, <1>1 DEF Control, Lives
    <2>2. Joins(f)' /\ Completes(f)'
      BY <1>1 DEF Joins, Completes
    <2> QED BY <1>11, <2>1, <2>2 DEF Control
  <1>13. \A g \in Tasks : Control(g)'
    BY <1>1, <1>6, <1>8, <1>12, OthersStay
  <1>14. \A t \in Tasks : ~Holds(EmptyFrame, t)
    BY <1>4 DEF Holds, Range
  <1>15. Belongs(f) /\ Once(f) /\ Owns(f)
    BY DEF ScopeInv, Held
  <1>16. Belongs(f)'
    BY <1>1, <1>5, <1>6, <1>14, <1>15 DEF Belongs, Child
  <1>17. Once(f)'
    <2>1. Distinct(EmptyFrame)
      BY <1>4 DEF Distinct
    <2>2. \A k \in DOMAIN fs : Distinct(fs[k])
      BY <1>5, <1>15, <2>1 DEF Once
    <2>3. \A k, l \in DOMAIN fs : \A t \in Tasks : Holds(fs[k], t) /\ Holds(fs[l], t) => k = l
      BY <1>5, <1>14, <1>15 DEF Once
    <2>4. IsInjective(drops'[f])
      BY <1>1, <1>15 DEF Once
    <2> QED BY <1>6, <2>2, <2>3, <2>4 DEF Once
  <1>18. Owns(f)'
    <2>1. Range(EmptyFrame.entries) = {}
      BY <1>4 DEF Range
    <2> QED BY <1>1, <1>5, <1>6, <1>15, <2>1 DEF Owns
  <1>19. ASSUME NEW t \in Tasks \ {Root}, Parent[t] = f PROVE Accounted(t)'
    <2>1. Accounted(t)
      BY DEF ScopeInv, Held
    <2> QED BY <1>1, <1>5, <1>6, <1>19, <2>1 DEF Accounted
  <1>20. ASSUME NEW t \in freed
         PROVE  /\ pc[t] \in {"wake", "gone"} /\ t \notin slot /\ t \notin Range(drops[f])
                /\ \A k \in DOMAIN fs : ~Holds(fs[k], t)
    <2>1. /\ pc[t] \in {"wake", "gone"} /\ t \notin slot /\ t \notin Range(drops[f])
          /\ \A fr \in Range(frames[f]) : ~Holds(fr, t)
      BY DEF ScopeInv, NoDangling
    <2>2. t \in Tasks
      BY <1>0 DEF TypeOK
    <2>3. \A k \in DOMAIN frames[f] : ~Holds(frames[f][k], t)
      BY <2>1 DEF Range
    <2> QED BY <1>5, <1>14, <2>1, <2>2, <2>3
  <1>21. Held' /\ NoDangling'
    BY <1>1, <1>6, <1>16, <1>17, <1>18, <1>19, <1>20, Reheld
  <1> QED BY <1>10, <1>13, <1>21 DEF ScopeInv

\* The places of a frame start at 1.
LEMMA Places ==
    ASSUME NEW fs \in Seq(Frames), fs # <<>>
    PROVE  \A i \in DOMAIN Last(fs).entries : ~(i < 1)
  <1>1. Last(fs) \in Frames
    BY Fronted
  <1>2. Last(fs).entries \in Seq(Entries)
    BY <1>1 DEF Frames
  <1> QED BY <1>2

\* What the frame of a joined scope owns is done.
LEMMA Passed ==
    ASSUME ScopeInv, NEW f \in Tasks, pc[f] = "join", Len(frames[f]) > join[f].mark, ~Joining(f)
    PROVE  /\ frames[f] # <<>>
           /\ \A e \in Range(Last(frames[f]).entries) :
                 e.task \in Tasks => e.task \in done /\ (e.task \in failed => join[f].frame_trigger)
  <1> DEFINE es == Last(frames[f]).entries
  <1>0. TypeOK
    BY DEF ScopeInv
  <1>1. join[f].mark \in Nat /\ join[f].i \in Nat
    <2>1. join[f] \in Exits
      BY <1>0 DEF TypeOK
    <2> QED BY <2>1 DEF Exits
  <1>2. frames[f] # <<>>
    <2>1. Len(frames[f]) \in Nat /\ (frames[f] = <<>> <=> Len(frames[f]) = 0)
      BY <1>0, Innermost
    <2> QED BY <1>1, <2>1
  <1>3. Len(es) \in Nat /\ DOMAIN es = 1..Len(es)
    BY <1>0, <1>2, Innermost
  <1>4. ~(join[f].i <= Len(es))
    BY DEF Joining
  <1> HIDE DEF es
  <1>5. \A i \in DOMAIN es : i < join[f].i
    BY <1>1, <1>3, <1>4
  <1>6. Joins(f)
    BY DEF ScopeInv, Control
  <1>7. \A i \in DOMAIN es : es[i].task = None \/ (es[i].task \in done /\ (es[i].task \in failed => join[f].frame_trigger))
    BY <1>2, <1>5, <1>6 DEF Joins, es
  <1>8. ASSUME NEW e \in Range(es), e.task \in Tasks
        PROVE  e.task \in done /\ (e.task \in failed => join[f].frame_trigger)
    <2>1. PICK i \in DOMAIN es : e = es[i]
      BY DEF Range
    <2>2. e.task # None
      BY <1>8, ScopeAssumption
    <2> QED BY <1>7, <2>1, <2>2
  <1> QED BY <1>2, <1>8 DEF es

\* A scope whose children are joined goes, with the tasks it owns.
LEMMA PopFrameInv ==
    ASSUME ScopeInv, NEW f \in Tasks, PopFrame(f), UNCHANGED outer
    PROVE  ScopeInv'
  <1> DEFINE n == Len(frames[f])
             es == Last(frames[f]).entries
             fs == Front(frames[f])
             Owned == {e.task : e \in {x \in Range(es) : x.owned}}
             r == [join[f] EXCEPT !.i = 1, !.frame_trigger = FALSE, !.trigger = @ \/ join[f].frame_trigger]
  <1>0. TypeOK /\ Control(f) /\ frames[f] \in Seq(Frames) /\ Belongs(f) /\ Once(f) /\ Owns(f)
    BY DEF ScopeInv, TypeOK, Held
  <1>1. /\ pc[f] = "join" /\ Len(frames[f]) > join[f].mark /\ ~Joining(f)
        /\ freed' = freed \cup Owned
        /\ frames' = [frames EXCEPT ![f] = Front(@)]
        /\ join' = [join EXCEPT ![f].i = 1, ![f].frame_trigger = FALSE,
                                ![f].trigger = @ \/ join[f].frame_trigger]
        /\ UNCHANGED <<pc, handle, blocks, drops, ops, cancelled, parked, woken, expired, mutex,
                       done, failed, slot, outer>>
    BY DEF PopFrame, waitVars
  <1>2. /\ frames[f] # <<>>
        /\ \A e \in Range(es) : e.task \in Tasks => e.task \in done
    BY <1>1, Passed
  <1>3. /\ fs \in Seq(Frames) /\ n \in DOMAIN frames[f] /\ Last(frames[f]) = frames[f][n]
        /\ \A k \in DOMAIN fs : k \in DOMAIN frames[f] /\ k # n /\ fs[k] = frames[f][k]
        /\ \A k \in DOMAIN frames[f] : k # n => k \in DOMAIN fs
    BY <1>0, <1>2, Fronted
  <1>4. /\ frames' \in [Tasks -> Seq(Frames)] /\ frames'[f] = fs
        /\ \A g \in Tasks \ {f} : frames'[g] = frames[g]
    <2>1. frames \in [Tasks -> Seq(Frames)] /\ frames' = [frames EXCEPT ![f] = fs]
      BY <1>0, <1>1 DEF TypeOK
    <2> HIDE DEF fs
    <2> QED BY <1>3, <2>1
  <1>5. /\ join' \in [Tasks -> Exits] /\ \A g \in Tasks \ {f} : join'[g] = join[g]
        /\ join'[f].goal = join[f].goal /\ join'[f].mark = join[f].mark /\ join'[f].i = 1
    <2>1. join \in [Tasks -> Exits] /\ join[f] \in Exits
      BY <1>0 DEF TypeOK
    <2>2. r \in Exits /\ r.goal = join[f].goal /\ r.mark = join[f].mark /\ r.i = 1
      BY <2>1 DEF Exits
    <2>3. join' = [join EXCEPT ![f] = r]
      BY <1>1, <2>1
    <2> HIDE DEF r
    <2> QED BY <2>1, <2>2, <2>3
  <1>6. ASSUME NEW t \in Owned
        PROVE  /\ t \in Tasks /\ t \in done /\ t \notin Range(drops[f]) /\ Holds(frames[f][n], t) /\ Child(f, t)
    <2>1. PICK e \in Range(es) : e.owned /\ t = e.task
      OBVIOUS
    <2>2. t \in Tasks /\ t \notin Range(drops[f])
      BY <1>0, <1>3, <2>1 DEF Owns
    <2>3. Holds(frames[f][n], t)
      BY <1>3, <2>1 DEF Holds
    <2> QED BY <1>0, <1>2, <1>3, <2>1, <2>2, <2>3 DEF Belongs
  <1> HIDE DEF n, es, fs, Owned, r
  <1>7. TypeOK'
    <2>1. \A g \in Tasks : \A k \in DOMAIN frames'[g] : Len(frames'[g][k].entries) <= frames'[g][k].cap
      BY <1>0, <1>3, <1>4 DEF TypeOK
    <2>2. freed' \subseteq Tasks
      BY <1>0, <1>1, <1>6 DEF TypeOK
    <2> QED BY <1>0, <1>1, <1>4, <1>5, <2>1, <2>2 DEF TypeOK
  <1>8. Control(f)'
    <2>1. Lives(f)'
      BY <1>0, <1>1 DEF Control, Lives
    <2>2. Nested(f)'
      BY <1>0, <1>1, <1>5 DEF Control, Nested, Mark, Working
    <2>3. Joins(f)'
      <3>1. frames'[f] # <<>> => \A i \in DOMAIN Last(frames'[f]).entries : ~(i < 1)
        BY <1>3, <1>4, Places
      <3> QED BY <1>5, <3>1 DEF Joins
    <2>4. Completes(f)'
      BY <1>1 DEF Completes
    <2> QED BY <2>1, <2>2, <2>3, <2>4 DEF Control
  <1>9. \A g \in Tasks : Control(g)'
    BY <1>1, <1>4, <1>5, <1>8, OthersStay
  <1>10. Belongs(f)' /\ Owns(f)'
    BY <1>0, <1>1, <1>3, <1>4 DEF Belongs, Child, Owns
  <1>11. Once(f)'
    BY <1>0, <1>1, <1>3, <1>4 DEF Once
  <1>12. ASSUME NEW t \in Tasks \ {Root}, Parent[t] = f PROVE Accounted(t)'
    <2>1. Accounted(t)
      BY DEF ScopeInv, Held
    <2>2. [task |-> t, owned |-> TRUE] \in Range(frames[f][n].entries) => t \in Owned
      <3>1. es = frames[f][n].entries
        BY <1>3 DEF es
      <3>2. [task |-> t, owned |-> TRUE].task = t /\ [task |-> t, owned |-> TRUE].owned
        OBVIOUS
      <3> QED BY <3>1, <3>2 DEF Owned
    <2> QED BY <1>1, <1>3, <1>4, <1>12, <2>1, <2>2 DEF Accounted
  <1>13. ASSUME NEW t \in freed'
         PROVE  /\ pc'[t] \in {"wake", "gone"} /\ t \notin slot' /\ t \notin Range(drops'[f])
                /\ \A k \in DOMAIN frames'[f] : ~Holds(frames'[f][k], t)
    <2>1. CASE t \in freed
      <3>1. /\ pc[t] \in {"wake", "gone"} /\ t \notin slot /\ t \notin Range(drops[f])
            /\ \A fr \in Range(frames[f]) : ~Holds(fr, t)
        BY <2>1 DEF ScopeInv, NoDangling
      <3>2. \A k \in DOMAIN frames[f] : ~Holds(frames[f][k], t)
        BY <3>1 DEF Range
      <3> QED BY <1>1, <1>3, <1>4, <3>1, <3>2
    <2>2. CASE t \in Owned
      <3>1. Lives(t)
        BY <1>6, <2>2 DEF ScopeInv, Control
      <3>2. pc[t] \in {"wake", "gone"} /\ t \notin slot
        BY <1>6, <2>2, <3>1 DEF Lives
      <3>3. \A k \in DOMAIN fs : ~Holds(fs[k], t)
        BY <1>0, <1>3, <1>6, <2>2 DEF Once
      <3> QED BY <1>1, <1>4, <1>6, <2>2, <3>2, <3>3
    <2> QED BY <1>1, <2>1, <2>2
  <1>14. \A t \in freed' \ freed : t \in Tasks /\ Child(f, t)
    BY <1>1, <1>6
  <1>15. Held' /\ NoDangling'
    <2>1. freed \subseteq freed'
      BY <1>1
    <2> QED BY <1>1, <1>4, <1>10, <1>11, <1>12, <1>13, <1>14, <2>1, Reheld
  <1> QED BY <1>7, <1>9, <1>15 DEF ScopeInv

\* What a full frame gives up to make room is done, and was heard of by nobody else.
LEMMA Reaping ==
    ASSUME ScopeInv, NEW f \in Tasks, NEW k \in DOMAIN frames[f], NEW u \in Reaped(frames[f][k])
    PROVE  /\ u \in Tasks /\ u \in done \ failed /\ pc[u] \in {"wake", "gone"} /\ u \notin slot
           /\ Child(f, u) /\ Holds(frames[f][k], u) /\ u \notin Range(drops[f])
  <1>0. Belongs(f) /\ Owns(f)
    BY DEF ScopeInv, Held
  <1>1. PICK e \in Range(frames[f][k].entries) : Reapable(e) /\ u = e.task
    BY DEF Reaped
  <1>2. e.owned /\ u \in done \ failed
    BY <1>1 DEF Reapable
  <1>3. u \in Tasks /\ u \notin Range(drops[f])
    BY <1>0, <1>1, <1>2 DEF Owns
  <1>4. Holds(frames[f][k], u)
    BY <1>1 DEF Holds
  <1>5. Lives(u)
    BY <1>3 DEF ScopeInv, Control
  <1>6. pc[u] \in {"wake", "gone"} /\ u \notin slot
    BY <1>2, <1>5 DEF Lives
  <1>7. Child(f, u)
    BY <1>0, <1>3, <1>4 DEF Belongs
  <1> QED BY <1>2, <1>3, <1>4, <1>6, <1>7

\* A task is registered in the innermost frame, and starts.
LEMMA SpawnInv ==
    ASSUME ScopeInv, NEW f \in Tasks, NEW t \in Tasks \ {Root}, NEW o \in BOOLEAN, Spawn(f, t, o), UNCHANGED outer
    PROVE  ScopeInv'
  <1> DEFINE n == Len(frames[f])
             fr == frames[f][n]
             e == [task |-> t, owned |-> o]
             r == Registered(fr, e)
             fs == [frames[f] EXCEPT ![n] = r]
             ds == IF o THEN drops[f] ELSE Append(drops[f], t)
  <1>0. /\ TypeOK /\ Control(f) /\ Belongs(f) /\ Once(f) /\ Owns(f)
        /\ frames[f] \in Seq(Frames) /\ drops[f] \in Seq(Tasks) /\ blocks[f] \in Seq(Blocks)
    BY DEF ScopeInv, TypeOK, Held
  <1>1. /\ pc[f] = "run" /\ pc[t] = "unborn" /\ Parent[t] = f /\ t # f
        /\ drops' = [drops EXCEPT ![f] = IF o THEN @ ELSE Append(@, t)]
        /\ freed' = freed \cup Reaped(Last(frames[f]))
        /\ frames' = [frames EXCEPT ![f][Len(frames[f])] = Registered(@, e)]
        /\ slot' = slot \cup {t} /\ pc' = [pc EXCEPT ![t] = "run"]
        /\ UNCHANGED <<handle, blocks, join, ops, cancelled, parked, woken, expired, mutex, done, failed, outer>>
    BY DEF Spawn, waitVars
  <1>2. n \in DOMAIN frames[f] /\ Last(frames[f]) = fr /\ fr \in Frames /\ Len(fr.entries) <= fr.cap
    <2>1. n = Depth(blocks[f])
      BY <1>0, <1>1 DEF Control, Nested, Working
    <2>2. Depth(blocks[f]) >= 1 /\ Depth(blocks[f]) \in Nat
      BY <1>0, Nesting DEF Control, Nested
    <2>3. frames[f] # <<>>
      <3>1. frames[f] = <<>> <=> n = 0
        BY <1>0, Innermost
      <3> QED BY <2>1, <2>2, <3>1
    <2> QED BY <1>0, <2>3, Innermost
  <1>3. /\ \A k \in DOMAIN frames[f] : ~Holds(frames[f][k], t)
        /\ t \notin Range(drops[f]) /\ t \notin done /\ t \notin freed
    <2>1. ~Child(f, t) /\ Lives(t)
      BY <1>1 DEF Child, ScopeInv, Control
    <2>2. t \notin freed
      BY <1>1 DEF ScopeInv, NoDangling
    <2> QED BY <1>0, <1>1, <2>1, <2>2 DEF Belongs, Lives
  <1>4. /\ r \in Frames /\ Len(r.entries) <= r.cap /\ Distinct(r)
        /\ \A x \in Range(r.entries) : x = e \/ (x \in Range(fr.entries) /\ x.task \notin Reaped(fr))
        /\ \A x \in Range(fr.entries) : x.task = None \/ x.task \in Reaped(fr) \/ x \in Range(r.entries)
        /\ e \in Range(r.entries)
    <2>1. Distinct(fr) /\ ~Holds(fr, t)
      BY <1>0, <1>2, <1>3 DEF Once
    <2>2. fr \in Frames /\ Len(fr.entries) <= fr.cap
      BY <1>2
    <2> HIDE DEF fr
    <2> QED BY <2>1, <2>2, Registering
  <1>5. frames' = [frames EXCEPT ![f] = fs]
    BY <1>0, <1>1, <1>2 DEF TypeOK
  <1>6. drops' = [drops EXCEPT ![f] = ds]
    BY <1>0, <1>1 DEF TypeOK
  <1>7. e.task = t /\ e.owned = o /\ e = [task |-> t, owned |-> o]
    OBVIOUS
  <1> HIDE DEF r, e
  <1>8. /\ fs \in Seq(Frames) /\ DOMAIN fs = DOMAIN frames[f] /\ fs[n] = r /\ Len(fs) = n
        /\ \A k \in DOMAIN frames[f] : k # n => fs[k] = frames[f][k]
    BY <1>0, <1>2, <1>4
  <1>9. ds \in Seq(Tasks) /\ IsInjective(ds) /\ Range(ds) = Range(drops[f]) \cup (IF o THEN {} ELSE {t})
    <2>1. CASE o
      BY <1>0, <2>1 DEF Once
    <2>2. CASE ~o
      <3> DEFINE a == Append(drops[f], t)  m == Len(drops[f])
      <3>1. /\ a \in Seq(Tasks)
            /\ \A i \in DOMAIN a : i # m + 1 => i \in DOMAIN drops[f] /\ a[i] = drops[f][i]
            /\ \A i \in DOMAIN drops[f] : i \in DOMAIN a /\ i # m + 1
            /\ m + 1 \in DOMAIN a /\ a[m + 1] = t
        BY <1>0, Appended
      <3> HIDE DEF a, m
      <3>2. \A i \in DOMAIN drops[f] : drops[f][i] # t
        BY <1>3 DEF Range
      <3>3. IsInjective(a)
        BY <1>0, <3>1, <3>2 DEF Once, IsInjective
      <3>4. Range(a) = Range(drops[f]) \cup {t}
        BY <3>1 DEF Range
      <3>5. ds = a
        BY <2>2 DEF a
      <3> QED BY <2>2, <3>1, <3>3, <3>4, <3>5
    <2> QED BY <2>1, <2>2
  <1> HIDE DEF fs, ds
  <1>10. /\ frames' \in [Tasks -> Seq(Frames)] /\ frames'[f] = fs
         /\ \A g \in Tasks \ {f} : frames'[g] = frames[g]
    BY <1>0, <1>5, <1>8 DEF TypeOK
  <1>11. /\ drops' \in [Tasks -> Seq(Tasks)] /\ drops'[f] = ds
         /\ \A g \in Tasks \ {f} : drops'[g] = drops[g]
    BY <1>0, <1>6, <1>9 DEF TypeOK
  <1>12. pc' \in [Tasks -> Labels] /\ pc'[t] = "run" /\ \A g \in Tasks \ {t} : pc'[g] = pc[g]
    BY <1>0, <1>1 DEF TypeOK, Labels
  <1>13. freed' = freed \cup Reaped(fr)
    BY <1>1, <1>2
  <1> HIDE DEF fr, n
  <1>14. ASSUME NEW u \in Reaped(fr)
         PROVE  /\ u \in Tasks /\ u \in done \ failed /\ pc[u] \in {"wake", "gone"} /\ u \notin slot
                /\ Child(f, u) /\ Holds(frames[f][n], u) /\ u \notin Range(drops[f]) /\ u # t
    <2>1. /\ u \in Tasks /\ u \in done \ failed /\ pc[u] \in {"wake", "gone"} /\ u \notin slot
          /\ Child(f, u) /\ Holds(frames[f][n], u) /\ u \notin Range(drops[f])
      BY <1>2, Reaping DEF fr
    <2> QED BY <1>3, <2>1
  <1>15. TypeOK'
    <2>1. \A g \in Tasks : \A k \in DOMAIN frames'[g] : Len(frames'[g][k].entries) <= frames'[g][k].cap
      BY <1>0, <1>4, <1>8, <1>10 DEF TypeOK
    <2>2. freed' \subseteq Tasks /\ slot' \subseteq Tasks
      BY <1>0, <1>1, <1>13, <1>14 DEF TypeOK
    <2>3. /\ ops' \in [Tasks -> Nat] /\ \A g \in Tasks : ops'[g] <= MaxOps[g]
          /\ handle' \in [Tasks -> Tasks \cup {None}] /\ blocks' \in [Tasks -> Seq(Blocks)]
          /\ join' \in [Tasks -> Exits] /\ mutex' \in Tasks \cup {None} /\ outer' \in BOOLEAN
      BY <1>0, <1>1 DEF TypeOK
    <2>4. \A S \in {cancelled', parked', woken', expired', done', failed', slot', freed'} : S \subseteq Tasks
      BY <1>0, <1>1, <2>2 DEF TypeOK
    <2> QED BY <1>10, <1>11, <1>12, <2>1, <2>3, <2>4 DEF TypeOK
  <1>16. Control(f)'
    <2>1. Lives(f)'
      BY <1>0, <1>1, <1>12 DEF Control, Lives
    <2>2. Nested(f)'
      BY <1>0, <1>1, <1>8, <1>10, <1>12 DEF Control, Nested, Working, n
    <2>3. Joins(f)' /\ Completes(f)'
      BY <1>1, <1>12 DEF Joins, Completes
    <2> QED BY <2>1, <2>2, <2>3 DEF Control
  <1>17. Control(t)'
    <2>0. Control(t)
      BY DEF ScopeInv
    <2>1. Lives(t)'
      BY <1>1, <1>3, <1>12, <2>0 DEF Lives, Control
    <2>2. Nested(t)'
      BY <1>1, <1>10, <1>12, <2>0 DEF Nested, Working, Control
    <2>3. Joins(t)' /\ Completes(t)'
      BY <1>12 DEF Joins, Completes
    <2> QED BY <2>1, <2>2, <2>3 DEF Control
  <1>18. ASSUME NEW g \in Tasks PROVE Control(g)'
    <2>1. CASE g \notin {f, t}
      <3>1. \A u \in done : u \in done' /\ (u \in failed' => u \in failed)
        BY <1>1
      <3>2. /\ pc'[g] = pc[g] /\ handle'[g] = handle[g] /\ blocks'[g] = blocks[g]
            /\ frames'[g] = frames[g] /\ drops'[g] = drops[g] /\ join'[g] = join[g]
            /\ g \in done' <=> g \in done
            /\ g \in slot' <=> g \in slot
            /\ mutex' = mutex /\ (g \in failed => g \in failed')
        BY <1>1, <1>10, <1>11, <1>12, <2>1
      <3> QED BY <3>1, <3>2, StaysSo
    <2> QED BY <1>16, <1>17, <2>1
  <1>19. \A k \in DOMAIN fs : \A u \in Tasks :
            Holds(fs[k], u) => \/ u = t /\ k = n
                               \/ u # t /\ Holds(frames[f][k], u) /\ (k = n => u \notin Reaped(fr))
    <2> TAKE k \in DOMAIN fs
    <2> TAKE u \in Tasks
    <2> HAVE Holds(fs[k], u)
    <2>1. CASE k # n
      BY <1>3, <1>8, <2>1
    <2>2. CASE k = n
      <3>1. PICK x \in Range(r.entries) : x.task = u
        BY <1>8, <2>2 DEF Holds
      <3>2. x = e \/ (x \in Range(frames[f][n].entries) /\ u \notin Reaped(fr))
        BY <1>4, <3>1 DEF fr
      <3>3. CASE x = e
        BY <1>7, <2>2, <3>1, <3>3
      <3>4. CASE x \in Range(frames[f][n].entries) /\ u \notin Reaped(fr)
        <4>1. Holds(frames[f][n], u)
          BY <3>1, <3>4 DEF Holds
        <4> QED BY <1>2, <1>3, <2>2, <3>4, <4>1
      <3> QED BY <3>2, <3>3, <3>4
    <2> QED BY <2>1, <2>2
  <1>20. Belongs(f)'
    <2>1. Child(f, t)'
      BY <1>1, <1>12 DEF Child
    <2>2. \A u \in Tasks : Child(f, u) => Child(f, u)'
      BY <1>1, <1>12 DEF Child
    <2>3. \A u \in Range(drops[f]) : u \in Tasks
      BY <1>0 DEF Range
    <2>4. \A u \in Range(ds) : Child(f, u)'
      BY <1>0, <1>9, <2>1, <2>2, <2>3 DEF Belongs
    <2>5. \A k \in DOMAIN fs : \A u \in Tasks : Holds(fs[k], u) => Child(f, u)'
      BY <1>0, <1>8, <1>19, <2>1, <2>2 DEF Belongs
    <2> QED BY <1>10, <1>11, <2>4, <2>5 DEF Belongs
  <1>21. Once(f)'
    <2>1. \A k \in DOMAIN fs : Distinct(fs[k])
      BY <1>0, <1>4, <1>8 DEF Once
    <2>2. \A k, l \in DOMAIN fs : \A u \in Tasks : Holds(fs[k], u) /\ Holds(fs[l], u) => k = l
      BY <1>0, <1>8, <1>19 DEF Once
    <2> QED BY <1>9, <1>10, <1>11, <2>1, <2>2 DEF Once
  <1>22. Owns(f)'
    <2> SUFFICES ASSUME NEW k \in DOMAIN fs, NEW x \in Range(fs[k].entries), x.owned
                 PROVE  x.task \in Tasks /\ x.task \notin Range(ds)
      BY <1>10, <1>11 DEF Owns
    <2>1. CASE k = n /\ x = e
      BY <1>3, <1>7, <1>9, <2>1
    <2>2. CASE ~(k = n /\ x = e)
      <3>1. k \in DOMAIN frames[f] /\ x \in Range(frames[f][k].entries)
        BY <1>4, <1>8, <2>2 DEF fr
      <3>2. x.task \in Tasks /\ x.task \notin Range(drops[f])
        BY <1>0, <3>1 DEF Owns
      <3>3. x.task # t
        BY <1>3, <3>1 DEF Holds
      <3> QED BY <1>9, <3>2, <3>3
    <2> QED BY <2>1, <2>2
  <1>23. ASSUME NEW u \in Tasks \ {Root}, Parent[u] = f PROVE Accounted(u)'
    <2>1. CASE u = t
      <3>1. CASE o
        <4>1. [task |-> t, owned |-> TRUE] \in Range(fs[n].entries)
          BY <1>4, <1>7, <1>8, <3>1
        <4> QED BY <1>2, <1>8, <1>10, <1>23, <2>1, <4>1 DEF Accounted
      <3>2. CASE ~o
        BY <1>9, <1>11, <1>23, <2>1, <3>2 DEF Accounted
      <3> QED BY <3>1, <3>2
    <2>2. CASE u # t
      <3> SUFFICES ASSUME pc[u] # "unborn" PROVE Accounted(u)'
        BY <1>12, <2>2 DEF Accounted
      <3>1. \/ u \in freed
            \/ u \in Range(drops[f])
            \/ \E k \in DOMAIN frames[f] : [task |-> u, owned |-> TRUE] \in Range(frames[f][k].entries)
        BY <1>23 DEF ScopeInv, Held, Accounted
      <3>2. CASE u \in freed
        BY <1>13, <3>2 DEF Accounted
      <3>3. CASE u \in Range(drops[f])
        BY <1>9, <1>11, <1>23, <3>3 DEF Accounted
      <3>4. ASSUME NEW k \in DOMAIN frames[f], [task |-> u, owned |-> TRUE] \in Range(frames[f][k].entries)
            PROVE  Accounted(u)'
        <4>1. CASE k # n
          BY <1>8, <1>10, <1>23, <3>4, <4>1 DEF Accounted
        <4>2. CASE k = n
          <5> DEFINE x == [task |-> u, owned |-> TRUE]
          <5>1. x.task = u /\ x.task # None
            BY ScopeAssumption
          <5>2. u \in Reaped(fr) \/ x \in Range(fs[n].entries)
            BY <1>4, <1>8, <3>4, <4>2, <5>1 DEF fr
          <5> QED BY <1>2, <1>8, <1>10, <1>13, <1>23, <5>2 DEF Accounted
        <4> QED BY <4>1, <4>2
      <3> QED BY <3>1, <3>2, <3>3, <3>4
    <2> QED BY <2>1, <2>2
  <1>24. ASSUME NEW u \in freed'
         PROVE  /\ pc'[u] \in {"wake", "gone"} /\ u \notin slot' /\ u \notin Range(drops'[f])
                /\ \A k \in DOMAIN frames'[f] : ~Holds(frames'[f][k], u)
    <2>1. CASE u \in freed
      <3>1. /\ pc[u] \in {"wake", "gone"} /\ u \notin slot /\ u \notin Range(drops[f])
            /\ \A x \in Range(frames[f]) : ~Holds(x, u)
        BY <2>1 DEF ScopeInv, NoDangling
      <3>2. \A k \in DOMAIN frames[f] : ~Holds(frames[f][k], u)
        BY <3>1 DEF Range
      <3>3. u \in Tasks /\ u # t
        BY <1>0, <1>3, <2>1 DEF TypeOK
      <3>4. \A k \in DOMAIN fs : ~Holds(fs[k], u)
        BY <1>8, <1>19, <3>2, <3>3
      <3> QED BY <1>1, <1>9, <1>10, <1>11, <1>12, <3>1, <3>3, <3>4
    <2>2. CASE u \in Reaped(fr)
      <3>1. /\ u \in Tasks /\ pc[u] \in {"wake", "gone"} /\ u \notin slot
            /\ Holds(frames[f][n], u) /\ u \notin Range(drops[f]) /\ u # t
        BY <1>14, <2>2
      <3>2. \A k \in DOMAIN fs : ~Holds(fs[k], u)
        BY <1>0, <1>2, <1>8, <1>19, <2>2, <3>1 DEF Once
      <3> QED BY <1>1, <1>9, <1>10, <1>11, <1>12, <3>1, <3>2
    <2> QED BY <1>13, <2>1, <2>2
  <1>25. \A u \in freed' \ freed : u \in Tasks /\ Child(f, u)
    BY <1>13, <1>14
  <1>26. Held' /\ NoDangling'
    <2>1. freed \subseteq freed'
      BY <1>13
    <2>2. \A u \in Tasks : \/ pc'[u] = "unborn" <=> pc[u] = "unborn"
                           \/ pc'[u] # "unborn" /\ u # Root /\ Parent[u] = f
      BY <1>1, <1>12
    <2> QED BY <1>10, <1>11, <1>20, <1>21, <1>22, <1>23, <1>24, <1>25, <2>1, <2>2, Reheld
  <1> QED BY <1>15, <1>18, <1>26 DEF ScopeInv

\* The frame r has the tasks of fr, but for t.
Without(r, fr, t) ==
    /\ \A u \in Tasks : Holds(r, u) => u # t /\ Holds(fr, u)
    /\ \A x \in Range(r.entries) : x.owned => x \in Range(fr.entries) /\ x.task # t
    /\ \A x \in Range(fr.entries) : x.task # t => x \in Range(r.entries)

\* A frame in which a task is deregistered.
LEMMA Clearing ==
    ASSUME NEW fr \in Frames, Len(fr.entries) <= fr.cap, Distinct(fr), NEW t \in Tasks
    PROVE  /\ Deregistered(fr, t) \in Frames
           /\ Len(Deregistered(fr, t).entries) <= Deregistered(fr, t).cap
           /\ Distinct(Deregistered(fr, t)) /\ Without(Deregistered(fr, t), fr, t)
  <1> DEFINE r == Deregistered(fr, t)
             s == fr.entries
             c == [task |-> None, owned |-> FALSE]
             z == [i \in DOMAIN s |-> IF s[i].task = t THEN c ELSE s[i]]
  <1>1. s \in Seq(Entries) /\ fr.cap \in Nat /\ Len(s) \in Nat /\ DOMAIN s = 1..Len(s)
    BY DEF Frames
  <1>2. c \in Entries /\ c.task = None /\ ~c.owned
    BY DEF Entries
  <1>3. r = [entries |-> z, cap |-> fr.cap]
    BY DEF Deregistered
  <1> HIDE DEF c, r
  <1>4. \A i \in DOMAIN s : z[i] = IF s[i].task = t THEN c ELSE s[i]
    OBVIOUS
  <1>5. z \in Seq(Entries) /\ Len(z) = Len(s) /\ DOMAIN z = DOMAIN s
    <2>1. \A i \in DOMAIN s : s[i] \in Entries
      BY <1>1
    <2>2. \A i \in DOMAIN s : z[i] \in Entries
      BY <1>2, <1>4, <2>1
    <2>3. DOMAIN z = 1..Len(s)
      BY <1>1
    <2>4. z = [i \in 1..Len(s) |-> z[i]]
      BY <1>1
    <2> HIDE DEF z
    <2> QED BY <1>1, <2>2, <2>3, <2>4
  <1> HIDE DEF z
  <1>6. r.entries = z /\ r.cap = fr.cap /\ r \in Frames
    BY <1>1, <1>3, <1>5 DEF Frames
  <1> HIDE DEF s
  <1>7. Len(r.entries) <= r.cap
    BY <1>5, <1>6 DEF s
  <1>8. Distinct(r)
    BY <1>2, <1>4, <1>5, <1>6 DEF Distinct, s
  <1>9. None \notin Tasks
    BY ScopeAssumption
  <1>10. ASSUME NEW u \in Tasks, Holds(r, u) PROVE u # t /\ Holds(fr, u)
    <2>1. PICK i \in DOMAIN s : z[i].task = u
      BY <1>5, <1>6, <1>10 DEF Holds, Range
    <2>2. s[i].task # t /\ z[i] = s[i]
      BY <1>2, <1>4, <1>9, <2>1
    <2> QED BY <2>1, <2>2 DEF Holds, Range, s
  <1>11. ASSUME NEW x \in Range(r.entries), x.owned PROVE x \in Range(fr.entries) /\ x.task # t
    <2>1. PICK i \in DOMAIN s : x = z[i]
      BY <1>5, <1>6 DEF Range
    <2>2. s[i].task # t /\ z[i] = s[i]
      BY <1>2, <1>4, <1>11, <2>1
    <2> QED BY <2>1, <2>2 DEF Range, s
  <1>12. ASSUME NEW x \in Range(fr.entries), x.task # t PROVE x \in Range(r.entries)
    <2>1. PICK i \in DOMAIN s : x = s[i]
      BY DEF Range, s
    <2>2. z[i] = x
      BY <1>4, <1>12, <2>1
    <2> QED BY <1>5, <1>6, <2>1, <2>2 DEF Range
  <1> QED BY <1>6, <1>7, <1>8, <1>10, <1>11, <1>12 DEF Without, r

\* A variable goes out of scope, and the task in it with its memory.
LEMMA DropTaskInv ==
    ASSUME ScopeInv, NEW f \in Tasks, DropTask(f), UNCHANGED outer
    PROVE  ScopeInv'
  <1> DEFINE t == Last(drops[f])
             F(fr) == Deregistered(fr, t)
             fs == [k \in DOMAIN frames[f] |-> F(frames[f][k])]
             ds == Front(drops[f])
             n == Len(drops[f])
  <1>0. /\ TypeOK /\ Control(f) /\ Belongs(f) /\ Once(f) /\ Owns(f)
        /\ frames[f] \in Seq(Frames) /\ drops[f] \in Seq(Tasks)
    BY DEF ScopeInv, TypeOK, Held
  <1>1. /\ pc[f] \in {"drop", "unwind"} /\ Dropping(f) /\ t \in done
        /\ freed' = freed \cup {t}
        /\ drops' = [drops EXCEPT ![f] = Front(@)]
        /\ UNCHANGED <<pc, handle, blocks, join, ops, cancelled, parked, woken, expired, mutex,
                       done, failed, slot, outer>>
    BY DEF DropTask, Waited, Running, InWait, Joining, Target, waitVars
  <1>2. frames' = [frames EXCEPT ![f] = fs]
    BY <1>0 DEF DropTask, TypeOK
  <1>3. drops[f] # <<>>
    <2>1. n \in Nat /\ (drops[f] = <<>> => n = 0)
      BY <1>0
    <2>2. DropMark(f) \in Nat /\ n > DropMark(f)
      BY <1>0, <1>1, MarkNat DEF Dropping
    <2> HIDE DEF n
    <2> QED BY <2>1, <2>2
  <1>4. /\ ds \in Seq(Tasks) /\ t \in Tasks /\ n \in DOMAIN drops[f] /\ t = drops[f][n]
        /\ \A i \in DOMAIN ds : i \in DOMAIN drops[f] /\ i # n /\ ds[i] = drops[f][i]
        /\ \A i \in DOMAIN drops[f] : i # n => i \in DOMAIN ds
    BY <1>0, <1>3, Fronted
  <1> HIDE DEF t, ds, n
  <1>5. /\ IsInjective(ds) /\ t \notin Range(ds) /\ Range(ds) \subseteq Range(drops[f])
        /\ \A u \in Range(drops[f]) : u = t \/ u \in Range(ds)
        /\ t \in Range(drops[f])
    <2>1. \A i, j \in DOMAIN drops[f] : drops[f][i] = drops[f][j] => i = j
      BY <1>0 DEF Once, IsInjective
    <2> QED BY <1>4, <2>1 DEF IsInjective, Range
  <1>6. /\ drops' \in [Tasks -> Seq(Tasks)] /\ drops'[f] = ds
        /\ \A g \in Tasks \ {f} : drops'[g] = drops[g]
    <2>1. drops' = [drops EXCEPT ![f] = ds]
      BY <1>0, <1>1 DEF TypeOK, ds
    <2> QED BY <1>0, <1>4, <2>1 DEF TypeOK
  <1>7. ASSUME NEW k \in DOMAIN frames[f]
        PROVE  /\ F(frames[f][k]) \in Frames /\ Len(F(frames[f][k]).entries) <= F(frames[f][k]).cap
               /\ Distinct(F(frames[f][k]))
               /\ \A u \in Tasks : Holds(F(frames[f][k]), u) => u # t /\ Holds(frames[f][k], u)
               /\ \A x \in Range(F(frames[f][k]).entries) :
                     x.owned => x \in Range(frames[f][k].entries) /\ x.task # t
               /\ \A x \in Range(frames[f][k].entries) : x.task # t => x \in Range(F(frames[f][k]).entries)
    <2>1. frames[f][k] \in Frames
      BY <1>0
    <2>2. Len(frames[f][k].entries) <= frames[f][k].cap /\ Distinct(frames[f][k])
      BY <1>0 DEF TypeOK, Once
    <2>3. /\ F(frames[f][k]) \in Frames /\ Len(F(frames[f][k]).entries) <= F(frames[f][k]).cap
          /\ Distinct(F(frames[f][k])) /\ Without(F(frames[f][k]), frames[f][k], t)
      BY <1>4, <2>1, <2>2, Clearing
    <2> HIDE DEF F
    <2> QED BY <2>3 DEF Without
  <1> HIDE DEF F
  <1>8. /\ fs \in Seq(Frames) /\ DOMAIN fs = DOMAIN frames[f] /\ Len(fs) = Len(frames[f])
        /\ \A k \in DOMAIN fs : fs[k] = F(frames[f][k])
    <2>1. Len(frames[f]) \in Nat /\ DOMAIN frames[f] = 1..Len(frames[f])
      BY <1>0
    <2>2. fs = [k \in 1..Len(frames[f]) |-> F(frames[f][k])] /\ \A k \in 1..Len(frames[f]) : F(frames[f][k]) \in Frames
      BY <1>7, <2>1
    <2> HIDE DEF fs
    <2> QED BY <2>1, <2>2
  <1> HIDE DEF fs
  <1>9. /\ frames' \in [Tasks -> Seq(Frames)] /\ frames'[f] = fs
        /\ \A g \in Tasks \ {f} : frames'[g] = frames[g]
    BY <1>0, <1>2, <1>8 DEF TypeOK
  <1>10. Child(f, t)
    BY <1>0, <1>5 DEF Belongs
  <1>11. TypeOK'
    <2>1. \A g \in Tasks : \A k \in DOMAIN frames'[g] : Len(frames'[g][k].entries) <= frames'[g][k].cap
      BY <1>0, <1>7, <1>8, <1>9 DEF TypeOK
    <2>2. freed' \subseteq Tasks
      BY <1>0, <1>1, <1>4 DEF TypeOK
    <2>3. /\ ops' \in [Tasks -> Nat] /\ \A g \in Tasks : ops'[g] <= MaxOps[g]
          /\ pc' \in [Tasks -> Labels] /\ handle' \in [Tasks -> Tasks \cup {None}]
          /\ blocks' \in [Tasks -> Seq(Blocks)] /\ join' \in [Tasks -> Exits]
          /\ mutex' \in Tasks \cup {None} /\ outer' \in BOOLEAN
      BY <1>0, <1>1 DEF TypeOK
    <2>4. \A S \in {cancelled', parked', woken', expired', done', failed', slot', freed'} : S \subseteq Tasks
      BY <1>0, <1>1, <2>2 DEF TypeOK
    <2> QED BY <1>6, <1>9, <2>1, <2>3, <2>4 DEF TypeOK
  <1>12. Control(f)'
    <2>1. Lives(f)'
      BY <1>0, <1>1 DEF Control, Lives
    <2>2. Nested(f)'
      BY <1>0, <1>1, <1>8, <1>9 DEF Control, Nested, Working
    <2>3. Joins(f)' /\ Completes(f)'
      BY <1>1 DEF Joins, Completes
    <2> QED BY <2>1, <2>2, <2>3 DEF Control
  <1>13. \A g \in Tasks : Control(g)'
    BY <1>1, <1>6, <1>9, <1>12, OthersStay
  <1>14. Belongs(f)'
    <2>1. \A u \in Tasks : Child(f, u)' <=> Child(f, u)
      BY <1>1 DEF Child
    <2>2. \A u \in Range(drops[f]) : u \in Tasks
      BY <1>0 DEF Range
    <2>3. \A u \in Range(ds) : Child(f, u)'
      BY <1>0, <1>5, <2>1, <2>2 DEF Belongs
    <2>4. \A k \in DOMAIN fs : \A u \in Tasks : Holds(fs[k], u) => Child(f, u)'
      BY <1>0, <1>7, <1>8, <2>1 DEF Belongs
    <2> QED BY <1>6, <1>9, <2>3, <2>4 DEF Belongs
  <1>15. Once(f)'
    <2>1. \A k \in DOMAIN fs : Distinct(fs[k])
      BY <1>7, <1>8
    <2>2. \A k, l \in DOMAIN fs : \A u \in Tasks : Holds(fs[k], u) /\ Holds(fs[l], u) => k = l
      BY <1>0, <1>7, <1>8 DEF Once
    <2> QED BY <1>5, <1>6, <1>9, <2>1, <2>2 DEF Once
  <1>16. Owns(f)'
    BY <1>0, <1>5, <1>6, <1>7, <1>8, <1>9 DEF Owns
  <1>17. ASSUME NEW u \in Tasks \ {Root}, Parent[u] = f PROVE Accounted(u)'
    <2>1. CASE u = t
      BY <1>1, <2>1 DEF Accounted
    <2>2. CASE u # t
      <3> SUFFICES ASSUME pc[u] # "unborn" PROVE Accounted(u)'
        BY <1>1, <2>2 DEF Accounted
      <3>1. \/ u \in freed
            \/ u \in Range(drops[f])
            \/ \E k \in DOMAIN frames[f] : [task |-> u, owned |-> TRUE] \in Range(frames[f][k].entries)
        BY <1>17 DEF ScopeInv, Held, Accounted
      <3>2. CASE u \in freed
        BY <1>1, <3>2 DEF Accounted
      <3>3. CASE u \in Range(drops[f])
        BY <1>5, <1>6, <1>17, <2>2, <3>3 DEF Accounted
      <3>4. ASSUME NEW k \in DOMAIN frames[f], [task |-> u, owned |-> TRUE] \in Range(frames[f][k].entries)
            PROVE  Accounted(u)'
        <4>1. [task |-> u, owned |-> TRUE].task # t
          BY <2>2
        <4>2. [task |-> u, owned |-> TRUE] \in Range(fs[k].entries)
          BY <1>7, <1>8, <3>4, <4>1
        <4> QED BY <1>8, <1>9, <1>17, <4>2 DEF Accounted
      <3> QED BY <3>1, <3>2, <3>3, <3>4
    <2> QED BY <2>1, <2>2
  <1>18. ASSUME NEW u \in freed'
         PROVE  /\ pc'[u] \in {"wake", "gone"} /\ u \notin slot' /\ u \notin Range(drops'[f])
                /\ \A k \in DOMAIN frames'[f] : ~Holds(frames'[f][k], u)
    <2>1. CASE u \in freed
      <3>1. /\ pc[u] \in {"wake", "gone"} /\ u \notin slot /\ u \notin Range(drops[f])
            /\ \A x \in Range(frames[f]) : ~Holds(x, u)
        BY <2>1 DEF ScopeInv, NoDangling
      <3>2. u \in Tasks /\ \A k \in DOMAIN frames[f] : ~Holds(frames[f][k], u)
        BY <1>0, <2>1, <3>1 DEF Range, TypeOK
      <3>3. \A k \in DOMAIN fs : ~Holds(fs[k], u)
        BY <1>7, <1>8, <3>2
      <3> QED BY <1>1, <1>5, <1>6, <1>9, <3>1, <3>3
    <2>2. CASE u = t
      <3>1. Lives(t)
        BY <1>4 DEF ScopeInv, Control
      <3>2. pc[t] \in {"wake", "gone"} /\ t \notin slot
        BY <1>1, <3>1 DEF Lives
      <3>3. \A k \in DOMAIN fs : ~Holds(fs[k], t)
        BY <1>4, <1>7, <1>8
      <3> QED BY <1>1, <1>5, <1>6, <1>9, <2>2, <3>2, <3>3
    <2> QED BY <1>1, <2>1, <2>2
  <1>19. \A u \in freed' \ freed : u \in Tasks /\ Child(f, u)
    BY <1>1, <1>4, <1>10
  <1>20. Held' /\ NoDangling'
    <2>1. freed \subseteq freed'
      BY <1>1
    <2> QED BY <1>1, <1>6, <1>9, <1>14, <1>15, <1>16, <1>17, <1>18, <1>19, <2>1, Reheld
  <1> QED BY <1>11, <1>13, <1>20 DEF ScopeInv

-----------------------------------------------------------------------------
(* The theorems.                                                           *)

\* The invariant holds when Root has been spawned.
LEMMA InitInv == Init => ScopeInv
  <1> SUFFICES ASSUME Init PROVE ScopeInv
    OBVIOUS
  <1>1. /\ NoExit \in Exits /\ EmptyFrame \in Frames /\ EmptyFrame.entries = <<>> /\ EmptyFrame.cap = 0
        /\ Root \in Tasks /\ None \notin Tasks
    BY ScopeAssumption DEF EmptyFrame, Frames, NoExit, Exit, Exits
  <1>2. /\ <<EmptyFrame>> \in Seq(Frames) /\ Len(<<EmptyFrame>>) = 1 /\ DOMAIN <<EmptyFrame>> = {1}
        /\ <<EmptyFrame>>[1] = EmptyFrame /\ Len(EmptyFrame.entries) = 0
    BY <1>1
  <1>3. TypeOK
    <2>1. \A g \in Tasks : MaxOps[g] \in Nat
      BY ScopeAssumption
    <2>2. \A g \in Tasks : \A k \in DOMAIN frames[g] : Len(frames[g][k].entries) <= frames[g][k].cap
      BY <1>1, <1>2 DEF Init
    <2>3. /\ pc \in [Tasks -> Labels] /\ handle \in [Tasks -> Tasks \cup {None}]
          /\ blocks \in [Tasks -> Seq(Blocks)] /\ drops \in [Tasks -> Seq(Tasks)]
          /\ frames \in [Tasks -> Seq(Frames)] /\ join \in [Tasks -> Exits]
      BY <1>1, <1>2 DEF Init, Labels
    <2>4. /\ ops \in [Tasks -> Nat] /\ (\A g \in Tasks : ops[g] <= MaxOps[g])
          /\ mutex \in Tasks \cup {None} /\ outer \in BOOLEAN
      BY <2>1 DEF Init
    <2>5. \A S \in {cancelled, parked, woken, expired, done, failed, slot, freed} : S \subseteq Tasks
      BY <1>1 DEF Init
    <2> QED BY <2>2, <2>3, <2>4, <2>5 DEF TypeOK
  <1>4. ASSUME NEW f \in Tasks PROVE Control(f)
    <2>1. /\ pc[f] = IF f = Root THEN "run" ELSE "unborn"
          /\ blocks[f] = <<>> /\ frames[f] = <<EmptyFrame>>
      BY DEF Init
    <2>2. Lives(f)
      BY <2>1 DEF Init, Lives
    <2>3. Nested(f)
      <3>1. Nest(<<>>) /\ Depth(<<>>) = 1
        BY DEF Nest, Depth
      <3> QED BY <1>2, <2>1, <3>1 DEF Nested
    <2>4. Joins(f) /\ Completes(f)
      BY <2>1 DEF Joins, Completes
    <2> QED BY <2>2, <2>3, <2>4 DEF Control
  <1>5. ASSUME NEW f \in Tasks PROVE Belongs(f) /\ Once(f) /\ Owns(f) /\ Accounted(f)
    <2>1. frames[f] = <<EmptyFrame>> /\ drops[f] = <<>> /\ (f # Root => pc[f] = "unborn")
      BY DEF Init
    <2>2. Range(EmptyFrame.entries) = {} /\ Range(<<>>) = {}
      BY <1>1 DEF Range
    <2>3. \A k \in DOMAIN frames[f] : frames[f][k] = EmptyFrame /\ k = 1
      BY <1>2, <2>1
    <2>4. Belongs(f) /\ Owns(f)
      BY <2>1, <2>2, <2>3 DEF Belongs, Owns, Holds
    <2>5. Once(f)
      <3>1. Distinct(EmptyFrame)
        BY <1>1 DEF Distinct
      <3>2. IsInjective(drops[f])
        BY <2>1 DEF IsInjective
      <3> QED BY <2>3, <3>1, <3>2 DEF Once
    <2> QED BY <2>1, <2>4, <2>5 DEF Accounted
  <1>6. NoDangling
    BY DEF Init, NoDangling
  <1> QED BY <1>3, <1>4, <1>5, <1>6 DEF ScopeInv, Held

\* Every step keeps the invariant.
LEMMA NextInv == ScopeInv /\ [Next]_vars => ScopeInv'
  <1> SUFFICES ASSUME ScopeInv, [Next]_vars PROVE ScopeInv'
    OBVIOUS
  <1>1. ASSUME NEW f \in Tasks, Body(f), UNCHANGED outer PROVE ScopeInv'
    <2>1. ASSUME NEW kind \in {"scope", "try"}, Enter(f, kind) PROVE ScopeInv'
      BY <1>1, <2>1, EnterInv
    <2>2. ASSUME NEW t \in Tasks \ {Root}, NEW owned \in BOOLEAN, Spawn(f, t, owned) PROVE ScopeInv'
      BY <1>1, <2>2, SpawnInv
    <2>3. ASSUME NEW t \in Tasks, NEW how \in {"await", "timed"}, Await(f, t, how) PROVE ScopeInv'
      BY <1>1, <2>3, AwaitInv
    <2>4. CASE Sleep(f)
      BY <1>1, <2>4, SleepInv
    <2>5. CASE Return(f)
      BY <1>1, <2>5, ReturnInv
    <2>6. CASE EndBlock(f)
      BY <1>1, <2>6, EndBlockInv
    <2>7. CASE Throw(f)
      BY <1>1, <2>7, ThrowInv
    <2> QED BY <1>1, <2>1, <2>2, <2>3, <2>4, <2>5, <2>6, <2>7 DEF Body
  <1>2. ASSUME NEW f \in Tasks, Runtime(f), UNCHANGED outer PROVE ScopeInv'
    <2>1. CASE WaitCancelled(f)
      BY <1>2, <2>1, WaitCancelledInv
    <2>2. CASE Park(f)
      BY <1>2, <2>2, RestInv
    <2>3. CASE Awaited(f)
      BY <1>2, <2>3, AwaitedInv
    <2>4. CASE TimedOver(f)
      BY <1>2, <2>4, TimedOverInv
    <2>5. CASE TaskCancelRead(f) \/ TaskCancelWrite(f)
      BY <1>2, <2>5, TaskCancelInv
    <2>6. CASE JoinChild(f)
      BY <1>2, <2>6, JoinChildInv
    <2>7. CASE DropTask(f)
      BY <1>2, <2>7, DropTaskInv
    <2>8. CASE Complete(f)
      BY <1>2, <2>8, CompleteInv
    <2>9. CASE Wake(f)
      BY <1>2, <2>9, WakeInv
    <2> QED BY <1>2, <2>1, <2>2, <2>3, <2>4, <2>5, <2>6, <2>7, <2>8, <2>9 DEF Runtime
  <1>3. ASSUME NEW f \in Tasks, Local(f), UNCHANGED outer PROVE ScopeInv'
    BY <1>3, SkipClearedInv, PopFrameInv, JoinedInv, DroppedInv, LandInv DEF Local
  <1>4. ASSUME NEW f \in Tasks, Deadline(f), UNCHANGED outer PROVE ScopeInv'
    BY <1>4, RestInv
  <1>5. CASE CancelRoot
    BY <1>5, RestInv
  <1>6. CASE UNCHANGED vars
    <2>1. UNCHANGED <<pc, handle, blocks, frames, drops, join, ops, cancelled, parked, woken, expired,
                      mutex, done, failed, slot, freed, outer>>
      BY <1>6 DEF vars, bodyVars, waitVars, taskVars
    <2>2. TypeOK'
      BY <2>1 DEF ScopeInv, TypeOK
    <2> QED BY <2>1, <2>2, Rests DEF taskVars
  <1> QED BY <1>1, <1>2, <1>3, <1>4, <1>5, <1>6 DEF Next, Step

\* The invariant holds in every state.
THEOREM ScopeSafe == Spec => []ScopeInv
  <1>1. Init => ScopeInv
    BY InitInv
  <1>2. ScopeInv /\ [Next]_vars => ScopeInv'
    BY NextInv
  <1> QED BY <1>1, <1>2, PTL DEF Spec

\* The state of the scopes and tasks keeps its types.
THEOREM ScopeTypeCorrect == Spec => []TypeOK
  <1>1. ScopeInv => TypeOK
    BY DEF ScopeInv
  <1> QED BY <1>1, ScopeSafe, PTL

\* Nothing points to a freed task.
THEOREM ScopeNoDangling == Spec => []NoDangling
  <1>1. ScopeInv => NoDangling
    BY DEF ScopeInv
  <1> QED BY <1>1, ScopeSafe, PTL

\* A task that completes has joined and freed its children.
THEOREM ScopeJoinedAndFreed == Spec => []JoinedAndFreed
  <1>1. ScopeInv => JoinedAndFreed
    <2> SUFFICES ASSUME ScopeInv, NEW f \in Tasks, pc[f] = "wake", NEW t \in Children(f)
                 PROVE  \/ t \in done \cap freed
                        \/ f \in failed /\ \E fr \in Range(frames[f]) :
                                              [task |-> t, owned |-> TRUE] \in Range(fr.entries)
      BY DEF JoinedAndFreed
    <2>1. t \in Tasks \ {Root} /\ Parent[t] = f /\ pc[t] # "unborn"
      BY DEF Children, Spawned
    <2>2. drops[f] = <<>> /\ (f \notin failed => frames[f] = <<>>)
      BY DEF ScopeInv, Control, Completes
    <2>3. \/ t \in freed
          \/ t \in Range(drops[f])
          \/ \E k \in DOMAIN frames[f] : [task |-> t, owned |-> TRUE] \in Range(frames[f][k].entries)
      BY <2>1 DEF ScopeInv, Held, Accounted
    <2>4. CASE t \in freed
      BY <2>1, <2>4 DEF ScopeInv, NoDangling, Control, Lives
    <2>5. t \notin Range(drops[f])
      BY <2>2 DEF Range
    <2>6. ASSUME NEW k \in DOMAIN frames[f], [task |-> t, owned |-> TRUE] \in Range(frames[f][k].entries)
          PROVE  f \in failed /\ \E fr \in Range(frames[f]) : [task |-> t, owned |-> TRUE] \in Range(fr.entries)
      <3>1. frames[f] # <<>>
        BY <2>6
      <3>2. frames[f][k] \in Range(frames[f])
        BY DEF Range
      <3> QED BY <2>2, <2>6, <3>1, <3>2
    <2> QED BY <2>3, <2>4, <2>5, <2>6
  <1> QED BY <1>1, ScopeSafe, PTL

\* What is freed with its exception still in it is freed by a spawner that throws it
\* or drops it.
LEMMA Heard ==
    ASSUME ScopeInv, [Next]_vars, NEW t \in (freed' \ freed) \cap failed
    PROVE  \/ pc[Parent[t]] \in {"drop", "unwind"}
           \/ pc[Parent[t]] = "join" /\ join[Parent[t]].frame_trigger
  <1>1. PICK f \in Tasks : (\E u \in Tasks, owned \in BOOLEAN : Spawn(f, u, owned)) \/ PopFrame(f) \/ DropTask(f)
    <2>1. freed' # freed
      OBVIOUS
    <2>2. ASSUME NEW f \in Tasks, Body(f) PROVE \E u \in Tasks, owned \in BOOLEAN : Spawn(f, u, owned)
      <3>1. ASSUME NEW kind \in {"scope", "try"}, Enter(f, kind) PROVE FALSE
        BY <2>1, <3>1 DEF Enter, taskVars
      <3>2. ASSUME NEW u \in Tasks, NEW how \in {"await", "timed"}, Await(f, u, how) PROVE FALSE
        BY <2>1, <3>2 DEF Await, taskVars
      <3>3. ~Sleep(f) /\ ~Return(f) /\ ~EndBlock(f) /\ ~Throw(f)
        BY <2>1 DEF Sleep, Return, EndBlock, Leave, Throw, taskVars
      <3> QED BY <2>2, <3>1, <3>2, <3>3 DEF Body
    <2>3. ASSUME NEW f \in Tasks, Runtime(f) PROVE DropTask(f)
      <3>1. ~WaitCancelled(f) /\ ~Park(f) /\ ~Awaited(f) /\ ~TimedOver(f)
        BY <2>1 DEF WaitCancelled, Park, Awaited, TimedOver, taskVars
      <3>2. ~TaskCancelRead(f) /\ ~TaskCancelWrite(f) /\ ~JoinChild(f)
        BY <2>1 DEF TaskCancelRead, TaskCancelWrite, JoinChild, taskVars
      <3>3. ~Complete(f) /\ ~Wake(f)
        BY <2>1 DEF Complete, Wake
      <3> QED BY <2>3, <3>1, <3>2, <3>3 DEF Runtime
    <2>4. ASSUME NEW f \in Tasks, Local(f) PROVE PopFrame(f)
      <3>1. ~SkipCleared(f) /\ ~Joined(f)
        BY <2>1 DEF SkipCleared, Joined, taskVars
      <3>2. ~Dropped(f) /\ ~Land(f)
        BY <2>1 DEF Dropped, Land, taskVars
      <3> QED BY <2>4, <3>1, <3>2 DEF Local
    <2>5. ~CancelRoot /\ \A f \in Tasks : ~Deadline(f)
      BY <2>1 DEF CancelRoot, Deadline, taskVars
    <2>6. ~UNCHANGED vars
      BY <2>1 DEF vars, taskVars
    <2>7. \E f \in Tasks : Step(f)
      BY <2>5, <2>6 DEF Next
    <2> QED BY <2>2, <2>3, <2>4, <2>7 DEF Step
  <1>2. Belongs(f) /\ Owns(f) /\ TypeOK
    BY DEF ScopeInv, Held
  <1>3. ASSUME NEW u \in Tasks, NEW owned \in BOOLEAN, Spawn(f, u, owned) PROVE FALSE
    <2>1. t \in Reaped(Last(frames[f]))
      BY <1>3 DEF Spawn
    <2> QED BY <2>1 DEF Reaped, Reapable
  <1>4. CASE PopFrame(f)
    <2>1. /\ pc[f] = "join" /\ Len(frames[f]) > join[f].mark /\ ~Joining(f)
      BY <1>4 DEF PopFrame
    <2>2. PICK e \in Range(Last(frames[f]).entries) : e.owned /\ t = e.task
      BY <1>4 DEF PopFrame
    <2>3. /\ frames[f] # <<>>
          /\ e.task \in Tasks /\ e.task \in failed => join[f].frame_trigger
      BY <2>1, Passed
    <2>4. Len(frames[f]) \in DOMAIN frames[f] /\ Last(frames[f]) = frames[f][Len(frames[f])]
      BY <1>2, <2>3, Innermost
    <2>5. t \in Tasks
      BY <1>2, <2>2, <2>4 DEF Owns
    <2>6. Parent[t] = f
      BY <1>2, <2>2, <2>4, <2>5 DEF Belongs, Holds, Child
    <2> QED BY <2>1, <2>2, <2>3, <2>5, <2>6
  <1>5. CASE DropTask(f)
    <2>1. /\ pc[f] \in {"drop", "unwind"} /\ Dropping(f) /\ t = Last(drops[f])
      BY <1>5 DEF DropTask, Waited, Running, InWait, Joining
    <2>2. drops[f] \in Seq(Tasks) /\ DropMark(f) \in Nat /\ Len(drops[f]) > DropMark(f)
      BY <1>2, <2>1, MarkNat DEF TypeOK, Dropping
    <2>3. drops[f] # <<>>
      BY <2>2
    <2>4. t \in Range(drops[f])
      BY <2>1, <2>2, <2>3, Fronted DEF Range
    <2>5. Parent[t] = f
      BY <1>2, <2>4 DEF Belongs, Child
    <2> QED BY <2>1, <2>5
  <1> QED BY <1>1, <1>3, <1>4, <1>5

\* No failure goes unheard.
THEOREM ScopeFailuresHeard == Spec => FailuresHeard
  <1>1. ScopeInv /\ [Next]_vars =>
           [\A t \in (freed' \ freed) \cap failed :
               \/ pc[Parent[t]] \in {"drop", "unwind"}
               \/ pc[Parent[t]] = "join" /\ join[Parent[t]].frame_trigger]_vars
    BY Heard
  <1> QED BY <1>1, ScopeSafe, PTL DEF Spec, FailuresHeard
=============================================================================
