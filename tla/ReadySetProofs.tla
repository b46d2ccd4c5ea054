--------------------------- MODULE ReadySetProofs ---------------------------
(***************************************************************************)
(* For any sets, descriptors and interests: a set reports its members      *)
(* only, and whoever is parked in it hears of every member, whatever fires *)
(* or is closed while members come and go.                                 *)
(***************************************************************************)
EXTENDS ReadySet, FiniteSetTheorems, TLAPS

-----------------------------------------------------------------------------
(* The inductive invariant.                                                *)

\* An armed member's descriptor is open, and armed for it or about to be.
Listed(m) ==
    /\ m.ev # {}
    /\ m.armed => m.fd \in open /\ ~m.dead /\ Attended(m)

\* Who is dead, or has a descriptor that is not in use, has been closed.
Buried(m) == m.dead \/ m.fd \notin open => m.gone

\* While the fiber waits, a member that has fired is in the ring.
Heard(s, m) == s \in inside => m.gone \/ m.lost \/ m.armed \/ m.fd \in ToSet(ring[s])

\* Of the members for one descriptor, all but the newest are dead.
Newest(s) ==
    \A i, j \in DOMAIN members[s] :
        j < i /\ members[s][j].fd = members[s][i].fd => members[s][i].dead

\* A parked fiber is known to its set and has nothing to report.
Parks == known \subseteq inside /\ parked \subseteq known /\ \A s \in parked : ring[s] = <<>>

\* What is in the rings are members.
Belong(s) == \A k \in DOMAIN ring[s] : \E i \in DOMAIN members[s] : members[s][i].fd = ring[s][k]

\* All members of a set are listed as they should be.
Watching(s) == \A i \in DOMAIN members[s] : Listed(members[s][i])

\* A set's members and its ring agree.
Steady(s) ==
    /\ Newest(s)
    /\ Belong(s)
    /\ \A i \in DOMAIN members[s] : Buried(members[s][i]) /\ Heard(s, members[s][i])

ReadyInv == TypeOK /\ Parks /\ \A s \in Sets : Watching(s) /\ Steady(s)

-----------------------------------------------------------------------------
(* Sequences.                                                              *)

\* The places of a sequence that are kept: how many, and where each is found.
LEMMA Placed ==
    ASSUME NEW n \in Nat, NEW I \in SUBSET (1..n)
    PROVE  /\ Cardinality(I) \in 0..n
           /\ \A k \in 1..Cardinality(I) : Place(I, k) \in I
           /\ \A k, l \in 1..Cardinality(I) : Place(I, k) = Place(I, l) => k = l
           /\ \A i \in I : \E k \in 1..Cardinality(I) : Place(I, k) = i
  <1> DEFINE c == Cardinality(I)
             UpTo(i) == {j \in I : j <= i}
             rank == [i \in I |-> Cardinality(UpTo(i))]
  <1>1. /\ IsFiniteSet(I) /\ c \in Nat /\ c <= n
        /\ IsFiniteSet(1..c) /\ Cardinality(1..c) = c
    <2>1. IsFiniteSet(1..n) /\ Cardinality(1..n) = n
      BY FS_Interval
    <2>2. IsFiniteSet(I) /\ c <= n
      BY <2>1, FS_Subset
    <2>3. c \in Nat
      BY <2>2, FS_CardinalityType
    <2>4. IsFiniteSet(1..c) /\ Cardinality(1..c) = IF 1 > c THEN 0 ELSE c - 1 + 1
      BY <2>3, FS_Interval
    <2> QED BY <2>2, <2>3, <2>4
  <1>2. \A i \in I : IsFiniteSet(UpTo(i)) /\ rank[i] \in 1..c
    <2> TAKE i \in I
    <2>1. UpTo(i) \in SUBSET I /\ i \in UpTo(i)
      OBVIOUS
    <2>2. IsFiniteSet(UpTo(i)) /\ Cardinality(UpTo(i)) <= c
      BY <1>1, <2>1, FS_Subset
    <2>3. Cardinality(UpTo(i)) \in Nat
      BY <2>2, FS_CardinalityType
    <2>4. Cardinality(UpTo(i)) # 0
      BY <2>1, <2>2, FS_EmptySet
    <2> HIDE DEF UpTo, c
    <2> QED BY <1>1, <2>2, <2>3, <2>4
  <1>3. \A i, j \in I : i < j => rank[i] # rank[j]
    <2> TAKE i \in I
    <2> TAKE j \in I
    <2> HAVE i < j
    <2>1. UpTo(i) \in SUBSET UpTo(j)
      <3>1. \A x \in I : x <= i => x <= j
        OBVIOUS
      <3> QED BY <3>1
    <2>2. j \in UpTo(j) /\ j \notin UpTo(i)
      OBVIOUS
    <2>3. Cardinality(UpTo(i)) # Cardinality(UpTo(j))
      BY <1>2, <2>1, <2>2, FS_Subset
    <2> QED BY <2>3
  <1>4. \A i, j \in I : rank[i] = rank[j] => i = j
    <2> TAKE i \in I
    <2> TAKE j \in I
    <2>1. i < j \/ j < i \/ i = j
      OBVIOUS
    <2> HIDE DEF rank
    <2> QED BY <1>3, <2>1
  <1> HIDE DEF c, rank
  <1>5. rank \in Injection(I, 1..c)
    <2>1. rank \in [I -> 1..c]
      BY <1>2 DEF rank
    <2> QED BY <1>4, <2>1 DEF Injection, IsInjective
  <1>6. rank \in Surjection(I, 1..c)
    BY <1>1, <1>5, FS_Injection DEF c
  <1>7. \A k \in 1..c : \E i \in I : rank[i] = k
    BY <1>6 DEF Surjection
  <1>8. \A k \in 1..c : Place(I, k) \in I /\ rank[Place(I, k)] = k
    BY <1>7 DEF Place, rank
  <1>9. \A i \in I : rank[i] \in 1..c /\ Place(I, rank[i]) = i
    <2> TAKE i \in I
    <2>1. rank[i] \in 1..c
      BY <1>2
    <2> QED BY <1>4, <1>8, <2>1
  <1>10. c \in 0..n
    BY <1>1
  <1> QED BY <1>8, <1>9, <1>10 DEF c

\* The elements of r are those of s at the places in I.
Picks(r, s, I) ==
    /\ \A k \in DOMAIN r : \E i \in I : r[k] = s[i]
    /\ \A i \in I : \E k \in DOMAIN r : r[k] = s[i]

\* What is kept of a sequence comes from the places in I, and from all of them.
LEMMA SubsequenceOf ==
    ASSUME NEW S, NEW s \in Seq(S), NEW I \in SUBSET DOMAIN s
    PROVE  /\ Subsequence(s, I) \in Seq(S) /\ Len(Subsequence(s, I)) <= Len(s)
           /\ Picks(Subsequence(s, I), s, I)
  <1> DEFINE c == Cardinality(I)  r == Subsequence(s, I)
  <1>1. Len(s) \in Nat /\ DOMAIN s = 1..Len(s) /\ \A i \in DOMAIN s : s[i] \in S
    OBVIOUS
  <1>2. /\ c \in 0..Len(s)
        /\ \A k \in 1..c : Place(I, k) \in I
        /\ \A i \in I : \E k \in 1..c : Place(I, k) = i
    BY <1>1, Placed
  <1>3. r = [k \in 1..c |-> s[Place(I, k)]]
    BY DEF Subsequence
  <1> HIDE DEF c, r
  <1>4. DOMAIN r = 1..c /\ \A k \in 1..c : r[k] = s[Place(I, k)] /\ r[k] \in S
    BY <1>1, <1>2, <1>3
  <1>5. r \in Seq(S) /\ Len(r) = c
    BY <1>2, <1>3, <1>4
  <1>6. Picks(r, s, I)
    BY <1>2, <1>4 DEF Picks
  <1>7. Len(r) <= Len(s)
    BY <1>2, <1>5
  <1> QED BY <1>5, <1>6, <1>7 DEF r

\* A sequence without elements.
LEMMA Vacant ==
    ASSUME NEW S, NEW s \in Seq(S), DOMAIN s = {}
    PROVE  s = <<>>
  <1>1. Len(s) \in Nat /\ DOMAIN s = 1..Len(s)
    OBVIOUS
  <1>2. Len(s) = 0
    BY <1>1
  <1> QED BY <1>2

\* Two sequences in one.
LEMMA Joined ==
    ASSUME NEW S, NEW s \in Seq(S), NEW t \in Seq(S)
    PROVE  /\ s \o t \in Seq(S) /\ Len(s \o t) = Len(s) + Len(t)
           /\ DOMAIN (s \o t) = 1..(Len(s) + Len(t))
           /\ \A k \in DOMAIN s : (s \o t)[k] = s[k]
           /\ \A k \in DOMAIN t : (s \o t)[Len(s) + k] = t[k]
  OBVIOUS

\* A sequence without one of its elements.
LEMMA Removed ==
    ASSUME NEW S, NEW s \in Seq(S), NEW i \in DOMAIN s
    PROVE  /\ RemoveAt(s, i) \in Seq(S)
           /\ \A k \in DOMAIN RemoveAt(s, i) :
                 /\ k \in DOMAIN s /\ k < i => RemoveAt(s, i)[k] = s[k]
                 /\ ~(k < i) => k + 1 \in DOMAIN s /\ RemoveAt(s, i)[k] = s[k + 1]
           /\ \A k \in DOMAIN s : /\ k < i => k \in DOMAIN RemoveAt(s, i)
                                  /\ i < k => k - 1 \in DOMAIN RemoveAt(s, i)
  <1> DEFINE r == RemoveAt(s, i)  n == Len(s)
  <1>1. n \in Nat /\ i \in 1..n /\ DOMAIN s = 1..n
    OBVIOUS
  <1>2. r = SubSeq(s, 1, i - 1) \o SubSeq(s, i + 1, n)
    BY DEF RemoveAt
  <1>3. /\ SubSeq(s, 1, i - 1) \in Seq(S) /\ Len(SubSeq(s, 1, i - 1)) = i - 1
        /\ \A k \in 1..(i - 1) : SubSeq(s, 1, i - 1)[k] = s[k]
    BY <1>1
  <1>4. /\ SubSeq(s, i + 1, n) \in Seq(S) /\ Len(SubSeq(s, i + 1, n)) = n - i
        /\ \A k \in 1..(n - i) : SubSeq(s, i + 1, n)[k] = s[i + k]
    BY <1>1
  <1>5. /\ r \in Seq(S) /\ Len(r) = n - 1 /\ DOMAIN r = 1..(n - 1)
        /\ \A k \in 1..(n - 1) : r[k] = IF k < i THEN s[k] ELSE s[k + 1]
    <2> DEFINE a == SubSeq(s, 1, i - 1)  b == SubSeq(s, i + 1, n)
    <2>1. a \in Seq(S) /\ b \in Seq(S) /\ Len(a) = i - 1 /\ Len(b) = n - i
      BY <1>3, <1>4
    <2> HIDE DEF a, b, n
    <2>2. r = a \o b
      BY <1>2 DEF a, b
    <2>3. r \in Seq(S) /\ Len(r) = n - 1
      <3>1. a \o b \in Seq(S) /\ Len(a \o b) = Len(a) + Len(b)
        BY <2>1, Joined
      <3>2. (i - 1) + (n - i) = n - 1
        BY <1>1
      <3> QED BY <2>1, <2>2, <3>1, <3>2
    <2>4. DOMAIN r = 1..(n - 1)
      BY <2>3
    <2>5. ASSUME NEW k \in 1..(n - 1) PROVE r[k] = IF k < i THEN s[k] ELSE s[k + 1]
      <3>1. CASE k < i
        <4>1. k \in 1..(i - 1)
          BY <1>1, <3>1
        <4>2. r[k] = a[k]
          BY <1>1, <2>1, <2>2, <4>1, Joined
        <4> QED BY <1>3, <3>1, <4>1, <4>2 DEF a
      <3>2. CASE ~(k < i)
        <4>1. k - (i - 1) \in 1..(n - i) /\ i + (k - (i - 1)) = k + 1
          BY <1>1, <3>2
        <4>2. (a \o b)[k] = b[k - (i - 1)]
          <5>1. DOMAIN b = 1..(n - i)
            BY <2>1
          <5>2. \A j \in DOMAIN b : (a \o b)[Len(a) + j] = b[j]
            BY <2>1, Joined
          <5>3. k - (i - 1) \in DOMAIN b /\ Len(a) + (k - (i - 1)) = k
            BY <1>1, <2>1, <4>1, <5>1
          <5>4. (a \o b)[Len(a) + (k - (i - 1))] = b[k - (i - 1)]
            BY <5>2, <5>3, Zenon
          <5> QED BY <5>3, <5>4
        <4>3. b[k - (i - 1)] = s[i + (k - (i - 1))]
          BY <1>4, <4>1 DEF b, n
        <4> QED BY <2>2, <3>2, <4>1, <4>2, <4>3
      <3> QED BY <3>1, <3>2
    <2> QED BY <2>3, <2>4, <2>5
  <1> HIDE DEF r, n
  <1>6. ASSUME NEW k \in DOMAIN r
        PROVE  /\ k \in DOMAIN s /\ k < i => r[k] = s[k]
               /\ ~(k < i) => k + 1 \in DOMAIN s /\ r[k] = s[k + 1]
    BY <1>1, <1>5
  <1>7. ASSUME NEW k \in DOMAIN s
        PROVE  /\ k < i => k \in DOMAIN r
               /\ i < k => k - 1 \in DOMAIN r
    BY <1>1, <1>5
  <1> QED BY <1>5, <1>6, <1>7 DEF r

\* A sequence with a new head.
LEMMA Headed ==
    ASSUME NEW S, NEW s \in Seq(S), NEW x \in S
    PROVE  /\ <<x>> \o s \in Seq(S)
           /\ (<<x>> \o s)[1] = x
           /\ \A k \in DOMAIN (<<x>> \o s) : k = 1 \/ (k - 1 \in DOMAIN s /\ (<<x>> \o s)[k] = s[k - 1])
           /\ \A k \in DOMAIN s : k + 1 \in DOMAIN (<<x>> \o s) /\ (<<x>> \o s)[k + 1] = s[k]
  OBVIOUS

\* Two sequences in one, of which a beginning is kept.
LEMMA Fitted ==
    ASSUME NEW S, NEW s \in Seq(S), NEW t \in Seq(S), Len(s) <= Ring, Ring \in Nat
    PROVE  /\ s \o t \in Seq(S) /\ Fits(s \o t) \in Seq(S) /\ Len(Fits(s \o t)) <= Ring
           /\ \A k \in DOMAIN s : k \in DOMAIN Fits(s \o t) /\ Fits(s \o t)[k] = s[k]
           /\ \A k \in DOMAIN Fits(s \o t) :
                 \/ k \in DOMAIN s /\ Fits(s \o t)[k] = s[k]
                 \/ \E j \in DOMAIN t : Fits(s \o t)[k] = t[j]
           /\ \A j \in DOMAIN t : \/ t[j] \in ToSet(Fits(s \o t))
                                  \/ t[j] \in ToSet(SubSeq(s \o t, Ring + 1, Len(s \o t)))
  <1> DEFINE a == s \o t  n == Len(a)  f == Fits(a)  d == SubSeq(a, Ring + 1, n)
  <1>1. /\ a \in Seq(S) /\ n = Len(s) + Len(t) /\ DOMAIN a = 1..n
        /\ Len(s) \in Nat /\ Len(t) \in Nat /\ n \in Nat
    OBVIOUS
  <1>2. \A k \in DOMAIN s : k \in 1..n /\ a[k] = s[k]
    OBVIOUS
  <1>3. \A j \in DOMAIN t : Len(s) + j \in 1..n /\ a[Len(s) + j] = t[j]
    OBVIOUS
  <1>4. \A k \in 1..n : (k \in DOMAIN s /\ a[k] = s[k]) \/ \E j \in DOMAIN t : a[k] = t[j]
    <2> TAKE k \in 1..n
    <2>1. CASE k <= Len(s)
      BY <1>1, <1>2, <2>1
    <2>2. CASE ~(k <= Len(s))
      <3>1. k - Len(s) \in DOMAIN t /\ Len(s) + (k - Len(s)) = k
        BY <1>1, <2>2
      <3> QED BY <1>3, <3>1
    <2> QED BY <2>1, <2>2
  <1> HIDE DEF a, n
  <1>5. /\ Min({Ring, n}) \in Nat /\ Min({Ring, n}) <= n /\ Min({Ring, n}) <= Ring
        /\ Min({Ring, n}) = n \/ Min({Ring, n}) = Ring
    <2>1. CASE Ring <= n
      <3>1. Min({Ring, n}) = Ring
        BY <1>1, <2>1 DEF Min
      <3> QED BY <1>1, <2>1, <3>1
    <2>2. CASE ~(Ring <= n)
      <3>1. Min({Ring, n}) = n
        BY <1>1, <2>2 DEF Min
      <3> QED BY <1>1, <2>2, <3>1
    <2> QED BY <2>1, <2>2
  <1> DEFINE m == Min({Ring, n})
  <1>6. f = SubSeq(a, 1, m)
    BY DEF Fits, n
  <1> HIDE DEF f, m
  <1>7. m \in Nat /\ m <= n /\ m <= Ring /\ (m = n \/ m = Ring)
    BY <1>5 DEF m
  <1>8. f \in Seq(S) /\ Len(f) = m /\ DOMAIN f = 1..m /\ \A k \in 1..m : f[k] = a[k]
    <2>1. Len(a) = n /\ m \in Nat /\ m <= n
      BY <1>1, <1>7 DEF n
    <2> QED BY <1>1, <1>6, <2>1
  <1>9. \A k \in DOMAIN s : k \in DOMAIN f /\ f[k] = s[k]
    <2>1. Len(s) <= m
      BY <1>1, <1>7
    <2> QED BY <1>1, <1>2, <1>8, <2>1
  <1>10. \A k \in DOMAIN f : (k \in DOMAIN s /\ f[k] = s[k]) \/ \E j \in DOMAIN t : f[k] = t[j]
    BY <1>1, <1>4, <1>7, <1>8
  <1>11. \A k \in 1..n : a[k] \in ToSet(f) \/ a[k] \in ToSet(d)
    <2> TAKE k \in 1..n
    <2>1. CASE k <= m
      <3>1. k \in DOMAIN f /\ f[k] = a[k]
        BY <1>1, <1>7, <1>8, <2>1
      <3> QED BY <3>1 DEF ToSet
    <2>2. CASE ~(k <= m)
      <3>1. m = Ring /\ Ring + 1 <= n
        BY <1>1, <1>7, <2>2
      <3>2. Len(d) = n - Ring /\ d \in Seq(S) /\ \A j \in 1..(n - Ring) : d[j] = a[Ring + j]
        BY <1>1, <3>1 DEF n
      <3>3. k - Ring \in 1..(n - Ring) /\ Ring + (k - Ring) = k
        BY <1>1, <1>7, <2>2, <3>1
      <3>4. k - Ring \in DOMAIN d /\ d[k - Ring] = a[k]
        BY <3>2, <3>3
      <3> HIDE DEF d
      <3> QED BY <3>4 DEF ToSet
    <2> QED BY <2>1, <2>2
  <1> HIDE DEF d
  <1>12. \A j \in DOMAIN t : t[j] \in ToSet(f) \/ t[j] \in ToSet(d)
    BY <1>3, <1>11
  <1>13. Len(f) <= Ring
    BY <1>7, <1>8
  <1> QED BY <1>1, <1>8, <1>9, <1>10, <1>12, <1>13 DEF a, f, d, n

-----------------------------------------------------------------------------
(* What a step leaves as it is.                                            *)

\* The interest in a descriptor covers each member that is listed for it.
LEMMA Covers ==
    ASSUME NEW ms \in [Sets -> Seq(Members)], NEW fd \in Fds
    PROVE  /\ UnionEvents(ms, fd) \in SUBSET Dirs
           /\ \A s \in Sets : \A i \in DOMAIN ms[s] :
                 ms[s][i].fd = fd /\ ms[s][i].armed => ms[s][i].ev \subseteq UnionEvents(ms, fd)
  <1> DEFINE Of(s) == {n \in ToSet(ms[s]) : n.fd = fd /\ n.armed}
             Evs(s) == {m.ev : m \in Of(s)}
  <1>1. \A s \in Sets : \A i \in DOMAIN ms[s] : ms[s][i] \in Members /\ ms[s][i] \in ToSet(ms[s])
    BY DEF ToSet
  <1>2. \A s \in Sets : \A n \in ToSet(ms[s]) : n \in Members
    BY DEF ToSet
  <1>3. UnionEvents(ms, fd) = UNION UNION {Evs(s) : s \in Sets}
    BY DEF UnionEvents
  <1>4. \A s \in Sets : \A e \in Evs(s) : e \in SUBSET Dirs
    BY <1>2 DEF Members
  <1>5. \A s \in Sets : \A i \in DOMAIN ms[s] : ms[s][i].fd = fd /\ ms[s][i].armed => ms[s][i].ev \in Evs(s)
    BY <1>1
  <1> HIDE DEF Evs
  <1>6. UnionEvents(ms, fd) \in SUBSET Dirs
    BY <1>3, <1>4
  <1>7. \A s \in Sets : \A e \in Evs(s) : e \subseteq UnionEvents(ms, fd)
    BY <1>3
  <1> QED BY <1>5, <1>6, <1>7

\* After a descriptor is armed again, it is armed for all that are listed.
LEMMA Rearmed ==
    ASSUME NEW fds, Rearm(fds), reg \in [Fds -> SUBSET Dirs], (members \in [Sets -> Seq(Members)])'
    PROVE  /\ reg' \in [Fds -> SUBSET Dirs]
           /\ \A fd \in Fds \ fds : reg'[fd] = reg[fd]
           /\ \A s \in Sets : \A i \in DOMAIN members'[s] :
                 members'[s][i].armed /\ members'[s][i].fd \in fds /\ members'[s][i].fd \in open
                    => members'[s][i].ev \subseteq reg'[members'[s][i].fd]
  <1>1. reg' = [fd \in Fds |-> IF fd \notin fds THEN reg[fd]
                               ELSE IF fd \in open THEN UnionEvents(members', fd) ELSE {}]
    BY DEF Rearm
  <1>2. /\ \A fd \in Fds : UnionEvents(members', fd) \in SUBSET Dirs
        /\ \A fd \in Fds : \A s \in Sets : \A i \in DOMAIN members'[s] :
              members'[s][i].fd = fd /\ members'[s][i].armed
                 => members'[s][i].ev \subseteq UnionEvents(members', fd)
    BY Covers
  <1>3. reg' \in [Fds -> SUBSET Dirs]
    BY <1>1, <1>2
  <1>4. \A fd \in Fds \ fds : reg'[fd] = reg[fd]
    BY <1>1
  <1>5. ASSUME NEW s \in Sets, NEW i \in DOMAIN members'[s],
               members'[s][i].armed, members'[s][i].fd \in fds, members'[s][i].fd \in open
        PROVE  members'[s][i].ev \subseteq reg'[members'[s][i].fd]
    <2>1. members'[s][i].fd \in Fds
      <3>1. members'[s][i] \in Members
        OBVIOUS
      <3> QED BY <3>1 DEF Members
    <2>2. reg'[members'[s][i].fd] = UnionEvents(members', members'[s][i].fd)
      BY <1>1, <1>5, <2>1
    <2> QED BY <1>2, <1>5, <2>1, <2>2
  <1> QED BY <1>3, <1>4, <1>5

\* While members come and go, each that is listed was attended or has its descriptor
\* armed again.
LEMMA Settled ==
    ASSUME NEW fds, Rearm(fds), reg \in [Fds -> SUBSET Dirs], (members \in [Sets -> Seq(Members)])',
           UNCHANGED <<open, batch>>,
           \A s \in Sets : \A i \in DOMAIN members'[s] :
              /\ members'[s][i].ev # {}
              /\ members'[s][i].armed => /\ members'[s][i].fd \in open /\ ~members'[s][i].dead
                                         /\ members'[s][i].fd \in fds \/ Attended(members'[s][i])
    PROVE  (\A s \in Sets : Watching(s))'
  <1> SUFFICES ASSUME NEW s \in Sets, NEW i \in DOMAIN members'[s]
               PROVE  Listed(members[s][i])'
    BY DEF Watching
  <1> DEFINE m == members'[s][i]
  <1>1. m \in Members /\ m.ev # {}
    OBVIOUS
  <1>2. CASE m.armed
    <2>1. m.fd \in open /\ ~m.dead /\ (m.fd \in fds \/ Attended(m)) /\ m.fd \in Fds
      BY <1>1, <1>2 DEF Members
    <2>2. CASE m.fd \in fds
      <3>1. m.ev \subseteq reg'[m.fd]
        BY <1>2, <2>1, <2>2, Rearmed
      <3> QED BY <1>1, <1>2, <2>1, <3>1 DEF Listed, Attended
    <2>3. CASE m.fd \notin fds
      <3>1. reg'[m.fd] = reg[m.fd]
        BY <2>1, <2>3, Rearmed
      <3> QED BY <1>1, <1>2, <2>1, <2>3, <3>1 DEF Listed, Attended
    <2> QED BY <2>2, <2>3
  <1>3. CASE ~m.armed
    BY <1>1, <1>3 DEF Listed
  <1> QED BY <1>2, <1>3

\* A set that a step does not touch stays as it is.
LEMMA Apart ==
    ASSUME NEW s \in Sets, Steady(s), members'[s] = members[s], ring'[s] = ring[s],
           s \in inside' => s \in inside, \A fd \in open : fd \in open'
    PROVE  Steady(s)'
  <1>1. Newest(s)' /\ Belong(s)'
    BY DEF Steady, Newest, Belong
  <1>2. \A i \in DOMAIN members'[s] : Buried(members[s][i])' /\ Heard(s, members[s][i])'
    BY DEF Steady, Buried, Heard
  <1> QED BY <1>1, <1>2 DEF Steady

\* Fibers stay where they are.
LEMMA Still ==
    ASSUME Parks, UNCHANGED waitVars, \A s \in parked : ring[s] = <<>> => ring'[s] = <<>>
    PROVE  Parks'
  BY DEF Parks, waitVars

-----------------------------------------------------------------------------
(* Membership.                                                             *)

\* A member is armed when it is added, unless it is closed.
LEMMA NewMembers ==
    ASSUME NEW fd \in Fds, NEW ev \in SUBSET Dirs
    PROVE  LET x == NewMember(fd, ev)
           IN  /\ x \in Members /\ x.fd = fd /\ x.ev = ev /\ ~x.dead
               /\ x.armed <=> fd \in open
               /\ x.gone <=> fd \notin open
  <1> DEFINE a == fd \in open  g == fd \notin open  x == NewMember(fd, ev)
  <1>1. x = [fd |-> fd, ev |-> ev, armed |-> a, dead |-> FALSE, gone |-> g, lost |-> FALSE]
    BY DEF NewMember
  <1>2. a \in BOOLEAN /\ g \in BOOLEAN /\ (a <=> fd \in open) /\ (g <=> fd \notin open)
    OBVIOUS
  <1> HIDE DEF a, g, x
  <1>3. x \in Members
    BY <1>1, <1>2 DEF Members
  <1>4. x.fd = fd /\ x.ev = ev /\ x.armed = a /\ x.dead = FALSE /\ x.gone = g
    BY <1>1
  <1> QED BY <1>2, <1>3, <1>4 DEF x

\* A member that is armed again, and that nothing else happens to.
LEMMA ArmOne ==
    ASSUME NEW m \in Members
    PROVE  /\ Arm(m) \in Members /\ Arm(m).fd = m.fd /\ Arm(m).ev = m.ev
           /\ Arm(m).dead <=> m.dead
           /\ Arm(m).gone <=> m.gone
           /\ Arm(m).armed <=> m.armed \/ ToArm(m)
  BY DEF Arm, Members

\* A member that is hit is unlisted.
LEMMA AfterOne ==
    ASSUME NEW events, NEW q, NEW closed, NEW s, NEW m \in Members
    PROVE  LET a == After(events, q, closed, s, m)
               all == Reports(events, q, s)
           IN  /\ a \in Members /\ a.fd = m.fd /\ a.ev = m.ev
               /\ a.gone <=> m.gone \/ m.fd \in closed
               /\ a.armed <=> m.armed /\ ~Hit(events, m)
               /\ ~Hit(events, m) => (a.dead <=> m.dead) /\ (a.lost <=> m.lost)
               /\ Hit(events, m) => /\ a.dead <=> m.fd \in closed
                                    /\ a.lost <=> m.fd \in ToSet(SubSeq(all, Ring + 1, Len(all)))
  <1> DEFINE all == Reports(events, q, s)  over == ToSet(SubSeq(all, Ring + 1, Len(all)))
             g == m.gone \/ m.fd \in closed  l == m.fd \in over  d == m.fd \in closed
             a == After(events, q, closed, s, m)
  <1>1. a = IF Hit(events, m) THEN [m EXCEPT !.armed = FALSE, !.dead = d, !.gone = g, !.lost = l]
                              ELSE [m EXCEPT !.gone = g]
    BY DEF After
  <1>2. /\ g \in BOOLEAN /\ l \in BOOLEAN /\ d \in BOOLEAN
        /\ g <=> m.gone \/ m.fd \in closed
        /\ l <=> m.fd \in over
        /\ d <=> m.fd \in closed
    OBVIOUS
  <1>3. Hit(events, m) => m.armed
    BY DEF Hit
  <1> HIDE DEF g, l, d, a, over
  <1>4. CASE Hit(events, m)
    <2>1. a \in Members
      BY <1>1, <1>2, <1>4 DEF Members
    <2>2. a.fd = m.fd /\ a.ev = m.ev /\ a.armed = FALSE /\ a.dead = d /\ a.gone = g /\ a.lost = l
      BY <1>1, <1>4 DEF Members
    <2> QED BY <1>2, <1>3, <1>4, <2>1, <2>2 DEF a, over
  <1>5. CASE ~Hit(events, m)
    <2>1. a \in Members
      BY <1>1, <1>2, <1>5 DEF Members
    <2>2. /\ a.fd = m.fd /\ a.ev = m.ev /\ a.armed = m.armed /\ a.dead = m.dead
          /\ a.gone = g /\ a.lost = m.lost
      BY <1>1, <1>5 DEF Members
    <2> QED BY <1>2, <1>5, <2>1, <2>2 DEF a, over
  <1> QED BY <1>4, <1>5

\* A member that is replaced is the only one that is not dead.
LEMMA ReplaceStep ==
    ASSUME ReadyInv, NEW s \in Sets, NEW fd \in Fds, NEW ev \in (SUBSET Dirs) \ {{}}, Replace(s, fd, ev)
    PROVE  ReadyInv'
  <1> DEFINE x == NewMember(fd, ev)
  <1>1. PICK i \in Live(s, fd) : members' = [members EXCEPT ![s][i] = x]
    BY DEF Replace
  <1>2. /\ x \in Members /\ x.fd = fd /\ x.ev = ev /\ ~x.dead /\ (x.armed <=> fd \in open)
        /\ (x.gone <=> fd \notin open)
    BY NewMembers
  <1> HIDE DEF x
  <1>3. TypeOK /\ Parks /\ \A t \in Sets : Watching(t) /\ Steady(t)
    BY DEF ReadyInv
  <1>4. i \in DOMAIN members[s] /\ members[s][i].fd = fd /\ ~members[s][i].dead
    BY DEF Live
  <1>5. /\ members \in [Sets -> Seq(Members)] /\ reg \in [Fds -> SUBSET Dirs]
        /\ members' \in [Sets -> Seq(Members)]
        /\ \A t \in Sets \ {s} : members'[t] = members[t]
        /\ DOMAIN members'[s] = DOMAIN members[s] /\ members'[s][i] = x
        /\ \A k \in DOMAIN members[s] : k # i => members'[s][k] = members[s][k]
    BY <1>1, <1>2, <1>3, <1>4 DEF TypeOK
  <1>6. Rearm({fd}) /\ UNCHANGED <<ring, waitVars, open, ready, batch>>
    BY DEF Replace
  <1>7. TypeOK'
    <2>1. reg' \in [Fds -> SUBSET Dirs]
      BY <1>5, <1>6, Rearmed
    <2> QED BY <1>3, <1>5, <1>6, <2>1 DEF TypeOK, waitVars
  <1>8. Parks'
    BY <1>3, <1>6, Still
  <1>9. (\A t \in Sets : Watching(t))'
    <2>1. ASSUME NEW t \in Sets, NEW k \in DOMAIN members'[t]
          PROVE  /\ members'[t][k].ev # {}
                 /\ members'[t][k].armed => /\ members'[t][k].fd \in open /\ ~members'[t][k].dead
                                            /\ members'[t][k].fd \in {fd} \/ Attended(members'[t][k])
      <3>1. CASE t = s /\ k = i
        BY <1>2, <1>5, <3>1
      <3>2. CASE ~(t = s /\ k = i)
        <4>1. k \in DOMAIN members[t] /\ members'[t][k] = members[t][k]
          BY <1>5, <3>2
        <4>2. Listed(members[t][k])
          BY <1>3, <4>1 DEF Watching
        <4> QED BY <4>1, <4>2 DEF Listed
      <3> QED BY <3>1, <3>2
    <2> QED BY <1>5, <1>6, <2>1, Settled
  <1>10. ASSUME NEW t \in Sets PROVE Steady(t)'
    <2>1. CASE t # s
      <3>1. members'[t] = members[t]
        BY <1>5, <2>1
      <3> QED BY <1>3, <1>6, <3>1, Apart DEF waitVars
    <2>2. CASE t = s
      <3>1. Steady(s)
        BY <1>3
      <3>2. Newest(s)'
        <4> SUFFICES ASSUME NEW k \in DOMAIN members[s], NEW j \in DOMAIN members[s], j < k,
                            members'[s][j].fd = members'[s][k].fd
                     PROVE  members'[s][k].dead
          BY <1>5 DEF Newest
        <4>1. members[s][j].fd = members[s][k].fd
          BY <1>2, <1>4, <1>5
        <4>2. members[s][k].dead
          BY <3>1, <4>1 DEF Steady, Newest
        <4> QED BY <1>4, <1>5, <4>2
      <3>3. Belong(s)'
        <4>1. \A k \in DOMAIN members[s] : members'[s][k].fd = members[s][k].fd
          BY <1>2, <1>4, <1>5
        <4> QED BY <1>5, <1>6, <3>1, <4>1 DEF Steady, Belong
      <3>4. ASSUME NEW k \in DOMAIN members'[s] PROVE Buried(members[s][k])' /\ Heard(s, members[s][k])'
        <4>1. CASE k = i
          BY <1>2, <1>5, <1>6, <4>1 DEF Buried, Heard
        <4>2. CASE k # i
          <5>1. Buried(members[s][k]) /\ Heard(s, members[s][k]) /\ members'[s][k] = members[s][k]
            BY <1>5, <3>1, <4>2 DEF Steady
          <5> QED BY <1>6, <5>1 DEF Buried, Heard, waitVars
        <4> QED BY <4>1, <4>2
      <3> QED BY <2>2, <3>2, <3>3, <3>4 DEF Steady
    <2> QED BY <2>1, <2>2
  <1> QED BY <1>7, <1>8, <1>9, <1>10 DEF ReadyInv

\* A new member finds the others for its descriptor dead.
LEMMA AddNewStep ==
    ASSUME ReadyInv, NEW s \in Sets, NEW fd \in Fds, NEW ev \in (SUBSET Dirs) \ {{}}, AddNew(s, fd, ev)
    PROVE  ReadyInv'
  <1> DEFINE x == NewMember(fd, ev)  new == <<x>> \o members[s]
  <1>1. x \in Members /\ x.fd = fd /\ x.ev = ev /\ ~x.dead /\ x.armed /\ ~x.gone
    BY NewMembers DEF AddNew
  <1>2. TypeOK /\ Parks /\ \A t \in Sets : Watching(t) /\ Steady(t)
    BY DEF ReadyInv
  <1>3. /\ members \in [Sets -> Seq(Members)] /\ reg \in [Fds -> SUBSET Dirs] /\ members[s] \in Seq(Members)
    BY <1>2 DEF TypeOK
  <1>4. members' = [members EXCEPT ![s] = new]
    BY DEF AddNew
  <1> HIDE DEF x
  <1>5. /\ new \in Seq(Members) /\ new[1] = x
        /\ \A k \in DOMAIN new : k = 1 \/ (k - 1 \in DOMAIN members[s] /\ new[k] = members[s][k - 1])
        /\ \A k \in DOMAIN members[s] : k + 1 \in DOMAIN new /\ new[k + 1] = members[s][k]
    BY <1>1, <1>3, Headed
  <1> HIDE DEF new
  <1>6. /\ members' \in [Sets -> Seq(Members)] /\ members'[s] = new
        /\ \A t \in Sets \ {s} : members'[t] = members[t]
    BY <1>3, <1>4, <1>5
  <1>7. Rearm({fd}) /\ UNCHANGED <<ring, waitVars, open, ready, batch>> /\ fd \in open
    BY DEF AddNew
  <1>8. \A k \in DOMAIN members[s] : members[s][k].fd = fd => members[s][k].dead
    BY DEF AddNew, Live
  <1>9. TypeOK'
    <2>1. reg' \in [Fds -> SUBSET Dirs]
      BY <1>3, <1>6, <1>7, Rearmed
    <2> QED BY <1>2, <1>6, <1>7, <2>1 DEF TypeOK, waitVars
  <1>10. Parks'
    BY <1>2, <1>7, Still
  <1>11. (\A t \in Sets : Watching(t))'
    <2>1. ASSUME NEW t \in Sets, NEW k \in DOMAIN members'[t]
          PROVE  /\ members'[t][k].ev # {}
                 /\ members'[t][k].armed => /\ members'[t][k].fd \in open /\ ~members'[t][k].dead
                                            /\ members'[t][k].fd \in {fd} \/ Attended(members'[t][k])
      <3>1. CASE t = s /\ k = 1
        BY <1>1, <1>5, <1>6, <1>7, <3>1
      <3>2. CASE ~(t = s /\ k = 1)
        <4>1. PICK l \in DOMAIN members[t] : members'[t][k] = members[t][l]
          BY <1>5, <1>6, <3>2
        <4>2. Listed(members[t][l])
          BY <1>2 DEF Watching
        <4> QED BY <4>1, <4>2 DEF Listed
      <3> QED BY <3>1, <3>2
    <2> QED BY <1>3, <1>6, <1>7, <2>1, Settled
  <1>12. ASSUME NEW t \in Sets PROVE Steady(t)'
    <2>1. CASE t # s
      <3>1. members'[t] = members[t]
        BY <1>6, <2>1
      <3> QED BY <1>2, <1>7, <3>1, Apart DEF waitVars
    <2>2. CASE t = s
      <3>1. Steady(s)
        BY <1>2
      <3>2. Newest(s)'
        <4> SUFFICES ASSUME NEW k \in DOMAIN new, NEW j \in DOMAIN new, j < k, new[j].fd = new[k].fd
                     PROVE  new[k].dead
          BY <1>6 DEF Newest
        <4>1. k # 1 /\ k \in Nat /\ j \in Nat
          BY <1>5
        <4>2. k - 1 \in DOMAIN members[s] /\ new[k] = members[s][k - 1]
          BY <1>5, <4>1
        <4>3. CASE j = 1
          BY <1>1, <1>5, <1>8, <4>2, <4>3
        <4>4. CASE j # 1
          <5>1. j - 1 \in DOMAIN members[s] /\ new[j] = members[s][j - 1] /\ j - 1 < k - 1
            BY <1>5, <4>1, <4>4
          <5> QED BY <3>1, <4>2, <5>1 DEF Steady, Newest
        <4> QED BY <4>3, <4>4
      <3>3. Belong(s)'
        <4> SUFFICES ASSUME NEW n \in DOMAIN ring[s] PROVE \E k \in DOMAIN new : new[k].fd = ring[s][n]
          BY <1>6, <1>7 DEF Belong
        <4>1. PICK k \in DOMAIN members[s] : members[s][k].fd = ring[s][n]
          BY <3>1 DEF Steady, Belong
        <4>2. k + 1 \in DOMAIN new /\ new[k + 1] = members[s][k]
          BY <1>5
        <4> QED BY <4>1, <4>2
      <3>4. ASSUME NEW k \in DOMAIN members'[s] PROVE Buried(members[s][k])' /\ Heard(s, members[s][k])'
        <4>1. CASE k = 1
          BY <1>1, <1>5, <1>6, <1>7, <4>1 DEF Buried, Heard
        <4>2. CASE k # 1
          <5>1. PICK l \in DOMAIN members[s] : members'[s][k] = members[s][l]
            BY <1>5, <1>6, <4>2
          <5>2. Buried(members[s][l]) /\ Heard(s, members[s][l])
            BY <3>1 DEF Steady
          <5> QED BY <1>7, <5>1, <5>2 DEF Buried, Heard, waitVars
        <4> QED BY <4>1, <4>2
      <3> QED BY <2>2, <3>2, <3>3, <3>4 DEF Steady
    <2> QED BY <2>1, <2>2
  <1> QED BY <1>9, <1>10, <1>11, <1>12 DEF ReadyInv

\* The newest member leaves, with its records; those that stay are in the ring as before,
\* or dead.
LEMMA RemoveMemberStep ==
    ASSUME ReadyInv, NEW s \in Sets, NEW fd \in Fds, RemoveMember(s, fd)
    PROVE  ReadyInv'
  <1> DEFINE old == members[s]  q == ring[s]  I == {k \in DOMAIN q : q[k] # fd}  p == Subsequence(q, I)
  <1>1. PICK i \in DOMAIN old :
           /\ old[i].fd = fd
           /\ \A j \in 1..(i - 1) : old[j].fd # fd
           /\ members' = [members EXCEPT ![s] = RemoveAt(@, i)]
           /\ Rearm(IF old[i].armed THEN {fd} ELSE {})
    BY DEF RemoveMember, Unlink
  <1> DEFINE r == RemoveAt(old, i)
  <1>2. TypeOK /\ Parks /\ \A t \in Sets : Watching(t) /\ Steady(t)
    BY DEF ReadyInv
  <1>3. /\ members \in [Sets -> Seq(Members)] /\ reg \in [Fds -> SUBSET Dirs] /\ ring \in [Sets -> Seq(Fds)]
        /\ old \in Seq(Members) /\ q \in Seq(Fds) /\ Len(q) <= Ring
    BY <1>2 DEF TypeOK
  <1>4. /\ r \in Seq(Members)
        /\ \A k \in DOMAIN r :
              /\ k < i => k \in DOMAIN old /\ r[k] = old[k]
              /\ ~(k < i) => k + 1 \in DOMAIN old /\ r[k] = old[k + 1]
        /\ \A k \in DOMAIN old : /\ k < i => k \in DOMAIN r
                                 /\ i < k => k - 1 \in DOMAIN r
    BY <1>3, Removed
  <1>5. p \in Seq(Fds) /\ Len(p) <= Len(q) /\ Picks(p, q, I)
    BY <1>3, SubsequenceOf
  <1>6. ring' = [ring EXCEPT ![s] = p]
    BY DEF RemoveMember
  <1>7. members' = [members EXCEPT ![s] = r]
    BY <1>1
  <1> HIDE DEF r, p
  <1>8. /\ members' \in [Sets -> Seq(Members)] /\ members'[s] = r
        /\ ring' \in [Sets -> Seq(Fds)] /\ ring'[s] = p
        /\ \A t \in Sets \ {s} : members'[t] = members[t] /\ ring'[t] = ring[t]
    BY <1>3, <1>4, <1>5, <1>6, <1>7
  <1>9. UNCHANGED <<waitVars, open, ready, batch>>
    BY DEF RemoveMember, Unlink
  <1>10. TypeOK'
    <2>1. reg' \in [Fds -> SUBSET Dirs]
      BY <1>1, <1>3, <1>8, Rearmed
    <2>2. Len(p) <= Ring
      BY <1>3, <1>5, ReadySetAssumption
    <2>3. \A t \in Sets : Len(ring'[t]) <= Ring
      BY <1>2, <1>8, <2>2 DEF TypeOK
    <2> QED BY <1>2, <1>8, <1>9, <2>1, <2>3 DEF TypeOK, waitVars
  <1>11. Parks'
    <2>1. q = <<>> => p = <<>>
      BY <1>5
    <2>2. \A t \in Sets : ring[t] = <<>> => ring'[t] = <<>>
      BY <1>8, <2>1
    <2>3. parked \subseteq Sets
      BY <1>2 DEF TypeOK
    <2> QED BY <1>2, <1>9, <2>2, <2>3, Still
  <1>12. \A k \in DOMAIN r : \E l \in DOMAIN old : l # i /\ r[k] = old[l]
    <2> TAKE k \in DOMAIN r
    <2>1. k \in Nat /\ i \in Nat
      BY <1>3, <1>4
    <2>2. CASE k < i
      BY <1>4, <2>1, <2>2
    <2>3. CASE ~(k < i)
      BY <1>4, <2>1, <2>3
    <2> QED BY <2>2, <2>3
  <1>13. (\A t \in Sets : Watching(t))'
    <2> DEFINE fds == IF old[i].armed THEN {fd} ELSE {}
    <2>1. ASSUME NEW t \in Sets, NEW k \in DOMAIN members'[t]
          PROVE  /\ members'[t][k].ev # {}
                 /\ members'[t][k].armed => /\ members'[t][k].fd \in open /\ ~members'[t][k].dead
                                            /\ members'[t][k].fd \in fds \/ Attended(members'[t][k])
      <3>1. PICK l \in DOMAIN members[t] : members'[t][k] = members[t][l]
        <4>1. CASE t = s
          BY <1>8, <1>12, <4>1
        <4>2. CASE t # s
          BY <1>8, <4>2
        <4> QED BY <4>1, <4>2
      <3>2. Listed(members[t][l])
        BY <1>2 DEF Watching
      <3> QED BY <3>1, <3>2 DEF Listed
    <2>2. Rearm(fds)
      BY <1>1
    <2> HIDE DEF fds
    <2> QED BY <1>3, <1>8, <1>9, <2>1, <2>2, Settled
  <1>14. ASSUME NEW t \in Sets PROVE Steady(t)'
    <2>1. CASE t # s
      <3>1. members'[t] = members[t] /\ ring'[t] = ring[t]
        BY <1>8, <2>1
      <3> QED BY <1>2, <1>9, <3>1, Apart DEF waitVars
    <2>2. CASE t = s
      <3>1. Steady(s)
        BY <1>2
      <3>2. Newest(s)'
        <4> SUFFICES ASSUME NEW k \in DOMAIN r, NEW j \in DOMAIN r, j < k, r[j].fd = r[k].fd
                     PROVE  r[k].dead
          BY <1>8 DEF Newest
        <4>1. k \in Nat /\ j \in Nat /\ i \in Nat
          BY <1>3, <1>4
        <4>2. PICK l \in DOMAIN old, m \in DOMAIN old : m < l /\ r[k] = old[l] /\ r[j] = old[m]
          <5>1. CASE k < i
            BY <1>4, <4>1, <5>1
          <5>2. CASE ~(k < i) /\ j < i
            <6>1. k + 1 \in DOMAIN old /\ r[k] = old[k + 1] /\ j \in DOMAIN old /\ r[j] = old[j]
              BY <1>4, <5>2
            <6> QED BY <4>1, <6>1
          <5>3. CASE ~(k < i) /\ ~(j < i)
            <6>1. k + 1 \in DOMAIN old /\ r[k] = old[k + 1] /\ j + 1 \in DOMAIN old /\ r[j] = old[j + 1]
              BY <1>4, <5>3
            <6> QED BY <4>1, <6>1
          <5> QED BY <5>1, <5>2, <5>3
        <4> QED BY <3>1, <4>2 DEF Steady, Newest
      <3>3. Belong(s)'
        <4> SUFFICES ASSUME NEW n \in DOMAIN p PROVE \E k \in DOMAIN r : r[k].fd = p[n]
          BY <1>8 DEF Belong
        <4>1. PICK m \in I : p[n] = q[m]
          BY <1>5 DEF Picks
        <4>2. PICK l \in DOMAIN old : old[l].fd = q[m]
          BY <3>1 DEF Steady, Belong
        <4>3. l # i /\ l \in Nat /\ i \in Nat
          BY <1>1, <1>3, <4>2
        <4>4. CASE l < i
          BY <1>4, <4>1, <4>2, <4>3, <4>4
        <4>5. CASE i < l
          <5>1. l - 1 \in DOMAIN r /\ ~(l - 1 < i) /\ (l - 1) + 1 = l
            BY <1>4, <4>3, <4>5
          <5>2. r[l - 1] = old[l]
            BY <1>4, <5>1
          <5> QED BY <4>1, <4>2, <5>1, <5>2
        <4> QED BY <4>3, <4>4, <4>5
      <3>4. ASSUME NEW k \in DOMAIN members'[s] PROVE Buried(members[s][k])' /\ Heard(s, members[s][k])'
        <4>1. PICK l \in DOMAIN old : l # i /\ r[k] = old[l]
          BY <1>8, <1>12
        <4>2. Buried(old[l]) /\ Heard(s, old[l])
          BY <3>1 DEF Steady
        <4>3. CASE old[l].fd = fd
          <5>1. i < l
            BY <1>1, <1>3, <4>1, <4>3
          <5>2. old[l].dead
            BY <1>1, <3>1, <4>3, <5>1 DEF Steady, Newest
          <5> QED BY <1>8, <1>9, <4>1, <4>2, <5>2 DEF Buried, Heard
        <4>4. CASE old[l].fd # fd
          <5>1. ASSUME old[l].fd \in ToSet(q) PROVE old[l].fd \in ToSet(p)
            <6>1. PICK m \in DOMAIN q : q[m] = old[l].fd
              BY <5>1 DEF ToSet
            <6>2. PICK n \in DOMAIN p : p[n] = q[m]
              BY <1>5, <4>4, <6>1 DEF Picks
            <6> QED BY <6>1, <6>2 DEF ToSet
          <5> QED BY <1>8, <1>9, <4>1, <4>2, <5>1 DEF Buried, Heard, waitVars
        <4> QED BY <4>3, <4>4
      <3> QED BY <2>2, <3>2, <3>3, <3>4 DEF Steady
    <2> QED BY <2>1, <2>2
  <1> QED BY <1>10, <1>11, <1>13, <1>14 DEF ReadyInv

\* A set is destroyed when its fiber is not in it.
LEMMA DestroyStep ==
    ASSUME ReadyInv, NEW s \in Sets, Destroy(s)
    PROVE  ReadyInv'
  <1> DEFINE fds == {m.fd : m \in {n \in ToSet(members[s]) : n.armed}}
  <1>1. TypeOK /\ Parks /\ \A t \in Sets : Watching(t) /\ Steady(t)
    BY DEF ReadyInv
  <1>2. Rearm(fds) /\ UNCHANGED <<waitVars, open, ready, batch>> /\ s \notin inside
    BY DEF Destroy
  <1> HIDE DEF fds
  <1>3. /\ reg \in [Fds -> SUBSET Dirs]
        /\ members' \in [Sets -> Seq(Members)] /\ members'[s] = <<>>
        /\ ring' \in [Sets -> Seq(Fds)] /\ ring'[s] = <<>>
        /\ \A t \in Sets \ {s} : members'[t] = members[t] /\ ring'[t] = ring[t]
    BY <1>1 DEF Destroy, TypeOK
  <1>4. TypeOK'
    <2>1. reg' \in [Fds -> SUBSET Dirs]
      BY <1>2, <1>3, Rearmed
    <2>2. \A t \in Sets : Len(ring'[t]) <= Ring
      <3>1. Len(<<>>) <= Ring
        BY ReadySetAssumption
      <3>2. \A t \in Sets : Len(ring[t]) <= Ring
        BY <1>1 DEF TypeOK
      <3> QED BY <1>3, <3>1, <3>2
    <2> QED BY <1>1, <1>2, <1>3, <2>1, <2>2 DEF TypeOK, waitVars
  <1>5. Parks'
    <2>1. parked \subseteq Sets
      BY <1>1 DEF TypeOK
    <2> QED BY <1>1, <1>2, <1>3, <2>1, Still
  <1>6. (\A t \in Sets : Watching(t))'
    <2>1. ASSUME NEW t \in Sets, NEW k \in DOMAIN members'[t]
          PROVE  /\ members'[t][k].ev # {}
                 /\ members'[t][k].armed => /\ members'[t][k].fd \in open /\ ~members'[t][k].dead
                                            /\ members'[t][k].fd \in fds \/ Attended(members'[t][k])
      <3>1. members'[t][k] = members[t][k] /\ k \in DOMAIN members[t]
        BY <1>3
      <3>2. Listed(members[t][k])
        BY <1>1, <3>1 DEF Watching
      <3> QED BY <3>1, <3>2 DEF Listed
    <2> QED BY <1>2, <1>3, <2>1, Settled
  <1>7. ASSUME NEW t \in Sets PROVE Steady(t)'
    <2>1. CASE t # s
      <3>1. members'[t] = members[t] /\ ring'[t] = ring[t]
        BY <1>3, <2>1
      <3> QED BY <1>1, <1>2, <3>1, Apart DEF waitVars
    <2>2. CASE t = s
      <3>1. members'[s] = <<>> /\ ring'[s] = <<>>
        BY <1>3
      <3> QED BY <2>2, <3>1 DEF Steady, Newest, Belong
    <2> QED BY <2>1, <2>2
  <1> QED BY <1>4, <1>5, <1>6, <1>7 DEF ReadyInv

-----------------------------------------------------------------------------
(* The wait.                                                               *)

\* A look takes what it reports from the ring, and parks only with nothing there.
LEMMA Looked ==
    ASSUME TypeOK, Parks, NEW s \in Sets, s \notin parked, Look(s)
    PROVE  /\ ring' \in [Sets -> Seq(Fds)] /\ \A t \in Sets : Len(ring'[t]) <= Ring
           /\ known' \subseteq Sets /\ parked' \subseteq inside' /\ inside' \subseteq Sets
           /\ Parks'
           /\ \A t \in Sets \ {s} : ring'[t] = ring[t] /\ (t \in inside' => t \in inside)
           /\ s \in inside' => ring'[s] = ring[s]
           /\ \A k \in DOMAIN ring'[s] : \E l \in DOMAIN ring[s] : ring'[s][k] = ring[s][l]
  <1>1. /\ ring \in [Sets -> Seq(Fds)] /\ \A t \in Sets : Len(ring[t]) <= Ring
        /\ known \subseteq Sets /\ parked \subseteq inside /\ inside \subseteq Sets
        /\ known \subseteq inside /\ parked \subseteq known /\ \A t \in parked : ring[t] = <<>>
    BY DEF TypeOK, Parks
  <1>2. CASE ring[s] # <<>>
    <2> DEFINE q == ring[s]
    <2>1. PICK n \in Caps : ring' = [ring EXCEPT ![s] = SubSeq(q, n + 1, Len(q))]
      BY <1>2 DEF Look
    <2>2. known' = known \ {s} /\ inside' = inside \ {s} /\ parked' = parked
      BY <1>2 DEF Look
    <2>3. n \in Nat /\ q \in Seq(Fds) /\ Len(q) \in Nat /\ Len(q) <= Ring /\ Ring \in Nat
      BY <1>1, ReadySetAssumption
    <2> DEFINE p == SubSeq(q, n + 1, Len(q))
    <2> HIDE DEF q
    <2>4. p \in Seq(Fds) /\ Len(p) <= Len(q)
      BY <2>3
    <2>5. \A k \in DOMAIN p : \E l \in DOMAIN q : p[k] = q[l]
      <3> TAKE k \in DOMAIN p
      <3>1. k \in 1..Len(p) /\ n + k \in DOMAIN q /\ p[k] = q[n + k]
        BY <2>3
      <3> QED BY <3>1
    <2>6. Len(p) \in Nat /\ Len(p) <= Ring
      BY <2>3, <2>4
    <2> HIDE DEF p
    <2>7. /\ ring' \in [Sets -> Seq(Fds)] /\ ring'[s] = p
          /\ \A t \in Sets \ {s} : ring'[t] = ring[t]
      BY <1>1, <2>1, <2>4 DEF p
    <2>8. \A t \in Sets : Len(ring'[t]) <= Ring
      BY <1>1, <2>6, <2>7
    <2>9. Parks'
      BY <1>1, <2>2, <2>7 DEF Parks
    <2> QED BY <1>1, <2>2, <2>5, <2>7, <2>8, <2>9 DEF q
  <1>3. CASE ring[s] = <<>>
    <2>1. ring' = ring
      BY <1>3 DEF Look
    <2>2. \/ known' = known \ {s} /\ inside' = inside \ {s} /\ parked' = parked
          \/ known' = known \cup {s} /\ inside' = inside \cup {s} /\ parked' = parked \cup {s}
      BY <1>3 DEF Look
    <2>3. Parks'
      BY <1>1, <1>3, <2>1, <2>2 DEF Parks
    <2> QED BY <1>1, <2>1, <2>2, <2>3
  <1> QED BY <1>2, <1>3

\* A wait arms every member that is neither dead nor closed.
LEMMA WaitStep ==
    ASSUME ReadyInv, NEW s \in Sets, Wait(s)
    PROVE  ReadyInv'
  <1> DEFINE old == members[s]  new == [i \in DOMAIN old |-> Arm(old[i])]
             fds == {m.fd : m \in {n \in ToSet(members[s]) : ToArm(n)}}
  <1>1. TypeOK /\ Parks /\ \A t \in Sets : Watching(t) /\ Steady(t)
    BY DEF ReadyInv
  <1>2. /\ members \in [Sets -> Seq(Members)] /\ reg \in [Fds -> SUBSET Dirs] /\ old \in Seq(Members)
        /\ parked \subseteq inside
    BY <1>1 DEF TypeOK
  <1>3. /\ members' = [members EXCEPT ![s] = new]
        /\ Rearm(fds) /\ Look(s) /\ UNCHANGED <<open, ready, batch>> /\ s \notin inside
    BY DEF Wait
  <1>4. \A i \in DOMAIN old :
           /\ old[i] \in Members /\ Arm(old[i]) \in Members
           /\ Arm(old[i]).fd = old[i].fd /\ Arm(old[i]).ev = old[i].ev
           /\ Arm(old[i]).dead <=> old[i].dead
           /\ Arm(old[i]).gone <=> old[i].gone
           /\ Arm(old[i]).armed <=> old[i].armed \/ ToArm(old[i])
    BY <1>2, ArmOne
  <1>5. /\ new \in Seq(Members) /\ DOMAIN new = DOMAIN old
        /\ \A i \in DOMAIN old : new[i] = Arm(old[i])
    BY <1>2, <1>4
  <1>6. \A i \in DOMAIN old : ToArm(old[i]) => old[i].fd \in fds
    BY DEF ToSet
  <1> HIDE DEF new, fds
  <1>7. /\ members' \in [Sets -> Seq(Members)] /\ members'[s] = new
        /\ \A t \in Sets \ {s} : members'[t] = members[t]
    BY <1>2, <1>3, <1>5
  <1>8. /\ ring' \in [Sets -> Seq(Fds)] /\ \A t \in Sets : Len(ring'[t]) <= Ring
        /\ known' \subseteq Sets /\ parked' \subseteq inside' /\ inside' \subseteq Sets
        /\ Parks'
        /\ \A t \in Sets \ {s} : ring'[t] = ring[t] /\ (t \in inside' => t \in inside)
        /\ \A k \in DOMAIN ring'[s] : \E l \in DOMAIN ring[s] : ring'[s][k] = ring[s][l]
    BY <1>1, <1>2, <1>3, Looked
  <1>9. TypeOK'
    <2>1. reg' \in [Fds -> SUBSET Dirs]
      BY <1>2, <1>3, <1>7, Rearmed
    <2> QED BY <1>1, <1>3, <1>7, <1>8, <2>1 DEF TypeOK
  <1>10. (\A t \in Sets : Watching(t))'
    <2>1. ASSUME NEW t \in Sets, NEW k \in DOMAIN members'[t]
          PROVE  /\ members'[t][k].ev # {}
                 /\ members'[t][k].armed => /\ members'[t][k].fd \in open /\ ~members'[t][k].dead
                                            /\ members'[t][k].fd \in fds \/ Attended(members'[t][k])
      <3>1. CASE t = s
        <4> DEFINE m == old[k]  n == Arm(m)
        <4>1. k \in DOMAIN old /\ members'[t][k] = n
          BY <1>5, <1>7, <3>1
        <4>2. n.fd = m.fd /\ n.ev = m.ev /\ (n.dead <=> m.dead) /\ (n.armed <=> m.armed \/ ToArm(m))
          BY <1>4, <4>1
        <4>3. Listed(m) /\ (ToArm(m) => m.fd \in fds)
          BY <1>1, <1>6, <4>1 DEF Watching
        <4> HIDE DEF m, n
        <4>4. /\ n.ev # {}
              /\ n.armed => n.fd \in open /\ ~n.dead /\ (n.fd \in fds \/ Attended(n))
          BY <4>2, <4>3 DEF Listed, Attended, ToArm
        <4> QED BY <4>1, <4>4
      <3>2. CASE t # s
        <4>1. k \in DOMAIN members[t] /\ members'[t][k] = members[t][k]
          BY <1>7, <3>2
        <4>2. Listed(members[t][k])
          BY <1>1, <4>1 DEF Watching
        <4> QED BY <4>1, <4>2 DEF Listed
      <3> QED BY <3>1, <3>2
    <2> QED BY <1>2, <1>3, <1>7, <2>1, Settled
  <1>11. ASSUME NEW t \in Sets PROVE Steady(t)'
    <2>1. CASE t # s
      <3>1. members'[t] = members[t] /\ ring'[t] = ring[t] /\ (t \in inside' => t \in inside)
        BY <1>7, <1>8, <2>1
      <3> QED BY <1>1, <1>3, <3>1, Apart
    <2>2. CASE t = s
      <3>1. Steady(s)
        BY <1>1
      <3>2. Newest(s)'
        BY <1>4, <1>5, <1>7, <3>1 DEF Steady, Newest
      <3>3. Belong(s)'
        <4> SUFFICES ASSUME NEW k \in DOMAIN ring'[s] PROVE \E i \in DOMAIN new : new[i].fd = ring'[s][k]
          BY <1>7 DEF Belong
        <4>1. PICK l \in DOMAIN ring[s] : ring'[s][k] = ring[s][l]
          BY <1>8
        <4>2. PICK i \in DOMAIN old : old[i].fd = ring[s][l]
          BY <3>1 DEF Steady, Belong
        <4> QED BY <1>4, <1>5, <4>1, <4>2
      <3>4. ASSUME NEW k \in DOMAIN members'[s] PROVE Buried(members[s][k])' /\ Heard(s, members[s][k])'
        <4> DEFINE m == old[k]  n == Arm(m)
        <4>1. k \in DOMAIN old /\ members'[s][k] = n
          BY <1>5, <1>7
        <4>2. /\ n.fd = m.fd /\ (n.dead <=> m.dead) /\ (n.gone <=> m.gone)
              /\ n.armed <=> m.armed \/ ToArm(m)
          BY <1>4, <4>1
        <4>3. Buried(m)
          BY <3>1, <4>1 DEF Steady
        <4> HIDE DEF m, n
        <4>4. (n.dead \/ n.fd \notin open => n.gone) /\ (n.gone \/ n.armed)
          BY <4>2, <4>3 DEF Buried, ToArm
        <4> QED BY <1>3, <4>1, <4>4 DEF Buried, Heard
      <3> QED BY <2>2, <3>2, <3>3, <3>4 DEF Steady
    <2> QED BY <2>1, <2>2
  <1> QED BY <1>8, <1>9, <1>10, <1>11 DEF ReadyInv

\* What was attended still is.
LEMMA Undisturbed ==
    ASSUME \A s \in Sets : Watching(s), UNCHANGED <<members, open, reg, batch>>
    PROVE  (\A s \in Sets : Watching(s))'
  BY DEF Watching, Listed, Attended

\* A fiber that is woken looks again, or is cancelled.
LEMMA ResumeStep ==
    ASSUME ReadyInv, NEW s \in Sets, Resume(s)
    PROVE  ReadyInv'
  <1>1. TypeOK /\ Parks /\ \A t \in Sets : Watching(t) /\ Steady(t)
    BY DEF ReadyInv
  <1>2. Look(s) /\ UNCHANGED <<members, open, ready, reg, batch>> /\ s \in inside /\ s \notin parked
    BY DEF Resume, Woken, kernelVars
  <1>3. /\ ring' \in [Sets -> Seq(Fds)] /\ \A t \in Sets : Len(ring'[t]) <= Ring
        /\ known' \subseteq Sets /\ parked' \subseteq inside' /\ inside' \subseteq Sets
        /\ Parks'
        /\ \A t \in Sets \ {s} : ring'[t] = ring[t] /\ (t \in inside' => t \in inside)
        /\ s \in inside' => ring'[s] = ring[s]
        /\ \A k \in DOMAIN ring'[s] : \E l \in DOMAIN ring[s] : ring'[s][k] = ring[s][l]
    BY <1>1, <1>2, Looked
  <1>4. TypeOK'
    BY <1>1, <1>2, <1>3 DEF TypeOK
  <1>5. (\A t \in Sets : Watching(t))'
    BY <1>1, <1>2, Undisturbed
  <1>6. ASSUME NEW t \in Sets PROVE Steady(t)'
    <2>1. CASE t # s
      <3>1. ring'[t] = ring[t] /\ (t \in inside' => t \in inside)
        BY <1>3, <2>1
      <3> QED BY <1>1, <1>2, <3>1, Apart
    <2>2. CASE t = s
      <3>1. Steady(s)
        BY <1>1
      <3>2. Newest(s)'
        BY <1>2, <3>1 DEF Steady, Newest
      <3>3. Belong(s)'
        <4> SUFFICES ASSUME NEW k \in DOMAIN ring'[s]
                     PROVE  \E i \in DOMAIN members[s] : members[s][i].fd = ring'[s][k]
          BY <1>2 DEF Belong
        <4>1. PICK l \in DOMAIN ring[s] : ring'[s][k] = ring[s][l]
          BY <1>3
        <4> QED BY <3>1, <4>1 DEF Steady, Belong
      <3>4. \A k \in DOMAIN members'[s] : Buried(members[s][k])' /\ Heard(s, members[s][k])'
        BY <1>2, <1>3, <3>1 DEF Steady, Buried, Heard
      <3> QED BY <2>2, <3>2, <3>3, <3>4 DEF Steady
    <2> QED BY <2>1, <2>2
  <1> QED BY <1>3, <1>4, <1>5, <1>6 DEF ReadyInv

LEMMA ResumeCancelledStep ==
    ASSUME ReadyInv, NEW s \in Sets, ResumeCancelled(s)
    PROVE  ReadyInv'
  <1>1. TypeOK /\ Parks /\ \A t \in Sets : Watching(t) /\ Steady(t)
    BY DEF ReadyInv
  <1>2. /\ UNCHANGED <<members, ring, parked, open, ready, reg, batch>> /\ s \in inside /\ s \notin parked
        /\ known' = known \ {s} /\ inside' = inside \ {s}
    BY DEF ResumeCancelled, Woken, kernelVars, setVars
  <1>3. TypeOK' /\ Parks'
    BY <1>1, <1>2 DEF TypeOK, Parks
  <1>4. (\A t \in Sets : Watching(t))'
    BY <1>1, <1>2, Undisturbed
  <1>5. \A t \in Sets : Steady(t)'
    BY <1>1, <1>2, Apart
  <1> QED BY <1>3, <1>4, <1>5 DEF ReadyInv

-----------------------------------------------------------------------------
(* The reactor thread and io_close_fd.                                     *)

\* What is disarmed has been returned in the batch.
LEMMA EpollWaitStep ==
    ASSUME ReadyInv, EpollWait
    PROVE  ReadyInv'
  <1>1. TypeOK /\ Parks /\ \A t \in Sets : Watching(t) /\ Steady(t)
    BY DEF ReadyInv
  <1>2. /\ UNCHANGED <<members, ring, known, parked, inside, open, ready>>
        /\ batch = Nothing /\ batch' \in [Fds -> SUBSET Dirs]
        /\ reg' = [fd \in Fds |-> IF Due(fd) = {} THEN reg[fd] ELSE {}]
        /\ \A fd \in Fds : Due(fd) # {} => batch'[fd] = Due(fd) \/ (ready[fd] = Dirs /\ batch'[fd] = Dirs)
    BY DEF EpollWait, setVars, waitVars
  <1>3. TypeOK' /\ Parks'
    BY <1>1, <1>2 DEF TypeOK, Parks
  <1>4. ASSUME NEW t \in Sets, NEW i \in DOMAIN members[t] PROVE Listed(members[t][i])'
    <2> DEFINE m == members[t][i]
    <2>1. Listed(m) /\ m.fd \in Fds
      <3>1. m \in Members
        BY <1>1 DEF TypeOK
      <3> QED BY <1>1, <3>1 DEF Watching, Members
    <2>2. CASE ~m.armed
      BY <1>2, <2>1, <2>2 DEF Listed
    <2>3. CASE m.armed
      <3>1. m.ev \subseteq reg[m.fd]
        BY <1>2, <2>1, <2>3 DEF Listed, Attended, Nothing
      <3>2. CASE Due(m.fd) = {}
        <4>1. reg'[m.fd] = reg[m.fd]
          BY <1>2, <2>1, <3>2
        <4> QED BY <1>2, <2>1, <2>3, <3>1, <4>1 DEF Listed, Attended
      <3>3. CASE Due(m.fd) # {}
        <4>1. batch'[m.fd] # {}
          BY <1>2, <2>1, <3>3 DEF Due
        <4> QED BY <1>2, <2>1, <2>3, <4>1 DEF Listed, Attended
      <3> QED BY <3>2, <3>3
    <2> QED BY <2>2, <2>3
  <1>5. (\A t \in Sets : Watching(t))'
    BY <1>2, <1>4 DEF Watching
  <1>6. \A t \in Sets : Steady(t)'
    BY <1>1, <1>2, Apart
  <1> QED BY <1>3, <1>5, <1>6 DEF ReadyInv

\* Whose interest is among the events is hit, recorded in the ring, and not armed.  Only
\* one whose ring is full is lost.
LEMMA Recorded ==
    ASSUME ReadyInv, NEW events \in [Fds -> SUBSET Dirs], NEW q \in Seq(Fds), NEW closed \in SUBSET Fds,
           Record(events, q, closed), \A fd \in Fds : events[fd] # {} => fd \in ToSet(q),
           \A fd \in open : fd \in open' \/ fd \in closed
    PROVE  /\ (members \in [Sets -> Seq(Members)])'
           /\ ring' \in [Sets -> Seq(Fds)] /\ \A s \in Sets : Len(ring'[s]) <= Ring
           /\ known' \subseteq Sets /\ parked' \subseteq inside' /\ inside' \subseteq Sets
           /\ Parks' /\ \A s \in Sets : Steady(s)'
           /\ \A s \in Sets : \A i \in DOMAIN members'[s] :
                 /\ i \in DOMAIN members[s]
                 /\ members'[s][i].fd = members[s][i].fd
                 /\ members'[s][i].ev = members[s][i].ev
                 /\ members'[s][i].armed <=> members[s][i].armed /\ ~Hit(events, members[s][i])
                 /\ members'[s][i].armed => (members'[s][i].dead <=> members[s][i].dead)
  <1> DEFINE A(s, i) == After(events, q, closed, s, members[s][i])
             hits(s) == HitIn(events, s)
             I(s) == {i \in DOMAIN q : q[i] \in hits(s)}
             sub(s) == Subsequence(q, I(s))
             over(s) == ToSet(SubSeq(Reports(events, q, s), Ring + 1, Len(Reports(events, q, s))))
  <1>1. /\ TypeOK /\ Parks /\ \A t \in Sets : Watching(t) /\ Steady(t)
        /\ members \in [Sets -> Seq(Members)] /\ ring \in [Sets -> Seq(Fds)]
        /\ \A s \in Sets : Len(ring[s]) <= Ring
    BY DEF ReadyInv, TypeOK
  <1>2. /\ members' = [s \in Sets |-> [i \in DOMAIN members[s] |-> A(s, i)]]
        /\ ring' = [s \in Sets |-> Fits(Reports(events, q, s))]
        /\ parked' = parked \ {s \in known \cap parked : hits(s) # {}}
        /\ known' = known \ {s \in known \cap parked : hits(s) # {}}
        /\ inside' = inside
    BY DEF Record
  <1>3. \A s \in Sets : \A i \in DOMAIN members[s] :
           /\ members[s][i] \in Members /\ members[s][i].fd \in Fds
           /\ A(s, i) \in Members /\ A(s, i).fd = members[s][i].fd /\ A(s, i).ev = members[s][i].ev
           /\ A(s, i).gone <=> members[s][i].gone \/ members[s][i].fd \in closed
           /\ A(s, i).armed <=> members[s][i].armed /\ ~Hit(events, members[s][i])
           /\ ~Hit(events, members[s][i]) => /\ A(s, i).dead <=> members[s][i].dead
                                             /\ A(s, i).lost <=> members[s][i].lost
           /\ Hit(events, members[s][i]) => /\ A(s, i).dead <=> members[s][i].fd \in closed
                                            /\ A(s, i).lost <=> members[s][i].fd \in over(s)
    <2> TAKE s \in Sets
    <2> TAKE i \in DOMAIN members[s]
    <2>1. members[s][i] \in Members
      BY <1>1
    <2>2. members[s][i].fd \in Fds
      BY <2>1 DEF Members
    <2> QED BY <2>1, <2>2, AfterOne
  <1>4. \A s \in Sets : \A i \in DOMAIN members[s] :
           Hit(events, members[s][i]) => members[s][i].fd \in hits(s) /\ members[s][i].fd \in ToSet(q)
    <2> SUFFICES ASSUME NEW s \in Sets, NEW i \in DOMAIN members[s], Hit(events, members[s][i])
                 PROVE  members[s][i].fd \in hits(s) /\ members[s][i].fd \in ToSet(q)
      OBVIOUS
    <2>1. members[s][i] \in ToSet(members[s])
      BY DEF ToSet
    <2>2. members[s][i].fd \in hits(s)
      BY <2>1 DEF HitIn
    <2>3. events[members[s][i].fd] # {}
      BY DEF Hit
    <2> QED BY <1>3, <2>2, <2>3
  <1>5. \A s \in Sets : \A fd \in hits(s) : \E i \in DOMAIN members[s] : members[s][i].fd = fd
    BY DEF HitIn, ToSet
  <1>6. \A s \in Sets : sub(s) \in Seq(Fds) /\ Picks(sub(s), q, I(s))
    <2> TAKE s \in Sets
    <2>1. I(s) \in SUBSET DOMAIN q
      OBVIOUS
    <2> HIDE DEF I
    <2> QED BY <2>1, SubsequenceOf
  <1>7. Ring \in Nat
    BY ReadySetAssumption
  <1>8. \A s \in Sets :
           /\ ring'[s] \in Seq(Fds) /\ Len(ring'[s]) <= Ring
           /\ \A k \in DOMAIN ring[s] : k \in DOMAIN ring'[s] /\ ring'[s][k] = ring[s][k]
           /\ \A k \in DOMAIN ring'[s] : \/ k \in DOMAIN ring[s] /\ ring'[s][k] = ring[s][k]
                                         \/ \E j \in DOMAIN sub(s) : ring'[s][k] = sub(s)[j]
           /\ \A j \in DOMAIN sub(s) : sub(s)[j] \in ToSet(ring'[s]) \/ sub(s)[j] \in over(s)
    <2> TAKE s \in Sets
    <2>1. ring'[s] = Fits(ring[s] \o sub(s)) /\ Reports(events, q, s) = ring[s] \o sub(s)
      BY <1>2 DEF Reports
    <2>2. ring[s] \in Seq(Fds) /\ sub(s) \in Seq(Fds) /\ Len(ring[s]) <= Ring
      BY <1>1, <1>6
    <2>3. over(s) = ToSet(SubSeq(ring[s] \o sub(s), Ring + 1, Len(ring[s] \o sub(s))))
      BY <2>1
    <2> DEFINE p == sub(s)  full == ring[s] \o p
    <2> HIDE DEF sub, over, p
    <2>4. /\ Fits(full) \in Seq(Fds) /\ Len(Fits(full)) <= Ring
          /\ \A k \in DOMAIN ring[s] : k \in DOMAIN Fits(full) /\ Fits(full)[k] = ring[s][k]
          /\ \A k \in DOMAIN Fits(full) : \/ k \in DOMAIN ring[s] /\ Fits(full)[k] = ring[s][k]
                                          \/ \E j \in DOMAIN p : Fits(full)[k] = p[j]
          /\ \A j \in DOMAIN p : p[j] \in ToSet(Fits(full)) \/ p[j] \in ToSet(SubSeq(full, Ring + 1, Len(full)))
      <3>1. ring[s] \in Seq(Fds) /\ p \in Seq(Fds) /\ Len(ring[s]) <= Ring
        BY <2>2 DEF p
      <3> QED BY <1>7, <3>1, Fitted
    <2> QED BY <2>1, <2>3, <2>4 DEF p
  <1>9. \A s \in Sets : hits(s) = {} => DOMAIN sub(s) = {}
    BY <1>6 DEF Picks
  <1>10. \A s \in Sets : \A j \in DOMAIN sub(s) : sub(s)[j] \in hits(s)
    BY <1>6 DEF Picks
  <1>11. \A s \in Sets : \A fd \in hits(s) : fd \in ToSet(q) => \E j \in DOMAIN sub(s) : sub(s)[j] = fd
    <2> TAKE s \in Sets
    <2> TAKE fd \in hits(s)
    <2> HAVE fd \in ToSet(q)
    <2>1. PICK k \in DOMAIN q : q[k] = fd
      BY DEF ToSet
    <2>2. k \in I(s)
      BY <2>1
    <2> HIDE DEF I, sub
    <2> QED BY <1>6, <2>1, <2>2 DEF Picks
  <1> HIDE DEF A, hits, I, sub, over
  <1>12. /\ members' \in [Sets -> Seq(Members)]
         /\ \A s \in Sets : /\ DOMAIN members'[s] = DOMAIN members[s]
                            /\ \A i \in DOMAIN members[s] : members'[s][i] = A(s, i)
    <2>1. \A s \in Sets : [i \in DOMAIN members[s] |-> A(s, i)] \in Seq(Members)
      <3> TAKE s \in Sets
      <3>1. members[s] \in Seq(Members)
        BY <1>1
      <3>2. DOMAIN members[s] = 1..Len(members[s]) /\ Len(members[s]) \in Nat
        BY <3>1
      <3> QED BY <1>3, <3>2
    <2> QED BY <1>2, <2>1
  <1>13. ring' \in [Sets -> Seq(Fds)] /\ \A s \in Sets : Len(ring'[s]) <= Ring
    <2>1. ring' = [s \in Sets |-> ring'[s]]
      BY <1>2
    <2> QED BY <1>8, <2>1
  <1>14. known' \subseteq Sets /\ parked' \subseteq inside' /\ inside' \subseteq Sets
    BY <1>1, <1>2 DEF TypeOK
  <1>15. Parks'
    <2>1. ASSUME NEW s \in parked' PROVE ring'[s] = <<>>
      <3>1. s \in Sets /\ s \in parked /\ s \in known /\ ring[s] = <<>>
        BY <1>1, <1>2 DEF TypeOK, Parks
      <3>2. hits(s) = {}
        BY <1>2, <3>1
      <3>3. DOMAIN sub(s) = {} /\ DOMAIN ring[s] = {}
        BY <1>9, <3>1, <3>2
      <3>4. DOMAIN ring'[s] = {} /\ ring'[s] \in Seq(Fds)
        BY <1>8, <3>1, <3>3
      <3> QED BY <3>4, Vacant
    <2> QED BY <1>1, <1>2, <2>1 DEF Parks
  <1>16. ASSUME NEW s \in Sets PROVE Steady(s)'
    <2>1. Steady(s)
      BY <1>1
    <2>2. Newest(s)'
      <3> SUFFICES ASSUME NEW i \in DOMAIN members[s], NEW j \in DOMAIN members[s], j < i,
                          members'[s][j].fd = members'[s][i].fd
                   PROVE  members'[s][i].dead
        BY <1>12 DEF Newest
      <3>1. members[s][i].dead
        BY <1>3, <1>12, <2>1 DEF Steady, Newest
      <3>2. ~Hit(events, members[s][i])
        <4>1. Listed(members[s][i])
          BY <1>1 DEF Watching
        <4> QED BY <3>1, <4>1 DEF Listed, Hit
      <3> QED BY <1>3, <1>12, <3>1, <3>2
    <2>3. Belong(s)'
      <3> SUFFICES ASSUME NEW k \in DOMAIN ring'[s]
                   PROVE  \E i \in DOMAIN members[s] : members'[s][i].fd = ring'[s][k]
        BY <1>12 DEF Belong
      <3>1. PICK i \in DOMAIN members[s] : members[s][i].fd = ring'[s][k]
        <4>1. CASE k \in DOMAIN ring[s] /\ ring'[s][k] = ring[s][k]
          BY <2>1, <4>1 DEF Steady, Belong
        <4>2. CASE \E j \in DOMAIN sub(s) : ring'[s][k] = sub(s)[j]
          BY <1>5, <1>10, <4>2
        <4> QED BY <1>8, <4>1, <4>2
      <3>2. members'[s][i] = A(s, i) /\ A(s, i).fd = members[s][i].fd
        BY <1>3, <1>12
      <3> QED BY <3>1, <3>2
    <2>4. ASSUME NEW i \in DOMAIN members'[s] PROVE Buried(members[s][i])' /\ Heard(s, members[s][i])'
      <3> DEFINE m == members[s][i]  n == members'[s][i]
      <3>1. i \in DOMAIN members[s] /\ n = A(s, i)
        BY <1>12
      <3>2. /\ m.fd \in Fds /\ n.fd = m.fd
            /\ n.gone <=> m.gone \/ m.fd \in closed
            /\ n.armed <=> m.armed /\ ~Hit(events, m)
            /\ ~Hit(events, m) => (n.dead <=> m.dead) /\ (n.lost <=> m.lost)
            /\ Hit(events, m) => (n.dead <=> m.fd \in closed) /\ (n.lost <=> m.fd \in over(s))
        BY <1>3, <3>1
      <3>3. Buried(m) /\ Heard(s, m)
        BY <2>1, <3>1 DEF Steady
      <3>4. m.fd \in ToSet(ring[s]) => m.fd \in ToSet(ring'[s])
        BY <1>8 DEF ToSet
      <3>5. Hit(events, m) => m.fd \in ToSet(ring'[s]) \/ m.fd \in over(s)
        <4> HAVE Hit(events, m)
        <4>1. PICK j \in DOMAIN sub(s) : sub(s)[j] = m.fd
          BY <1>4, <1>11, <3>1
        <4> QED BY <1>8, <4>1
      <3> HIDE DEF m
      <3>6. n.dead \/ n.fd \notin open' => n.gone
        BY <3>2, <3>3 DEF Buried
      <3>7. s \in inside' => n.gone \/ n.lost \/ n.armed \/ n.fd \in ToSet(ring'[s])
        BY <1>2, <3>2, <3>3, <3>4, <3>5 DEF Heard
      <3> QED BY <3>6, <3>7 DEF Buried, Heard
    <2> QED BY <2>2, <2>3, <2>4 DEF Steady
  <1>17. ASSUME NEW s \in Sets, NEW i \in DOMAIN members'[s]
         PROVE  /\ i \in DOMAIN members[s]
                /\ members'[s][i].fd = members[s][i].fd
                /\ members'[s][i].ev = members[s][i].ev
                /\ members'[s][i].armed <=> members[s][i].armed /\ ~Hit(events, members[s][i])
                /\ members'[s][i].armed => (members'[s][i].dead <=> members[s][i].dead)
    BY <1>3, <1>12
  <1> QED BY <1>12, <1>13, <1>14, <1>15, <1>16, <1>17

\* What fired and did not match is armed again.
LEMMA ProcessStep ==
    ASSUME ReadyInv, Process
    PROVE  ReadyInv'
  <1> DEFINE fired == {fd \in Fds : batch[fd] # {}}
  <1>1. PICK q \in Bijection(1..Cardinality(fired), fired) : Record(batch, q, {})
    BY DEF Process
  <1>2. Rearm(fired) /\ UNCHANGED <<open, ready>> /\ batch' = Nothing
    BY DEF Process
  <1>3. TypeOK /\ Parks /\ \A t \in Sets : Watching(t) /\ Steady(t)
    BY DEF ReadyInv
  <1>4. batch \in [Fds -> SUBSET Dirs] /\ reg \in [Fds -> SUBSET Dirs] /\ members \in [Sets -> Seq(Members)]
    BY <1>3 DEF TypeOK
  <1>5. q \in Seq(Fds) /\ \A fd \in Fds : batch[fd] # {} => fd \in ToSet(q)
    <2>1. IsFiniteSet(fired)
      BY FS_Subset, ReadySetAssumption
    <2>2. Cardinality(fired) \in Nat
      BY <2>1, FS_CardinalityType
    <2>3. q \in [1..Cardinality(fired) -> fired] /\ \A fd \in fired : \E k \in DOMAIN q : q[k] = fd
      BY DEF Bijection, Surjection
    <2>4. q \in Seq(Fds)
      <3> DEFINE c == Cardinality(fired)
      <3>1. c \in Nat /\ q \in [1..c -> Fds]
        BY <2>2, <2>3
      <3> HIDE DEF c
      <3> QED BY <3>1
    <2> QED BY <2>3, <2>4 DEF ToSet
  <1>6. /\ (members \in [Sets -> Seq(Members)])'
        /\ ring' \in [Sets -> Seq(Fds)] /\ \A s \in Sets : Len(ring'[s]) <= Ring
        /\ known' \subseteq Sets /\ parked' \subseteq inside' /\ inside' \subseteq Sets
        /\ Parks' /\ \A s \in Sets : Steady(s)'
        /\ \A s \in Sets : \A i \in DOMAIN members'[s] :
              /\ i \in DOMAIN members[s]
              /\ members'[s][i].fd = members[s][i].fd
              /\ members'[s][i].ev = members[s][i].ev
              /\ members'[s][i].armed <=> members[s][i].armed /\ ~Hit(batch, members[s][i])
              /\ members'[s][i].armed => (members'[s][i].dead <=> members[s][i].dead)
    <2>1. {} \in SUBSET Fds /\ \A fd \in open : fd \in open' \/ fd \in {}
      BY <1>2
    <2> QED BY <1>1, <1>4, <1>5, <2>1, Recorded
  <1> HIDE DEF fired
  <1>7. /\ reg' \in [Fds -> SUBSET Dirs]
        /\ \A fd \in Fds \ fired : reg'[fd] = reg[fd]
        /\ \A s \in Sets : \A i \in DOMAIN members'[s] :
              members'[s][i].armed /\ members'[s][i].fd \in fired /\ members'[s][i].fd \in open
                 => members'[s][i].ev \subseteq reg'[members'[s][i].fd]
    BY <1>2, <1>4, <1>6, Rearmed
  <1>8. TypeOK'
    BY <1>2, <1>3, <1>6, <1>7 DEF TypeOK, Nothing
  <1>9. ASSUME NEW s \in Sets, NEW i \in DOMAIN members'[s] PROVE Listed(members[s][i])'
    <2> DEFINE m == members[s][i]  n == members'[s][i]
    <2>1. Listed(m) /\ m.fd \in Fds
      <3>1. m \in Members
        BY <1>4, <1>6
      <3> QED BY <1>3, <1>6, <3>1 DEF Watching, Members
    <2>2. n.fd = m.fd /\ n.ev = m.ev /\ (n.armed => m.armed /\ (n.dead <=> m.dead))
      BY <1>6
    <2>3. n.armed /\ n.fd \in fired /\ n.fd \in open => n.ev \subseteq reg'[n.fd]
      BY <1>7
    <2>4. n.fd \notin fired => batch[n.fd] = {} /\ reg'[n.fd] = reg[n.fd]
      BY <1>7, <2>1, <2>2 DEF fired
    <2> HIDE DEF m, n
    <2>5. n.ev # {} /\ (n.armed => n.fd \in open /\ ~n.dead /\ n.ev \subseteq reg'[n.fd])
      BY <2>1, <2>2, <2>3, <2>4 DEF Listed, Attended
    <2> QED BY <1>2, <2>5 DEF Listed, Attended, n
  <1>10. (\A s \in Sets : Watching(s))'
    BY <1>9 DEF Watching
  <1> QED BY <1>6, <1>8, <1>10 DEF ReadyInv

\* Whoever waits for a descriptor that is closed is hit.
LEMMA CloseFdStep ==
    ASSUME ReadyInv, NEW fd \in Fds, CloseFd(fd)
    PROVE  ReadyInv'
  <1> DEFINE events == [Nothing EXCEPT ![fd] = Dirs]  q == <<fd>>
  <1>1. /\ Record(events, q, {fd}) /\ open' = open \ {fd} /\ ready' = [ready EXCEPT ![fd] = {}]
        /\ reg' = [reg EXCEPT ![fd] = {}] /\ UNCHANGED batch
    BY DEF CloseFd
  <1>2. TypeOK /\ Parks /\ \A t \in Sets : Watching(t) /\ Steady(t)
    BY DEF ReadyInv
  <1>3. reg \in [Fds -> SUBSET Dirs] /\ members \in [Sets -> Seq(Members)]
    BY <1>2 DEF TypeOK
  <1>4. /\ events \in [Fds -> SUBSET Dirs] /\ events[fd] = Dirs
        /\ \A d \in Fds : events[d] # {} => d \in ToSet(q)
    BY DEF Nothing, ToSet
  <1>5. q \in Seq(Fds) /\ {fd} \in SUBSET Fds
    OBVIOUS
  <1> HIDE DEF events, q
  <1>6. /\ (members \in [Sets -> Seq(Members)])'
        /\ ring' \in [Sets -> Seq(Fds)] /\ \A s \in Sets : Len(ring'[s]) <= Ring
        /\ known' \subseteq Sets /\ parked' \subseteq inside' /\ inside' \subseteq Sets
        /\ Parks' /\ \A s \in Sets : Steady(s)'
        /\ \A s \in Sets : \A i \in DOMAIN members'[s] :
              /\ i \in DOMAIN members[s]
              /\ members'[s][i].fd = members[s][i].fd
              /\ members'[s][i].ev = members[s][i].ev
              /\ members'[s][i].armed <=> members[s][i].armed /\ ~Hit(events, members[s][i])
              /\ members'[s][i].armed => (members'[s][i].dead <=> members[s][i].dead)
    <2>1. \A d \in open : d \in open' \/ d \in {fd}
      BY <1>1
    <2> QED BY <1>1, <1>4, <1>5, <2>1, Recorded
  <1>7. TypeOK'
    BY <1>1, <1>2, <1>6 DEF TypeOK
  <1>8. ASSUME NEW s \in Sets, NEW i \in DOMAIN members'[s] PROVE Listed(members[s][i])'
    <2> DEFINE m == members[s][i]  n == members'[s][i]
    <2>1. Listed(m) /\ m.fd \in Fds /\ m.ev \subseteq Dirs
      <3>1. m \in Members
        BY <1>3, <1>6
      <3> QED BY <1>2, <1>6, <3>1 DEF Watching, Members
    <2>2. n.fd = m.fd /\ n.ev = m.ev /\ (n.armed => m.armed /\ ~Hit(events, m) /\ (n.dead <=> m.dead))
      BY <1>6
    <2> HIDE DEF m, n
    <2>3. n.armed => n.fd # fd
      BY <1>4, <2>1, <2>2 DEF Hit, Listed
    <2>4. n.armed => reg'[n.fd] = reg[n.fd] /\ (n.fd \in open => n.fd \in open')
      BY <1>1, <1>3, <2>1, <2>2, <2>3
    <2>5. n.ev # {} /\ (n.armed => n.fd \in open' /\ ~n.dead /\ (n.ev \subseteq reg'[n.fd] \/ batch[n.fd] # {}))
      BY <2>1, <2>2, <2>4 DEF Listed, Attended
    <2> QED BY <1>1, <2>5 DEF Listed, Attended, n
  <1>9. (\A s \in Sets : Watching(s))'
    BY <1>8 DEF Watching
  <1> QED BY <1>6, <1>7, <1>9 DEF ReadyInv

-----------------------------------------------------------------------------
(* The theorems.                                                           *)

LEMMA EnvironmentStep ==
    ASSUME ReadyInv, Environment
    PROVE  ReadyInv'
  <1>1. TypeOK /\ Parks /\ \A t \in Sets : Watching(t) /\ Steady(t)
    BY DEF ReadyInv
  <1>2. ASSUME NEW fd \in Fds, Reuse(fd) PROVE ReadyInv'
    <2>1. UNCHANGED <<members, ring, known, parked, inside, ready, reg, batch>> /\ open' = open \cup {fd}
      BY <1>2 DEF Reuse, setVars, waitVars
    <2>2. TypeOK' /\ Parks'
      BY <1>1, <2>1 DEF TypeOK, Parks
    <2>3. (\A t \in Sets : Watching(t))'
      BY <1>1, <2>1 DEF Watching, Listed, Attended
    <2>4. \A t \in Sets : Steady(t)'
      BY <1>1, <2>1, Apart
    <2> QED BY <2>2, <2>3, <2>4 DEF ReadyInv
  <1>3. ASSUME NEW fd \in Fds, Consume(fd) \/ \E d \in Dirs : Arrive(fd, d) PROVE ReadyInv'
    <2>1. /\ UNCHANGED <<members, ring, known, parked, inside, open, reg, batch>>
          /\ \E r \in SUBSET Dirs : ready' = [ready EXCEPT ![fd] = r]
      <3>1. ready[fd] \in SUBSET Dirs
        BY <1>1 DEF TypeOK
      <3> QED BY <1>3, <3>1 DEF Consume, Arrive, setVars, waitVars
    <2>2. TypeOK' /\ Parks'
      BY <1>1, <2>1 DEF TypeOK, Parks
    <2>3. (\A t \in Sets : Watching(t))'
      BY <1>1, <2>1, Undisturbed
    <2>4. \A t \in Sets : Steady(t)'
      BY <1>1, <2>1, Apart
    <2> QED BY <2>2, <2>3, <2>4 DEF ReadyInv
  <1>4. ASSUME NEW s \in Sets, Wake(s) PROVE ReadyInv'
    <2>1. UNCHANGED <<members, ring, known, inside, open, ready, reg, batch>> /\ parked' = parked \ {s}
      BY <1>4 DEF Wake, setVars, kernelVars
    <2>2. TypeOK' /\ Parks'
      BY <1>1, <2>1 DEF TypeOK, Parks
    <2>3. (\A t \in Sets : Watching(t))'
      BY <1>1, <2>1, Undisturbed
    <2>4. \A t \in Sets : Steady(t)'
      BY <1>1, <2>1, Apart
    <2> QED BY <2>2, <2>3, <2>4 DEF ReadyInv
  <1> QED BY <1>2, <1>3, <1>4 DEF Environment

LEMMA Step ==
    ASSUME ReadyInv, [Next]_vars
    PROVE  ReadyInv'
  <1>1. ASSUME NEW s \in Sets, Membership(s) PROVE ReadyInv'
    <2>1. ASSUME NEW w \in Watched[s], Add(s, w[1], w[2]) PROVE ReadyInv'
      <3>1. w[1] \in Fds /\ w[2] \in (SUBSET Dirs) \ {{}}
        BY ReadySetAssumption
      <3> QED BY <2>1, <3>1, ReplaceStep, AddNewStep DEF Add
    <2> QED BY <1>1, <2>1, RemoveMemberStep, DestroyStep DEF Membership
  <1>2. CASE UNCHANGED vars
    <2>1. TypeOK /\ Parks /\ \A t \in Sets : Watching(t) /\ Steady(t)
      BY DEF ReadyInv
    <2>2. UNCHANGED <<members, ring, known, parked, inside, open, ready, reg, batch>>
      BY <1>2 DEF vars, setVars, waitVars, kernelVars
    <2>3. TypeOK' /\ Parks'
      BY <2>1, <2>2 DEF TypeOK, Parks
    <2>4. (\A t \in Sets : Watching(t))' /\ \A t \in Sets : Steady(t)'
      BY <2>1, <2>2, Undisturbed, Apart
    <2> QED BY <2>3, <2>4 DEF ReadyInv
  <1>3. CASE Next
    BY <1>1, <1>3, WaitStep, ResumeStep, ResumeCancelledStep, EpollWaitStep, ProcessStep, CloseFdStep,
       EnvironmentStep DEF Next, Waiting
  <1> QED BY <1>2, <1>3

LEMMA Starts ==
    ASSUME Init
    PROVE  ReadyInv
  <1>1. TypeOK
    BY ReadySetAssumption DEF Init, TypeOK, Nothing
  <1>2. Parks /\ \A s \in Sets : Watching(s) /\ Steady(s)
    BY DEF Init, Parks, Watching, Steady, Newest, Belong
  <1> QED BY <1>1, <1>2 DEF ReadyInv

\* The invariant: io_set_add, io_set_remove, io_set_wait, io_set_destroy, io_close_fd and
\* the reactor thread keep members, rings, registrations and parked fibers in step.
THEOREM ReadySafe == Spec => []ReadyInv
  <1>1. Init => ReadyInv
    BY Starts
  <1>2. ReadyInv /\ [Next]_vars => ReadyInv'
    BY Step
  <1> QED BY <1>1, <1>2, PTL DEF Spec

\* Each variable keeps its type, and no ring holds more than CAJETA_IO_SET_RING events.
THEOREM ReadyTypeCorrect == Spec => []TypeOK
  <1>1. ReadyInv => TypeOK
    BY DEF ReadyInv
  <1> QED BY <1>1, ReadySafe, PTL

\* io_set_wait reports members only: io_set_remove takes a member's records with it, and
\* the reactor thread and io_close_fd record no one else.
THEOREM ReadyEventsBelong == Spec => []EventsBelong
  <1>1. ASSUME ReadyInv PROVE EventsBelong
    <2> SUFFICES ASSUME NEW s \in Sets, NEW fd \in ToSet(ring[s])
                 PROVE  fd \in {m.fd : m \in ToSet(members[s])}
      BY DEF EventsBelong
    <2>1. PICK k \in DOMAIN ring[s] : ring[s][k] = fd
      BY DEF ToSet
    <2>2. PICK i \in DOMAIN members[s] : members[s][i].fd = fd
      BY <1>1, <2>1 DEF ReadyInv, Steady, Belong
    <2> QED BY <2>2 DEF ToSet
  <1> QED BY <1>1, ReadySafe, PTL

\* Whoever is parked in io_set_wait has nothing to report, and each member's descriptor
\* is armed for it, or its event is about to be processed.
THEOREM ReadyAttends == Spec => []ParkedIsAttended
  <1>1. ASSUME ReadyInv PROVE ParkedIsAttended
    <2>1. TypeOK /\ Parks /\ \A s \in Sets : Watching(s) /\ Steady(s)
      BY <1>1 DEF ReadyInv
    <2>2. ASSUME NEW s \in parked
          PROVE  /\ s \in known
                 /\ ring[s] = <<>>
                 /\ \A m \in ToSet(members[s]) : m.gone \/ m.lost \/ Attended(m)
      <3>1. s \in known /\ ring[s] = <<>> /\ s \in inside /\ s \in Sets
        BY <2>1 DEF Parks, TypeOK
      <3>2. ASSUME NEW m \in ToSet(members[s]) PROVE m.gone \/ m.lost \/ Attended(m)
        <4>1. PICK i \in DOMAIN members[s] : members[s][i] = m
          BY DEF ToSet
        <4>2. Listed(m) /\ Heard(s, m)
          BY <2>1, <3>1, <4>1 DEF Watching, Steady
        <4>3. m.fd \notin ToSet(ring[s])
          BY <3>1 DEF ToSet
        <4> QED BY <3>1, <4>2, <4>3 DEF Listed, Heard
      <3> QED BY <3>1, <3>2
    <2>3. known \subseteq inside
      BY <2>1 DEF Parks
    <2> QED BY <2>2, <2>3 DEF ParkedIsAttended
  <1> QED BY <1>1, ReadySafe, PTL
=============================================================================
