---------------------------- MODULE RwLockProofs ----------------------------
(***************************************************************************)
(* For any finite sets of fibers and threads: readers share, a writer is   *)
(* alone, the counters of the read-write lock are exact, a snapshot is     *)
(* never torn, and nobody sleeps without somebody who will wake him.       *)
(***************************************************************************)
EXTENDS RwLock, FiniteSetTheorems, TLAPS

\* A suspended caller is where its queue says.
Places ==
    /\ \A p \in rwait : rpc[p] = "rdlock"
    /\ \A p \in wwait : rpc[p] = "wrlock"
    /\ \A p \in blocked : rpc[p] \in {"rdlock", "wrlock"}

\* RwNoStranded needs the counters (a reader waits for writers that are counted)
\* and the counters need Places (whoever takes a step is not suspended).
RwInv == TypeOK /\ RwExclusion /\ Places /\ RwNoStranded

\* What the copies of the value are while they are being made.
DataInv ==
    /\ (\A p \in Callers : rpc[p] # "store2")
          => value[1] = stores /\ value[2] = stores
    /\ \A p \in Callers : rpc[p] \in {"store1", "store2"} =>
          /\ seen[p][1] = (stores + 1) % Modulus
          /\ seen[p][2] = (stores + 1) % Modulus
    /\ \A p \in Callers : rpc[p] = "store2" =>
          value[1] = (stores + 1) % Modulus /\ value[2] = stores
    /\ \A p \in Callers : rpc[p] = "word2" => seen[p][1] = stores
    /\ \A p \in Callers : rpc[p] = "rdunlock" => seen[p][1] = seen[p][2]

-----------------------------------------------------------------------------
(* Who is where, and how many.                                             *)

ReadPcs  == {"word1", "word2", "rdunlock"}
WritePcs == {"fn", "store1", "store2", "drop"}

\* The sets that the lock's fields count, after one caller has moved.
LEMMA Moved ==
    ASSUME TypeOK, NEW p \in Callers, NEW l \in Pcs, Step(p, l)
    PROVE  /\ Reading' = IF l \in ReadPcs THEN Reading \cup {p} ELSE Reading \ {p}
           /\ Writing' = IF l \in WritePcs THEN Writing \cup {p} ELSE Writing \ {p}
           /\ WaitingWriters' = IF l = "wrlock" THEN WaitingWriters \cup {p}
                                                ELSE WaitingWriters \ {p}
           /\ rpc' \in [Callers -> Pcs]
           /\ rpc'[p] = l /\ \A q \in Callers : q # p => rpc'[q] = rpc[q]
  <1>1. /\ rpc' \in [Callers -> Pcs]
        /\ rpc'[p] = l /\ \A q \in Callers : q # p => rpc'[q] = rpc[q]
    BY DEF TypeOK, Step
  <1>2. Reading' = IF l \in ReadPcs THEN Reading \cup {p} ELSE Reading \ {p}
    BY <1>1 DEF Reading, ReadPcs
  <1>3. Writing' = IF l \in WritePcs THEN Writing \cup {p} ELSE Writing \ {p}
    BY <1>1 DEF Writing, WritePcs
  <1>4. WaitingWriters' = IF l = "wrlock" THEN WaitingWriters \cup {p}
                                          ELSE WaitingWriters \ {p}
    BY <1>1 DEF WaitingWriters
  <1> QED BY <1>1, <1>2, <1>3, <1>4

\* A set of callers grows or shrinks by one with the caller that moves.
LEMMA CountOne ==
    ASSUME NEW S \in SUBSET Callers
    PROVE  /\ Cardinality(S) \in Nat
           /\ Cardinality(S) = 0 <=> S = {}
           /\ \A p \in Callers :
                 /\ Cardinality(S \cup {p}) = Cardinality(S) + (IF p \in S THEN 0 ELSE 1)
                 /\ Cardinality(S \ {p}) = Cardinality(S) - (IF p \in S THEN 1 ELSE 0)
  <1>1. IsFiniteSet(Callers)
    BY FS_Union, RwAssumption DEF Callers
  <1>2. IsFiniteSet(S)
    BY <1>1, FS_Subset
  <1>3. Cardinality(S) \in Nat
    BY <1>2, FS_CardinalityType
  <1>4. Cardinality(S) = 0 <=> S = {}
    BY <1>2, FS_EmptySet
  <1>5. ASSUME NEW p \in Callers
        PROVE  Cardinality(S \cup {p}) = Cardinality(S) + (IF p \in S THEN 0 ELSE 1)
    BY <1>2, <1>3, FS_AddElement
  <1>6. ASSUME NEW p \in Callers
        PROVE  Cardinality(S \ {p}) = Cardinality(S) - (IF p \in S THEN 1 ELSE 0)
    <2>1. Cardinality(S \ {p}) = IF p \in S THEN Cardinality(S) - 1 ELSE Cardinality(S)
      BY <1>2, FS_RemoveElement
    <2> QED BY <1>3, <2>1
  <1> QED BY <1>3, <1>4, <1>5, <1>6

\* The two together: what a move does to the counts.
LEMMA Counts ==
    ASSUME TypeOK, NEW p \in Callers, NEW l \in Pcs, Step(p, l)
    PROVE  /\ Cardinality(Reading) \in Nat /\ Cardinality(WaitingWriters) \in Nat
           /\ Cardinality(Reading) = 0 <=> Reading = {}
           /\ Cardinality(WaitingWriters) = 0 <=> WaitingWriters = {}
           /\ Cardinality(Reading)' = Cardinality(Reading)
                 + (IF l \in ReadPcs THEN 1 ELSE 0)
                 - (IF rpc[p] \in ReadPcs THEN 1 ELSE 0)
           /\ Cardinality(WaitingWriters)' = Cardinality(WaitingWriters)
                 + (IF l = "wrlock" THEN 1 ELSE 0)
                 - (IF rpc[p] = "wrlock" THEN 1 ELSE 0)
  <1>1. Reading \in SUBSET Callers /\ WaitingWriters \in SUBSET Callers
    BY DEF Reading, WaitingWriters
  <1>2. /\ p \in Reading <=> rpc[p] \in ReadPcs
        /\ p \in WaitingWriters <=> rpc[p] = "wrlock"
    BY DEF Reading, WaitingWriters, ReadPcs
  <1>3. /\ Cardinality(Reading) \in Nat
        /\ Cardinality(Reading) = 0 <=> Reading = {}
        /\ Cardinality(Reading \cup {p})
              = Cardinality(Reading) + (IF p \in Reading THEN 0 ELSE 1)
        /\ Cardinality(Reading \ {p})
              = Cardinality(Reading) - (IF p \in Reading THEN 1 ELSE 0)
    BY <1>1, CountOne
  <1>4. /\ Cardinality(WaitingWriters) \in Nat
        /\ Cardinality(WaitingWriters) = 0 <=> WaitingWriters = {}
        /\ Cardinality(WaitingWriters \cup {p})
              = Cardinality(WaitingWriters) + (IF p \in WaitingWriters THEN 0 ELSE 1)
        /\ Cardinality(WaitingWriters \ {p})
              = Cardinality(WaitingWriters) - (IF p \in WaitingWriters THEN 1 ELSE 0)
    BY <1>1, CountOne
  <1>5. /\ Reading' = IF l \in ReadPcs THEN Reading \cup {p} ELSE Reading \ {p}
        /\ WaitingWriters' = IF l = "wrlock" THEN WaitingWriters \cup {p}
                                             ELSE WaitingWriters \ {p}
    BY Moved
  <1>6. Cardinality(Reading') = Cardinality(Reading)
           + (IF l \in ReadPcs THEN 1 ELSE 0) - (IF rpc[p] \in ReadPcs THEN 1 ELSE 0)
    <2>1. CASE l \in ReadPcs
      <3>1. Cardinality(Reading') = Cardinality(Reading \cup {p})
        BY <1>5, <2>1
      <3> QED BY <1>2, <1>3, <2>1, <3>1
    <2>2. CASE l \notin ReadPcs
      <3>1. Cardinality(Reading') = Cardinality(Reading \ {p})
        BY <1>5, <2>2
      <3> QED BY <1>2, <1>3, <2>2, <3>1
    <2> QED BY <2>1, <2>2
  <1>7. Cardinality(WaitingWriters') = Cardinality(WaitingWriters)
           + (IF l = "wrlock" THEN 1 ELSE 0) - (IF rpc[p] = "wrlock" THEN 1 ELSE 0)
    <2>1. CASE l = "wrlock"
      <3>1. Cardinality(WaitingWriters') = Cardinality(WaitingWriters \cup {p})
        BY <1>5, <2>1
      <3> QED BY <1>2, <1>4, <2>1, <3>1
    <2>2. CASE l # "wrlock"
      <3>1. Cardinality(WaitingWriters') = Cardinality(WaitingWriters \ {p})
        BY <1>5, <2>2
      <3> QED BY <1>2, <1>4, <2>2, <3>1
    <2> QED BY <2>1, <2>2
  <1> QED BY <1>3, <1>4, <1>6, <1>7

-----------------------------------------------------------------------------
(* The steps of the lock.                                                  *)

\* The types of the copies survive every step ...
LEMMA DataTypes ==
    ASSUME TypeOK, Next
    PROVE  /\ value' \in Value /\ seen' \in [Callers -> Value]
           /\ stores' \in 0..(Modulus - 1)
  <1>1. \A n \in 0..(Modulus - 1) : (n + 1) % Modulus \in 0..(Modulus - 1)
    BY RwAssumption
  <1>2. PICK p \in Callers : CallRead(p) \/ CallWrite(p) \/ Method(p) \/ SpuriousWake(p)
    BY DEF Next
  <1>3. CASE Snapshot(p)
    BY <1>3 DEF Snapshot, TypeOK, Value, Words
  <1>4. CASE Fn(p)
    BY <1>4, <1>1 DEF Fn, TypeOK, Value, Words
  <1>5. CASE Store(p)
    BY <1>5, <1>1 DEF Store, TypeOK, Value, Words
  <1>6. CASE UNCHANGED dataVars
    BY <1>6 DEF TypeOK, dataVars
  <1> QED BY <1>2, <1>3, <1>4, <1>5, <1>6
      DEF Method, CallRead, CallWrite, SpuriousWake, RdLock, RdWait, RdUnlock,
          WrLock, WrWait, WrUnlock, FnThrows

\* ... and so do the others: a writer that is let in was counted.
LEMMA TypeStep == ASSUME RwInv, Next PROVE TypeOK'
  <1>1. /\ value' \in Value /\ seen' \in [Callers -> Value]
        /\ stores' \in 0..(Modulus - 1)
    BY DataTypes DEF RwInv
  <1>2. PICK p \in Callers : CallRead(p) \/ CallWrite(p) \/ Method(p) \/ SpuriousWake(p)
    BY DEF Next
  <1>3. rpc' \in [Callers -> Pcs]
    BY <1>2 DEF RwInv, TypeOK, Pcs, Step, Method, CallRead, CallWrite, SpuriousWake,
                RdLock, RdWait, RdUnlock, WrLock, WrWait, WrUnlock, Snapshot, Fn,
                FnThrows, Store
  <1>4. CASE WrLock(p)
    <2>1. rpc[p] # "wrcall" => writersWaiting > 0
      <3>1. SUFFICES ASSUME rpc[p] # "wrcall" PROVE writersWaiting > 0
        OBVIOUS
      <3>2. p \in WaitingWriters
        BY <1>4, <3>1 DEF WrLock, Awake, WaitingWriters
      <3> QED BY <3>2, <1>4, Counts DEF RwInv, TypeOK, RwExclusion, WrLock, Pcs
    <2> QED BY <1>1, <1>3, <1>4, <2>1 DEF RwInv, TypeOK, WrLock, Counted
  <1>5. CASE RdLock(p) \/ RdWait(p) \/ WrWait(p)
    BY <1>1, <1>3, <1>5 DEF RwInv, TypeOK, RdLock, RdWait, WrWait, Counted, Callers
  <1>6. CASE WrUnlock(p) \/ SpuriousWake(p)
    BY <1>1, <1>3, <1>6 DEF RwInv, TypeOK, WrUnlock, SpuriousWake, WakeAll
  <1>8. CASE RdUnlock(p)
    <2>1. readers \in Nat /\ readers' \in Nat
      BY <1>8 DEF RwInv, TypeOK, RdUnlock
    <2>2. rwait' \subseteq rwait /\ wwait' \subseteq wwait /\ blocked' \subseteq blocked
      BY <1>8 DEF RdUnlock, WakeAll
    <2> QED BY <1>1, <1>3, <1>8, <2>1, <2>2 DEF RwInv, TypeOK, RdUnlock
  <1>7. CASE UNCHANGED rwVars
    BY <1>1, <1>3, <1>7 DEF RwInv, TypeOK, rwVars
  <1> QED BY <1>2, <1>4, <1>5, <1>6, <1>7, <1>8
      DEF Method, CallRead, CallWrite, Snapshot, Fn, FnThrows, Store

\* A step that moves a caller that is not suspended, between places that hold no
\* lock and are not counted or within a critical section, changes nothing.
LEMMA QuietStep ==
    ASSUME RwInv, NEW p \in Callers, NEW l \in Pcs, Step(p, l), UNCHANGED rwVars,
           TypeOK',
           \/ rpc[p] = "idle" /\ l \in {"rdcall", "wrcall"}
           \/ rpc[p] \in ReadPcs /\ l \in ReadPcs
           \/ rpc[p] \in WritePcs /\ l \in WritePcs
    PROVE  RwInv'
  <1>1. RwExclusion'
    <2>1. readers' = Cardinality(Reading)'
      BY Counts DEF RwInv, RwExclusion, rwVars, ReadPcs, WritePcs
    <2>2. writersWaiting' = Cardinality(WaitingWriters)'
      BY Counts DEF RwInv, RwExclusion, rwVars, ReadPcs, WritePcs
    <2>3. Writing' = Writing
      BY Moved DEF RwInv, ReadPcs, WritePcs, Writing
    <2> QED BY <2>1, <2>2, <2>3 DEF RwInv, RwExclusion, rwVars
  <1>2. p \notin Suspended
    BY DEF RwInv, Places, Suspended, ReadPcs, WritePcs
  <1>3. Places' /\ RwNoStranded'
    BY <1>2, Moved DEF RwInv, TypeOK, Places, RwNoStranded, Suspended, Awake, rwVars,
                     Callers, ReadPcs, WritePcs
  <1> QED BY <1>1, <1>3 DEF RwInv

\* A reader is let in only when no writer has the lock or waits for it.
LEMMA RdLockInv == ASSUME RwInv, NEW p \in Callers, RdLock(p), TypeOK' PROVE RwInv'
  <1>1. Step(p, "word1") /\ "word1" \in Pcs
    BY DEF RdLock, Pcs
  <1>2. readers' = Cardinality(Reading)' /\ writersWaiting' = Cardinality(WaitingWriters)'
    BY <1>1, Counts DEF RwInv, RwExclusion, RdLock, Awake, ReadPcs
  <1>3. Writing' = Writing
    BY <1>1, Moved DEF RwInv, RdLock, Awake, Writing, WritePcs
  <1>4. RwExclusion'
    BY <1>2, <1>3 DEF RwInv, RwExclusion, RdLock, RdAdmitted
  <1>5. p \notin Suspended /\ UNCHANGED <<rwait, wwait, blocked>> /\ readers' > 0
    BY DEF RwInv, TypeOK, RdLock, Awake
  <1>6. Places' /\ RwNoStranded'
    BY <1>1, <1>5, Moved DEF RwInv, TypeOK, Places, RwNoStranded, Suspended, Callers
  <1> QED BY <1>4, <1>6 DEF RwInv

\* A reader goes to sleep only behind a writer: one that holds the lock, or one
\* that is counted as waiting and, the lock being free, can run.
LEMMA RdWaitInv == ASSUME RwInv, NEW p \in Callers, RdWait(p), TypeOK' PROVE RwInv'
  <1>1. Step(p, "rdlock") /\ "rdlock" \in Pcs
    BY DEF RdWait, Pcs
  <1>2. readers' = Cardinality(Reading)' /\ writersWaiting' = Cardinality(WaitingWriters)'
    BY <1>1, Counts DEF RwInv, RwExclusion, RdWait, Awake, ReadPcs
  <1>3. Writing' = Writing
    BY <1>1, Moved DEF RwInv, RdWait, Awake, Writing, WritePcs
  <1>4. RwExclusion'
    BY <1>2, <1>3 DEF RwInv, RwExclusion, RdWait
  <1>5. /\ p \notin Suspended
        /\ rwait' \subseteq rwait \cup {p} /\ wwait' = wwait
        /\ blocked' \subseteq blocked \cup {p}
    BY DEF RdWait, Awake
  <1>6. Places'
    BY <1>1, <1>5, Moved DEF RwInv, TypeOK, Places, Suspended, Callers
  <1>7. ASSUME ~writer, ~(readers > 0)
        PROVE  \E q \in Callers : q # p /\ Awake(q, "wrlock")
    <2>1. writersWaiting # 0
      BY <1>7 DEF RdWait, RdAdmitted
    <2>2. PICK q \in WaitingWriters : TRUE
      BY <2>1, <1>1, Counts DEF RwInv, RwExclusion
    <2>3. q \in Callers /\ rpc[q] = "wrlock" /\ q # p
      BY <2>2 DEF WaitingWriters, RdWait, Awake
    <2>4. q \notin Suspended
      BY <2>3, <1>7 DEF RwInv, RwNoStranded
    <2> QED BY <2>3, <2>4 DEF Awake
  <1>8. RwNoStranded'
    BY <1>1, <1>5, <1>7, Moved
    DEF RwInv, TypeOK, RwNoStranded, Suspended, Awake, RdWait, Callers
  <1> QED BY <1>4, <1>6, <1>8 DEF RwInv

\* A writer is let in only when nobody is there, and is counted no longer.
LEMMA WrLockInv == ASSUME RwInv, NEW p \in Callers, WrLock(p), TypeOK' PROVE RwInv'
  <1>1. Step(p, "fn") /\ "fn" \in Pcs
    BY DEF WrLock, Pcs
  <1>2. readers' = Cardinality(Reading)' /\ writersWaiting' = Cardinality(WaitingWriters)'
    BY <1>1, Counts DEF RwInv, TypeOK, RwExclusion, WrLock, Awake, Counted, ReadPcs
  <1>3. Writing' = {p}
    BY <1>1, Moved DEF RwInv, RwExclusion, WrLock, WrAdmitted, WritePcs
  <1>4. RwExclusion'
    BY <1>2, <1>3 DEF RwInv, RwExclusion, WrLock, WrAdmitted
  <1>5. p \notin Suspended /\ UNCHANGED <<rwait, wwait, blocked>> /\ writer'
    BY DEF WrLock, Awake
  <1>6. Places' /\ RwNoStranded'
    BY <1>1, <1>5, Moved DEF RwInv, TypeOK, Places, RwNoStranded, Suspended, Callers
  <1> QED BY <1>4, <1>6 DEF RwInv

\* A writer goes to sleep only behind a holder, and stays counted.
LEMMA WrWaitInv == ASSUME RwInv, NEW p \in Callers, WrWait(p), TypeOK' PROVE RwInv'
  <1>1. Step(p, "wrlock") /\ "wrlock" \in Pcs
    BY DEF WrWait, Pcs
  <1>2. readers' = Cardinality(Reading)' /\ writersWaiting' = Cardinality(WaitingWriters)'
    BY <1>1, Counts DEF RwInv, TypeOK, RwExclusion, WrWait, Awake, Counted, ReadPcs
  <1>3. Writing' = Writing
    BY <1>1, Moved DEF RwInv, WrWait, Awake, Writing, WritePcs
  <1>4. RwExclusion'
    BY <1>2, <1>3 DEF RwInv, RwExclusion, WrWait
  <1>5. /\ p \notin Suspended
        /\ rwait' = rwait /\ wwait' \subseteq wwait \cup {p}
        /\ blocked' \subseteq blocked \cup {p}
        /\ writer' \/ readers' > 0
    BY DEF RwInv, TypeOK, WrWait, Awake, WrAdmitted
  <1>6. Places'
    BY <1>1, <1>5, Moved DEF RwInv, TypeOK, Places, Suspended, Callers
  <1>7. RwNoStranded'
    BY <1>5 DEF RwNoStranded
  <1> QED BY <1>4, <1>6, <1>7 DEF RwInv

\* The last reader out wakes everybody; the others leave a reader behind.
LEMMA RdUnlockInv == ASSUME RwInv, NEW p \in Callers, RdUnlock(p), TypeOK' PROVE RwInv'
  <1>1. Step(p, "idle") /\ "idle" \in Pcs
    BY DEF RdUnlock, Pcs
  <1>2. p \in Reading
    BY DEF RdUnlock, Reading
  <1>3. readers > 0 /\ readers' = readers - 1
    BY <1>1, <1>2, Counts DEF RwInv, TypeOK, RwExclusion, RdUnlock
  <1>4. readers' = Cardinality(Reading)' /\ writersWaiting' = Cardinality(WaitingWriters)'
    BY <1>1, <1>3, Counts DEF RwInv, RwExclusion, RdUnlock, ReadPcs
  <1>5. Writing' = Writing /\ writer' = writer /\ ~writer
    BY <1>1, <1>3, Moved DEF RwInv, RwExclusion, RdUnlock, Writing, WritePcs
  <1>6. RwExclusion'
    BY <1>4, <1>5 DEF RwInv, RwExclusion
  <1>7. CASE readers' = 0
    BY <1>6, <1>7 DEF RwInv, RdUnlock, WakeAll, Places, RwNoStranded, Suspended
  <1>8. CASE readers' # 0
    <2>1. readers' > 0 /\ UNCHANGED <<rwait, wwait, blocked>>
      BY <1>3, <1>8 DEF RwInv, RdUnlock, TypeOK
    <2>2. Places'
      BY <1>1, <2>1, Moved DEF RwInv, TypeOK, Places, RdUnlock, Callers
    <2>3. RwNoStranded'
      BY <2>1 DEF RwNoStranded
    <2> QED BY <1>6, <2>2, <2>3 DEF RwInv
  <1> QED BY <1>7, <1>8

\* The writer wakes everybody.
LEMMA WrUnlockInv == ASSUME RwInv, NEW p \in Callers, WrUnlock(p), TypeOK' PROVE RwInv'
  <1>1. Step(p, "idle") /\ "idle" \in Pcs
    BY DEF WrUnlock, Pcs
  <1>2. readers' = Cardinality(Reading)' /\ writersWaiting' = Cardinality(WaitingWriters)'
    BY <1>1, Counts DEF RwInv, RwExclusion, WrUnlock, ReadPcs
  <1>3. p \in Writing
    BY DEF WrUnlock, Writing
  <1>4. Writing' = {}
    BY <1>1, <1>3, Moved DEF RwInv, RwExclusion, WritePcs
  <1>5. RwExclusion'
    BY <1>2, <1>4 DEF RwExclusion, WrUnlock
  <1> QED BY <1>5 DEF RwInv, WrUnlock, WakeAll, Places, RwNoStranded, Suspended

\* A spurious wakeup only adds to those who can run.
LEMMA SpuriousWakeInv == ASSUME RwInv, NEW p \in Callers, SpuriousWake(p) PROVE RwInv'
  <1>1. TypeOK'
    BY DEF RwInv, TypeOK, SpuriousWake, dataVars
  <1>2. RwExclusion'
    BY DEF RwInv, RwExclusion, SpuriousWake, Reading, Writing, WaitingWriters
  <1>3. Places' /\ RwNoStranded'
    BY DEF RwInv, Places, RwNoStranded, SpuriousWake, Suspended, Awake
  <1> QED BY <1>1, <1>2, <1>3 DEF RwInv

\* Every step keeps the invariant.
LEMMA RwNext == ASSUME RwInv, [Next]_vars PROVE RwInv'
  <1>1. CASE UNCHANGED vars
    BY <1>1 DEF vars, rwVars, dataVars, RwInv, TypeOK, RwExclusion, Places, RwNoStranded,
                Reading, Writing, WaitingWriters, Suspended, Awake
  <1>2. CASE Next
    <2>1. TypeOK'
      BY <1>2, TypeStep
    <2>2. PICK p \in Callers : CallRead(p) \/ CallWrite(p) \/ Method(p) \/ SpuriousWake(p)
      BY <1>2 DEF Next
    <2>3. CASE CallRead(p) \/ CallWrite(p)
      BY <2>1, <2>3, QuietStep DEF CallRead, CallWrite, Pcs
    <2>4. CASE Snapshot(p)
      BY <2>1, <2>4, QuietStep DEF Snapshot, Words, Pcs, ReadPcs
    <2>5. CASE Fn(p) \/ FnThrows(p) \/ Store(p)
      BY <2>1, <2>5, QuietStep DEF Fn, FnThrows, Store, Pcs, WritePcs
    <2> QED BY <2>1, <2>2, <2>3, <2>4, <2>5, RdLockInv, RdWaitInv, WrLockInv, WrWaitInv,
               RdUnlockInv, WrUnlockInv, SpuriousWakeInv DEF Method
  <1> QED BY <1>1, <1>2

-----------------------------------------------------------------------------
(* The protected value.                                                    *)

\* Copies are made under the lock: while a store is under way nobody else is
\* there, so no snapshot sees one word of it without the other.
LEMMA DataNext == ASSUME RwInv, DataInv, [Next]_vars PROVE DataInv'
  <1>1. CASE UNCHANGED vars
    BY <1>1 DEF vars, dataVars, DataInv
  <1>2. CASE Next
    <2>1. PICK p \in Callers : CallRead(p) \/ CallWrite(p) \/ Method(p) \/ SpuriousWake(p)
      BY <1>2 DEF Next
    <2>2. rpc \in [Callers -> Pcs] /\ seen \in [Callers -> Value] /\ value \in Value
      BY DEF RwInv, TypeOK
    <2>3. CASE Snapshot(p)
      <3>1. \A q \in Callers : rpc[q] # "store2"
        <4>1. p \in Reading
          BY <2>3 DEF Snapshot, Reading, Words
        <4>2. readers # 0
          BY <4>1, CountOne DEF RwInv, RwExclusion, Reading
        <4>3. Writing = {}
          BY <4>2 DEF RwInv, RwExclusion
        <4> QED BY <4>3 DEF Writing
      <3>2. value[1] = stores /\ value[2] = stores
        BY <3>1 DEF DataInv
      <3>3. CASE rpc[p] = "word1"
        BY <2>2, <2>3, <3>1, <3>2, <3>3 DEF Snapshot, Words, Step, DataInv, Value
      <3>4. CASE rpc[p] = "word2"
        BY <2>2, <2>3, <3>1, <3>2, <3>4 DEF Snapshot, Words, Step, DataInv, Value
      <3> QED BY <2>3, <3>3, <3>4 DEF Snapshot, Words
    <2>4. CASE Fn(p) \/ FnThrows(p) \/ Store(p)
      <3>1. p \in Writing
        BY <2>4 DEF Fn, FnThrows, Store, Writing
      <3>2. \A q \in Callers : q # p => q \notin Writing
        BY <3>1 DEF RwInv, RwExclusion
      <3>3. Reading = {}
        BY <3>1, CountOne DEF RwInv, RwExclusion, Reading
      <3>4. \A q \in Callers : q # p =>
               rpc[q] \notin {"fn", "store1", "store2", "word1", "word2", "rdunlock"}
        BY <3>2, <3>3 DEF Writing, Reading
      <3>5. CASE Fn(p)
        <4>1. value[1] = stores /\ value[2] = stores
          BY <3>4, <3>5 DEF Fn, DataInv
        <4> QED BY <2>2, <3>4, <3>5, <4>1 DEF Fn, Step, DataInv, Words
      <3>6. CASE FnThrows(p)
        BY <2>2, <3>4, <3>6 DEF FnThrows, Step, DataInv, dataVars
      <3>7. CASE Store(p) /\ rpc[p] = "store1"
        <4>1. value[1] = stores /\ value[2] = stores
          BY <3>4, <3>7 DEF DataInv
        <4> QED BY <2>2, <3>4, <3>7, <4>1 DEF Store, Step, DataInv, Value, Words
      <3>8. CASE Store(p) /\ rpc[p] = "store2"
        BY <2>2, <3>4, <3>8 DEF Store, Step, DataInv, Value, Words
      <3> QED BY <2>4, <3>5, <3>6, <3>7, <3>8 DEF Store
    <2>5. ASSUME UNCHANGED dataVars, NEW l \in {"idle", "rdcall", "wrcall", "rdlock",
                                                "wrlock", "word1", "fn"},
                 Step(p, l), rpc[p] # "store2"
          PROVE  DataInv'
      <3>1. rpc'[p] = l /\ \A q \in Callers : q # p => rpc'[q] = rpc[q]
        BY <2>2, <2>5 DEF Step
      <3>2. (\A q \in Callers : rpc'[q] # "store2") => \A q \in Callers : rpc[q] # "store2"
        BY <2>5, <3>1
      <3> QED BY <2>5, <3>1, <3>2 DEF DataInv, dataVars
    <2>6. CASE SpuriousWake(p)
      BY <2>6 DEF SpuriousWake, DataInv, dataVars
    <2>7. CASE CallRead(p) \/ CallWrite(p) \/ RdUnlock(p) \/ WrUnlock(p)
      BY <2>7, <2>5 DEF CallRead, CallWrite, RdUnlock, WrUnlock
    <2>8. CASE RdLock(p) \/ RdWait(p) \/ WrLock(p) \/ WrWait(p)
      BY <2>8, <2>5 DEF RdLock, RdWait, WrLock, WrWait, Awake
    <2> QED BY <2>1, <2>3, <2>4, <2>6, <2>7, <2>8 DEF Method
  <1> QED BY <1>1, <1>2

-----------------------------------------------------------------------------
(* Theorems.                                                               *)

\* The invariant holds initially, when nobody has called.
LEMMA RwInit == Init => RwInv /\ DataInv
  <1> SUFFICES ASSUME Init PROVE RwInv /\ DataInv
    OBVIOUS
  <1>1. TypeOK
    <2>1. 0 \in 0..(Modulus - 1)
      BY RwAssumption
    <2>2. [w \in Words |-> 0] \in Value
      BY <2>1 DEF Value
    <2> QED BY <2>1, <2>2 DEF Init, TypeOK, Pcs
  <1>2. Reading = {} /\ Writing = {} /\ WaitingWriters = {}
    BY DEF Init, Reading, Writing, WaitingWriters
  <1>3. RwExclusion
    BY <1>2, FS_EmptySet DEF Init, RwExclusion
  <1>4. Places /\ RwNoStranded
    BY DEF Init, Places, RwNoStranded, Suspended
  <1>5. DataInv
    BY DEF Init, DataInv, Words
  <1> QED BY <1>1, <1>3, <1>4, <1>5 DEF RwInv

\* The read-write lock's state stays in its type.
THEOREM RwTypeCorrect == Spec => []TypeOK
  <1>1. RwInv => TypeOK
    BY DEF RwInv
  <1> QED BY <1>1, RwInit, RwNext, PTL DEF Spec

\* __cajeta_rwlock_*: readers share, a writer is alone, and the counters of the
\* lock are exact, for any number of fibers and threads.
THEOREM RwExcludes == Spec => []RwExclusion
  <1>1. RwInv => RwExclusion
    BY DEF RwInv
  <1> QED BY <1>1, RwInit, RwNext, PTL DEF Spec

\* Waking everybody at the last reader's and at every writer's unlock, and only
\* then, leaves nobody asleep without a waker.
THEOREM RwWakes == Spec => []RwNoStranded
  <1>1. RwInv => RwNoStranded
    BY DEF RwInv
  <1> QED BY <1>1, RwInit, RwNext, PTL DEF Spec

\* RwLock.read never returns a torn value and RwLock.withWrite loses no update.
THEOREM RwWholeValue == Spec => []WholeValue
  <1>1. DataInv => WholeValue
    BY DEF DataInv, WholeValue
  <1> QED BY <1>1, RwInit, RwNext, DataNext, PTL DEF Spec
=============================================================================
