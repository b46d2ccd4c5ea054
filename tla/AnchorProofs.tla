---------------------------- MODULE AnchorProofs ----------------------------
(***************************************************************************)
(* For any finite set of tasks, any components and any number of           *)
(* injections: the method's table lives exactly as long as the frames of   *)
(* its scope (LifeInv), a component is built once, nobody is left waiting  *)
(* for a build that is over, and every caller is told the truth.  For the  *)
(* last three, BuildInv matches the builds that are under way with the     *)
(* slots that are not ready, and tells of each waiter what it knows.       *)
(***************************************************************************)
EXTENDS AnchorTable, FiniteSetTheorems, SequenceTheorems, TLAPS

\* Only the innermost injection is not building, and each is in its scope's table.
Shape ==
    \A p \in Callers : \A i \in DOMAIN inj[p] :
        /\ i < Len(inj[p]) => inj[p][i].at = "build"
        /\ inj[p][i].at = "make" => inj[p][i].table = None /\ inj[p][i].waited = -1
        /\ inj[p][i].at # "make" =>
              inj[p][i].table # None /\ inj[p][i].table = ptr[ScopeOf(inj[p][i].component)]

\* Who has a frame is alive, and is alone until there is a table; who injects is alive.
Alive ==
    /\ \A p \in Callers : p \in frames \/ inj[p] # <<>> => stage[p] = "run"
    /\ ptr["method"] = None => refs = 0 /\ ~ended /\ frames \subseteq {Main}

\* TableAlive needs Alive (a new table has one frame), and the types need Shape (an
\* injection that waits has a table) and TableAlive (a count that goes down was not zero).
LifeInv == TypeOK /\ Shape /\ Alive /\ TableAlive

-----------------------------------------------------------------------------
(* What becomes of the injections when one caller moves.                   *)

LEMMA Indexed ==
    ASSUME TypeOK, NEW p \in Callers
    PROVE  /\ Len(inj[p]) \in Nat /\ DOMAIN inj[p] = 1..Len(inj[p])
           /\ \A i \in DOMAIN inj[p] : inj[p][i] \in Pending
           /\ inj[p] # <<>> => Len(inj[p]) \in DOMAIN inj[p] /\ Top(p) = inj[p][Len(inj[p])]
           /\ inj[p] = <<>> <=> Len(inj[p]) = 0
  <1>1. inj[p] \in Seq(Pending)
    BY DEF TypeOK
  <1> QED BY <1>1 DEF Top, Last

LEMMA Advanced ==
    ASSUME TypeOK, NEW p \in Callers, NEW call \in Pending, inj[p] # <<>>, Advance(p, call)
    PROVE  /\ inj' \in [Callers -> Seq(Pending)]
           /\ \A q \in Callers : q # p => inj'[q] = inj[q]
           /\ Len(inj'[p]) = Len(inj[p]) /\ DOMAIN inj'[p] = DOMAIN inj[p] /\ inj'[p] # <<>>
           /\ \A i \in DOMAIN inj[p] : inj'[p][i] = IF i = Len(inj[p]) THEN call ELSE inj[p][i]
           /\ Top(p)' = call
  <1>1. inj[p] \in Seq(Pending) /\ inj \in [Callers -> Seq(Pending)]
    BY DEF TypeOK
  <1>2. /\ inj'[p] = [inj[p] EXCEPT ![Len(inj[p])] = call]
        /\ \A q \in Callers : q # p => inj'[q] = inj[q]
        /\ inj' = [inj EXCEPT ![p] = inj'[p]]
    BY <1>1 DEF Advance
  <1>3. inj'[p] \in Seq(Pending) /\ Len(inj'[p]) = Len(inj[p])
    BY <1>1, <1>2
  <1>4. \A i \in DOMAIN inj[p] : inj'[p][i] = IF i = Len(inj[p]) THEN call ELSE inj[p][i]
    BY <1>1, <1>2
  <1>5. Len(inj[p]) \in DOMAIN inj[p] /\ DOMAIN inj'[p] = DOMAIN inj[p] /\ inj'[p] # <<>>
    BY <1>1, <1>3
  <1>6. Top(p)' = call
    BY <1>3, <1>4, <1>5 DEF Top, Last
  <1> QED BY <1>1, <1>2, <1>3, <1>4, <1>5, <1>6

LEMMA Answered ==
    ASSUME TypeOK, NEW p \in Callers, inj[p] # <<>>, Answer(p)
    PROVE  /\ inj' \in [Callers -> Seq(Pending)]
           /\ \A q \in Callers : q # p => inj'[q] = inj[q]
           /\ Len(inj'[p]) = Len(inj[p]) - 1 /\ DOMAIN inj'[p] = 1..(Len(inj[p]) - 1)
           /\ \A i \in DOMAIN inj'[p] : i \in DOMAIN inj[p] /\ i < Len(inj[p]) /\ inj'[p][i] = inj[p][i]
           /\ inj'[p] # <<>> => Len(inj[p]) - 1 \in DOMAIN inj[p] /\ Top(p)' = inj[p][Len(inj[p]) - 1]
  <1>1. inj[p] \in Seq(Pending) /\ inj \in [Callers -> Seq(Pending)]
    BY DEF TypeOK
  <1>2. /\ inj'[p] = SubSeq(inj[p], 1, Len(inj[p]) - 1)
        /\ \A q \in Callers : q # p => inj'[q] = inj[q]
        /\ inj' = [inj EXCEPT ![p] = inj'[p]]
    BY <1>1 DEF Answer, Front
  <1>3. /\ inj'[p] \in Seq(Pending) /\ Len(inj'[p]) = Len(inj[p]) - 1
        /\ DOMAIN inj'[p] = 1..(Len(inj[p]) - 1)
        /\ \A i \in DOMAIN inj'[p] : i \in DOMAIN inj[p] /\ i < Len(inj[p]) /\ inj'[p][i] = inj[p][i]
    <2>1. Len(inj[p]) \in Nat \ {0} /\ DOMAIN inj[p] = 1..Len(inj[p])
      BY <1>1
    <2>2. \A i \in 1..(Len(inj[p]) - 1) : inj[p][i] \in Pending
      BY <1>1, <2>1
    <2>3. /\ inj'[p] \in Seq(Pending) /\ Len(inj'[p]) = Len(inj[p]) - 1
          /\ \A i \in 1..(Len(inj[p]) - 1) : inj'[p][i] = inj[p][i]
      BY <1>2, <2>1, <2>2, SubSeqProperties
    <2>4. DOMAIN inj'[p] = 1..(Len(inj[p]) - 1)
      BY <2>3
    <2>5. \A i \in 1..(Len(inj[p]) - 1) : i \in DOMAIN inj[p] /\ i < Len(inj[p])
      BY <2>1
    <2> QED BY <2>3, <2>4, <2>5
  <1>4. inj'[p] # <<>> => Len(inj[p]) - 1 \in DOMAIN inj[p] /\ Top(p)' = inj[p][Len(inj[p]) - 1]
    BY <1>1, <1>3 DEF Top, Last
  <1> QED BY <1>1, <1>2, <1>3, <1>4

LEMMA Pushed ==
    ASSUME TypeOK, NEW p \in Callers, NEW call \in Pending, inj' = [inj EXCEPT ![p] = Append(@, call)]
    PROVE  /\ inj' \in [Callers -> Seq(Pending)]
           /\ \A q \in Callers : q # p => inj'[q] = inj[q]
           /\ Len(inj'[p]) = Len(inj[p]) + 1 /\ DOMAIN inj'[p] = 1..(Len(inj[p]) + 1)
           /\ \A i \in DOMAIN inj'[p] : inj'[p][i] = IF i = Len(inj[p]) + 1 THEN call ELSE inj[p][i]
           /\ inj'[p] # <<>> /\ Top(p)' = call
  <1>1. inj[p] \in Seq(Pending) /\ inj \in [Callers -> Seq(Pending)]
    BY DEF TypeOK
  <1>2. /\ inj'[p] = Append(inj[p], call)
        /\ \A q \in Callers : q # p => inj'[q] = inj[q]
        /\ inj' = [inj EXCEPT ![p] = inj'[p]]
    BY <1>1
  <1>3. /\ inj'[p] \in Seq(Pending) /\ Len(inj'[p]) = Len(inj[p]) + 1
        /\ DOMAIN inj'[p] = 1..(Len(inj[p]) + 1)
        /\ \A i \in DOMAIN inj'[p] : inj'[p][i] = IF i = Len(inj[p]) + 1 THEN call ELSE inj[p][i]
    BY <1>1, <1>2
  <1>4. inj'[p] # <<>> /\ Top(p)' = call
    BY <1>1, <1>3 DEF Top, Last
  <1> QED BY <1>1, <1>2, <1>3, <1>4

-----------------------------------------------------------------------------
(* The life of the method table.                                           *)

LEMMA CountFrames ==
    ASSUME NEW S \in SUBSET Callers
    PROVE  /\ Cardinality(S) \in Nat
           /\ Cardinality(S) = 0 <=> S = {}
           /\ \A p \in Callers :
                 /\ p \notin S => Cardinality(S \cup {p}) = Cardinality(S) + 1
                 /\ p \in S => Cardinality(S \ {p}) = Cardinality(S) - 1
  <1>1. IsFiniteSet(Callers)
    BY FS_AddElement, AnchorAssumption DEF Callers
  <1>2. IsFiniteSet(S)
    BY <1>1, FS_Subset
  <1>3. Cardinality(S) \in Nat /\ (Cardinality(S) = 0 <=> S = {})
    BY <1>2, FS_CardinalityType, FS_EmptySet
  <1>4. ASSUME NEW p \in Callers
        PROVE  /\ p \notin S => Cardinality(S \cup {p}) = Cardinality(S) + 1
               /\ p \in S => Cardinality(S \ {p}) = Cardinality(S) - 1
    BY <1>2, <1>3, FS_AddElement, FS_RemoveElement
  <1> QED BY <1>3, <1>4

\* Who injects a scoped component has a frame, and then there is no end yet.
LEMMA LifeInit == Init => LifeInv
  <1> SUFFICES ASSUME Init PROVE LifeInv
    OBVIOUS
  <1>1. TypeOK
    <2>1. inj \in [Callers -> Seq(Pending)] /\ stage \in [Callers -> {"unborn", "run", "done"}]
      BY DEF Init
    <2>2. ops \in [Callers -> Nat] /\ \A p \in Callers : ops[p] <= MaxOps[p]
      BY AnchorAssumption DEF Init
    <2>3. /\ ptr \in [Scopes -> Tables \cup {None}] /\ slots \in [Tables -> SUBSET Slots]
          /\ epoch \in [Tables -> Nat] /\ built \in [Components -> Nat]
      BY DEF Init
    <2> QED BY <2>1, <2>2, <2>3 DEF Init, TypeOK, Callers
  <1>2. Shape /\ Alive
    BY DEF Init, Shape, Alive, Callers, Scopes
  <1>3. TableAlive
    BY DEF Init, TableAlive, Callers, Scopes
  <1> QED BY <1>1, <1>2, <1>3 DEF LifeInv

\* A caller's innermost injection moves on to another place, or is over.
LEMMA LifeMoved ==
    ASSUME LifeInv, NEW p \in Callers, inj[p] # <<>>, UNCHANGED <<stage, frames, refs, ended, threw, ptr>>,
           \/ Answer(p)
           \/ \E call \in Pending :
                 /\ Advance(p, call)
                 /\ Top(p).at # "make" /\ call.at # "make"
                 /\ call.component = Top(p).component /\ call.table = Top(p).table
    PROVE  inj' \in [Callers -> Seq(Pending)] /\ Shape' /\ Alive' /\ TableAlive'
  <1> USE DEF LifeInv
  <1>1. CASE Answer(p)
    <2>1. inj' \in [Callers -> Seq(Pending)] /\ Shape'
      <3>1. inj' \in [Callers -> Seq(Pending)]
        BY <1>1, Answered
      <3>2. \A q \in Callers : q # p => inj'[q] = inj[q]
        BY <1>1, Answered
      <3>3. /\ Len(inj'[p]) = Len(inj[p]) - 1
            /\ \A i \in DOMAIN inj'[p] : i \in DOMAIN inj[p] /\ i < Len(inj[p]) /\ inj'[p][i] = inj[p][i]
        BY <1>1, Answered
      <3>4. Shape'
        BY <3>2, <3>3 DEF Shape
      <3> QED BY <3>1, <3>4
    <2>2. Alive'
      BY <1>1, Answered DEF Alive
    <2>3. TableAlive'
      BY <1>1, Answered DEF TableAlive
    <2> QED BY <2>1, <2>2, <2>3
  <1>2. ASSUME NEW call \in Pending, Advance(p, call),
               Top(p).at # "make" /\ call.at # "make",
               call.component = Top(p).component /\ call.table = Top(p).table
        PROVE  inj' \in [Callers -> Seq(Pending)] /\ Shape' /\ Alive' /\ TableAlive'
    <2>1. inj' \in [Callers -> Seq(Pending)] /\ Shape'
      BY <1>2, Advanced, Indexed DEF Shape
    <2>4. \A q \in Callers : inj'[q] # <<>> <=> inj[q] # <<>>
      BY <1>2, Advanced
    <2>2. Alive'
      BY <2>4 DEF Alive
    <2>3. TableAlive'
      BY <1>2, Advanced, Indexed DEF TableAlive
    <2> QED BY <2>1, <2>2, <2>3
  <1> QED BY <1>1, <1>2

\* The table of an injection under way.
LEMMA TopTable ==
    ASSUME LifeInv, NEW p \in Callers, inj[p] # <<>>
    PROVE  /\ Top(p) \in Pending
           /\ Top(p).at # "make" => /\ Table(p) \in Tables
                                   /\ Table(p) = ptr[ScopeOf(Top(p).component)]
  <1>1. Top(p) \in Pending /\ Len(inj[p]) \in DOMAIN inj[p] /\ Top(p) = inj[p][Len(inj[p])]
    BY Indexed DEF LifeInv
  <1> QED BY <1>1 DEF LifeInv, Shape, Table, Pending

LEMMA LifeInject ==
    ASSUME LifeInv, NEW p \in Callers, NEW c \in Components, Inject(p, c)
    PROVE  LifeInv'
  <1> USE DEF LifeInv
  <1>a. ScopeOf(c) \in Scopes /\ ptr[ScopeOf(c)] \in Tables \cup {None}
    BY DEF ScopeOf, Scopes, TypeOK
  <1>b. MaxOps[p] \in Nat /\ ops[p] \in Nat /\ ops[p] < MaxOps[p]
    BY AnchorAssumption DEF Inject, TypeOK
  <1>c. ops' \in [Callers -> Nat] /\ \A q \in Callers : ops'[q] <= MaxOps[q]
    BY <1>b DEF Inject, TypeOK
  <1>1. CASE inj' = inj
    <2>1. UNCHANGED <<inj, stage, frames, refs, ended, threw, ptr, slots, epoch, waiting, global, built, lost>>
      BY <1>1 DEF Inject, lifeVars, tableVars, historyVars
    <2>2. TypeOK'
      BY <1>c, <2>1 DEF TypeOK
    <2>3. Shape' /\ Alive' /\ TableAlive'
      BY <2>1 DEF Shape, Alive, TableAlive
    <2> QED BY <2>2, <2>3
  <1>2. CASE inj' # inj
    <2> DEFINE t == ptr[ScopeOf(c)]
               call == [component |-> c, at |-> IF t = None THEN "make" ELSE "look", table |-> t, waited |-> -1]
    <2>1. call \in Pending
      BY <1>a DEF Pending
    <2>2. inj' = [inj EXCEPT ![p] = Append(@, call)]
      BY <1>2 DEF Inject
    <2>3. c \notin Singletons => p \in frames
      BY <1>2 DEF Inject
    <2>h. HIDE DEF call
    <2>4. /\ inj' \in [Callers -> Seq(Pending)]
          /\ \A q \in Callers : q # p => inj'[q] = inj[q]
          /\ Len(inj'[p]) = Len(inj[p]) + 1 /\ DOMAIN inj'[p] = 1..(Len(inj[p]) + 1)
          /\ \A i \in DOMAIN inj'[p] : inj'[p][i] = IF i = Len(inj[p]) + 1 THEN call ELSE inj[p][i]
      BY <2>1, <2>2, Pushed
    <2>5. UNCHANGED <<stage, frames, refs, ended, threw, ptr, slots, epoch, waiting, global, built, lost>> /\ Active(p)
      BY DEF Inject, lifeVars, tableVars, historyVars
    <2>6. TypeOK'
      BY <2>4, <2>5, <1>c DEF TypeOK
    <2>7. Shape'
      <3>1. ASSUME NEW i \in DOMAIN inj[p] PROVE inj[p][i].at = "build"
        BY <2>5, Indexed DEF Active, Shape
      <3>2. /\ call.at = "make" => call.table = None /\ call.waited = -1
            /\ call.at # "make" => call.table # None /\ call.table = ptr[ScopeOf(call.component)]
        BY DEF call
      <3>3. ASSUME NEW i \in DOMAIN inj'[p]
            PROVE  \/ i \in DOMAIN inj[p] /\ inj'[p][i] = inj[p][i]
                   \/ i = Len(inj'[p]) /\ inj'[p][i] = call
        BY <2>4, Indexed
      <3>4. ASSUME NEW q \in Callers, q # p, NEW i \in DOMAIN inj'[q]
            PROVE  i \in DOMAIN inj[q] /\ inj'[q] = inj[q]
        BY <2>4, <3>4
      <3> QED BY <2>5, <3>1, <3>2, <3>3, <3>4 DEF Shape
    <2>8. Alive'
      BY <2>4, <2>5 DEF Alive, Active
    <2>9. TableAlive'
      <3>1. p \in frames => ~ended
        BY DEF Alive, TableAlive
      <3>2. ASSUME NEW i \in DOMAIN inj'[p], inj'[p][i].component \notin Singletons
            PROVE  p \in frames /\ ~ended
        <4>1. CASE i \in DOMAIN inj[p] /\ inj'[p][i] = inj[p][i]
          BY <3>2, <4>1 DEF TableAlive
        <4>2. CASE inj'[p][i] = call
          BY <2>3, <3>1, <3>2, <4>2 DEF call
        <4> QED BY <2>4, <4>1, <4>2, Indexed
      <3> QED BY <2>4, <2>5, <3>2 DEF TableAlive
    <2> QED BY <2>6, <2>7, <2>8, <2>9
  <1> QED BY <1>1, <1>2

LEMMA LifeMakeTable ==
    ASSUME LifeInv, NEW p \in Callers, MakeTable(p)
    PROVE  LifeInv'
  <1> USE DEF LifeInv
  <1> DEFINE s == ScopeOf(Top(p).component)
             call == [Top(p) EXCEPT !.at = "look", !.table = ptr'[s]]
  <1>1. /\ inj[p] # <<>> /\ Top(p) \in Pending /\ Top(p).at = "make" /\ Top(p).table = None
        /\ Len(inj[p]) \in DOMAIN inj[p] /\ Top(p) = inj[p][Len(inj[p])]
    BY Indexed DEF MakeTable, At, Shape
  <1>2. s \in Scopes /\ <<s, p>> \in Tables
    BY DEF ScopeOf, Scopes, Tables
  <1>3. /\ ptr' \in [Scopes -> Tables \cup {None}] /\ ptr'[s] \in Tables /\ ptr'[s] # None
        /\ \A r \in Scopes : ptr[r] # None => ptr'[r] = ptr[r]
        /\ \A r \in Scopes \ {s} : ptr'[r] = ptr[r]
    BY <1>2, AnchorAssumption DEF MakeTable, TypeOK
  <1>4. call \in Pending /\ call.component = Top(p).component /\ call.at = "look" /\ call.table = ptr'[s]
    BY <1>1, <1>3 DEF Pending
  <1>5. Advance(p, call) /\ UNCHANGED <<ops, stage, frames, ended, threw, slots, epoch, waiting, global, built, lost>>
    BY DEF MakeTable, historyVars
  <1>6. refs' = IF s = "method" /\ ptr[s] = None THEN 1 ELSE refs
    BY DEF MakeTable
  <1> HIDE DEF call
  <1>a. \A q \in Callers : inj'[q] # <<>> <=> inj[q] # <<>>
    BY <1>1, <1>4, <1>5, Advanced
  <1>7. TypeOK'
    BY <1>1, <1>3, <1>4, <1>5, <1>6, Advanced DEF TypeOK
  <1>8. Shape'
    <2>1. ASSUME NEW i \in DOMAIN inj'[p]
          PROVE  /\ i < Len(inj'[p]) => inj'[p][i].at = "build" /\ inj'[p][i] = inj[p][i] /\ i \in DOMAIN inj[p]
                 /\ i < Len(inj'[p]) \/ inj'[p][i] = call
      BY <1>1, <1>4, <1>5, Advanced, Indexed DEF Shape
    <2>2. \A q \in Callers : q # p => inj'[q] = inj[q]
      BY <1>1, <1>4, <1>5, Advanced
    <2>3. \A c \in Components : ScopeOf(c) \in Scopes
      BY DEF ScopeOf, Scopes
    <2>4. \A q \in Callers : \A i \in DOMAIN inj[q] : inj[q][i].component \in Components
      BY Indexed DEF Pending
    <2> QED BY <1>3, <1>4, <2>1, <2>2, <2>3, <2>4 DEF Shape
  <1>9. CASE s = "method" /\ ptr[s] = None
    <2>1. p \in frames /\ frames = {Main} /\ ~ended
      BY <1>1, <1>9 DEF ScopeOf, Alive, TableAlive
    <2>2. Cardinality(frames) = 1
      BY <2>1, FS_Singleton
    <2>3. Alive'
      BY <1>1, <1>3, <1>5, <1>9, <1>a DEF Alive
    <2>4. TableAlive'
      BY <1>1, <1>4, <1>5, <1>6, <1>9, <2>1, <2>2, Advanced, Indexed DEF TableAlive
    <2> QED BY <1>7, <1>8, <2>3, <2>4
  <1>10. CASE ~(s = "method" /\ ptr[s] = None)
    <2>1. refs' = refs /\ ptr'["method"] = ptr["method"]
      BY <1>2, <1>3, <1>6, <1>10 DEF Scopes
    <2>2. Alive'
      BY <1>5, <1>a, <2>1 DEF Alive
    <2>3. TableAlive'
      BY <1>1, <1>4, <1>5, <2>1, Advanced, Indexed DEF TableAlive
    <2> QED BY <1>7, <1>8, <2>2, <2>3
  <1> QED BY <1>9, <1>10

\* A pass of acquire_in, or the end of a build, leaves the life of the table alone.
LEMMA LifeAcquire ==
    ASSUME LifeInv, NEW p \in Callers,
           \/ AcquireReady(p) \/ AcquireFailed(p) \/ AcquireClaim(p) \/ AcquireReentered(p) \/ AcquireWait(p)
    PROVE  LifeInv'
  <1> USE DEF LifeInv
  <1>1. inj[p] # <<>> /\ Top(p).at = "look" /\ Table(p) \in Tables /\ Top(p) \in Pending
    BY TopTable DEF AcquireReady, AcquireFailed, AcquireClaim, AcquireReentered, AcquireWait, At
  <1>2. UNCHANGED <<ops, stage, frames, refs, ended, threw, ptr, epoch, global, built>>
    BY DEF AcquireReady, AcquireFailed, AcquireClaim, AcquireReentered, AcquireWait, lifeVars, tableVars, historyVars
  <1>3. CASE AcquireReady(p) \/ AcquireFailed(p) \/ AcquireReentered(p)
    <2>1. Answer(p) /\ UNCHANGED <<slots, waiting>> /\ lost' = lost \ {p}
      BY <1>3 DEF AcquireReady, AcquireFailed, AcquireReentered, tableVars
    <2> QED BY <1>1, <1>2, <2>1, LifeMoved DEF TypeOK
  <1>4. CASE AcquireClaim(p)
    <2> DEFINE call == [Top(p) EXCEPT !.at = "build"]
    <2>1. /\ call \in Pending /\ call.at = "build"
          /\ call.component = Top(p).component /\ call.table = Top(p).table
      BY <1>1 DEF Pending
    <2>2. Advance(p, call) /\ UNCHANGED waiting /\ lost' \subseteq lost
      BY <1>4 DEF AcquireClaim
    <2>3. [component |-> Top(p).component, ready |-> FALSE, builder |-> Self(p)] \in Slots
      BY <1>1 DEF Slots, Pending, Self, Callers
    <2>4. slots' \in [Tables -> SUBSET Slots]
      BY <1>4, <2>3 DEF AcquireClaim, TypeOK
    <2> HIDE DEF call
    <2>5. inj' \in [Callers -> Seq(Pending)] /\ Shape' /\ Alive' /\ TableAlive'
      BY <1>1, <1>2, <2>1, <2>2, LifeMoved
    <2> QED BY <1>2, <2>2, <2>4, <2>5 DEF TypeOK
  <1>5. CASE AcquireWait(p)
    <2> DEFINE call == [Top(p) EXCEPT !.waited = epoch[Table(p)]]
    <2>1. epoch[Table(p)] \in Nat
      BY <1>1 DEF TypeOK
    <2>2. /\ call \in Pending /\ call.at = "look"
          /\ call.component = Top(p).component /\ call.table = Top(p).table
      BY <1>1, <2>1 DEF Pending
    <2>3. Advance(p, call) /\ UNCHANGED <<slots, lost>> /\ waiting' = waiting \cup {p}
      BY <1>5 DEF AcquireWait, historyVars, tableVars
    <2> HIDE DEF call
    <2>4. inj' \in [Callers -> Seq(Pending)] /\ Shape' /\ Alive' /\ TableAlive'
      BY <1>1, <1>2, <2>2, <2>3, LifeMoved
    <2> QED BY <1>2, <2>3, <2>4 DEF TypeOK
  <1> QED BY <1>3, <1>4, <1>5

LEMMA LifeEndBuild ==
    ASSUME LifeInv, NEW p \in Callers, EndBuild(p)
    PROVE  LifeInv'
  <1> USE DEF LifeInv
  <1>1. inj[p] # <<>> /\ Top(p).at \in {"build", "stored"} /\ Table(p) \in Tables /\ Top(p) \in Pending
    BY TopTable DEF EndBuild, StoreGlobal, Publish, Abandon, Constructed, At
  <1>2. UNCHANGED <<ops, stage, frames, refs, ended, threw, ptr>>
    BY DEF EndBuild, StoreGlobal, Publish, Abandon, lifeVars, tableVars
  <1>3. CASE StoreGlobal(p)
    <2> DEFINE call == [Top(p) EXCEPT !.at = "stored"]
    <2>1. /\ call \in Pending /\ call.at = "stored"
          /\ call.component = Top(p).component /\ call.table = Top(p).table
      BY <1>1 DEF Pending
    <2>2. Advance(p, call) /\ UNCHANGED <<slots, epoch, waiting, built, lost>> /\ global' \subseteq Singletons
      BY <1>3 DEF StoreGlobal, tableVars, historyVars, TypeOK
    <2> HIDE DEF call
    <2>3. inj' \in [Callers -> Seq(Pending)] /\ Shape' /\ Alive' /\ TableAlive'
      BY <1>1, <1>2, <2>1, <2>2, LifeMoved
    <2> QED BY <1>2, <2>2, <2>3 DEF TypeOK
  <1>4. CASE Publish(p)
    <2>1. Answer(p) /\ UNCHANGED <<epoch, global, lost>> /\ waiting' \subseteq waiting
      BY <1>4 DEF Publish
    <2> DEFINE Ready(s) == IF s.component = Top(p).component
                           THEN [s EXCEPT !.ready = TRUE, !.builder = None] ELSE s
    <2>2. \A s \in Slots : Ready(s) \in Slots
      BY DEF Slots
    <2>3. slots' \in [Tables -> SUBSET Slots]
      <3> DEFINE after == {Ready(s) : s \in slots[Table(p)]}
      <3>1. slots' = [slots EXCEPT ![Table(p)] = after]
        BY <1>4 DEF Publish
      <3>2. slots[Table(p)] \subseteq Slots /\ slots \in [Tables -> SUBSET Slots]
        BY <1>1 DEF TypeOK
      <3>3. after \in SUBSET Slots
        BY <2>2, <3>2
      <3> HIDE DEF after
      <3> QED BY <3>1, <3>2, <3>3
    <2>4. built' \in [Components -> Nat]
      <3>1. built' = [built EXCEPT ![Top(p).component] = built[Top(p).component] + 1]
        BY <1>4 DEF Publish
      <3>2. Top(p).component \in Components /\ built \in [Components -> Nat]
        BY <1>1 DEF TypeOK, Pending
      <3> QED BY <3>1, <3>2
    <2>5. inj' \in [Callers -> Seq(Pending)] /\ Shape' /\ Alive' /\ TableAlive'
      BY <1>1, <1>2, <2>1, LifeMoved
    <2> QED BY <1>2, <2>1, <2>3, <2>4, <2>5 DEF TypeOK
  <1>5. CASE Abandon(p)
    <2>1. Answer(p) /\ UNCHANGED <<global, built>> /\ waiting' \subseteq waiting
      BY <1>5 DEF Abandon
    <2>2. slots' \in [Tables -> SUBSET Slots]
      <3> DEFINE after == {s \in slots[Table(p)] : s.component # Top(p).component}
      <3>1. slots' = [slots EXCEPT ![Table(p)] = after]
        BY <1>5 DEF Abandon
      <3>2. slots[Table(p)] \subseteq Slots /\ slots \in [Tables -> SUBSET Slots]
        BY <1>1 DEF TypeOK
      <3>3. after \in SUBSET Slots
        BY <3>2
      <3> HIDE DEF after
      <3> QED BY <3>1, <3>2, <3>3
    <2>4. epoch' \in [Tables -> Nat]
      <3>1. epoch' = [epoch EXCEPT ![Table(p)] = epoch[Table(p)] + 1]
        BY <1>5 DEF Abandon
      <3>2. epoch \in [Tables -> Nat] /\ epoch[Table(p)] + 1 \in Nat
        BY <1>1 DEF TypeOK
      <3> QED BY <3>1, <3>2
    <2>3. lost' \subseteq Callers
      BY <1>5 DEF Abandon, Awaiting, TypeOK
    <2>5. inj' \in [Callers -> Seq(Pending)] /\ Shape' /\ Alive' /\ TableAlive'
      BY <1>1, <1>2, <2>1, LifeMoved
    <2> QED BY <1>2, <2>1, <2>2, <2>3, <2>4, <2>5 DEF TypeOK
  <1> QED BY <1>3, <1>4, <1>5 DEF EndBuild

LEMMA LifeSpawn ==
    ASSUME LifeInv, NEW f \in Fibers, NEW structured \in BOOLEAN, Spawn(f, structured)
    PROVE  LifeInv'
  <1> USE DEF LifeInv
  <1>1. f \in Callers /\ f # Main /\ f \notin frames /\ inj[f] = <<>> /\ frames \in SUBSET Callers
    BY AnchorAssumption DEF Spawn, Callers, Alive, TypeOK
  <1>2. UNCHANGED <<inj, ops, ended, threw, slots, epoch, waiting, global, built, lost>>
    BY DEF Spawn, historyVars
  <1>3. stage' \in [Callers -> {"unborn", "run", "done"}] /\ \A p \in Callers : stage[p] = "run" => stage'[p] = "run"
    BY <1>1 DEF Spawn, TypeOK
  <1>4. stage'[f] = "run"
    BY <1>1 DEF Spawn, TypeOK
  <1>5. CASE structured /\ Main \in frames
    <2>1. <<"method", Main>> \in Tables /\ <<"method", Main>> # None
      BY AnchorAssumption DEF Tables, Scopes, Callers
    <2>2. /\ ptr' \in [Scopes -> Tables \cup {None}] /\ ptr'["method"] # None
          /\ \A s \in Scopes : ptr[s] # None => ptr'[s] = ptr[s]
      BY <1>5, <2>1 DEF Spawn, TypeOK, Scopes
    <2>3. frames' = frames \cup {f} /\ refs' = (IF ptr["method"] = None THEN 1 ELSE refs) + 1
      BY <1>5 DEF Spawn
    <2>4. Cardinality(frames') = Cardinality(frames) + 1 /\ ~ended
      BY <1>1, <1>5, <2>3, CountFrames DEF Alive, TableAlive
    <2>5. refs' = Cardinality(frames')
      <3>1. CASE ptr["method"] = None
        <4>1. frames = {Main}
          BY <1>5, <3>1 DEF Alive
        <4> QED BY <2>3, <2>4, <3>1, <4>1, FS_Singleton
      <3>2. CASE ptr["method"] # None
        BY <2>3, <2>4, <3>2 DEF TableAlive
      <3> QED BY <3>1, <3>2
    <2>6. TypeOK'
      BY <1>1, <1>2, <1>3, <2>2, <2>3 DEF TypeOK
    <2>7. Shape'
      <3>1. \A p \in Callers : \A i \in DOMAIN inj[p] : ScopeOf(inj[p][i].component) \in Scopes
        BY DEF ScopeOf, Scopes
      <3> QED BY <1>2, <2>2, <3>1 DEF Shape
    <2>8. Alive'
      BY <1>1, <1>2, <1>3, <1>4, <2>2, <2>3 DEF Alive
    <2>9. TableAlive'
      BY <1>1, <1>2, <1>5, <2>3, <2>4, <2>5 DEF TableAlive
    <2> QED BY <2>6, <2>7, <2>8, <2>9
  <1>6. CASE ~(structured /\ Main \in frames)
    <2>1. UNCHANGED <<ptr, refs, frames>>
      BY <1>6 DEF Spawn
    <2> QED BY <1>2, <1>3, <2>1 DEF TypeOK, Shape, Alive, TableAlive
  <1> QED BY <1>5, <1>6

\* A frame goes whose caller is in no injection, and its count with it.
LEMMA LifeReleased ==
    ASSUME LifeInv, NEW p \in frames, inj[p] = <<>>, ptr["method"] # None,
           Release, frames' = frames \ {p}, UNCHANGED <<inj, ptr>>,
           frames' # {} => Main \in frames' \/ threw'
    PROVE  refs' \in Nat /\ TableAlive'
  <1> USE DEF LifeInv
  <1>1. p \in Callers /\ frames \in SUBSET Callers
    BY DEF TypeOK
  <1>2. refs = Cardinality(frames) /\ Cardinality(frames') = Cardinality(frames) - 1 /\ frames' \in SUBSET Callers
    BY <1>1, CountFrames DEF TableAlive
  <1>3. /\ refs' = Cardinality(frames') /\ refs' \in Nat
        /\ ended' <=> frames' = {}
    BY <1>2, CountFrames DEF Release
  <1>4. ASSUME NEW q \in Callers, NEW i \in DOMAIN inj[q], inj[q][i].component \notin Singletons
        PROVE  q \in frames' /\ ~ended'
    <2>1. q \in frames /\ q # p
      BY <1>4, Indexed DEF TableAlive
    <2> QED BY <1>3, <2>1
  <1> QED BY <1>3, <1>4 DEF TableAlive

LEMMA LifeTaskComplete ==
    ASSUME LifeInv, NEW f \in Fibers, TaskComplete(f)
    PROVE  LifeInv'
  <1> USE DEF LifeInv
  <1>1. f \in Callers /\ f # Main /\ inj[f] = <<>>
    BY AnchorAssumption DEF TaskComplete, Callers
  <1>2. UNCHANGED <<inj, ops, threw, ptr, slots, epoch, waiting, global, built, lost>> /\ frames' = frames \ {f}
    BY DEF TaskComplete, historyVars, tableVars
  <1>3. stage' \in [Callers -> {"unborn", "run", "done"}] /\ \A p \in Callers : p # f => stage'[p] = stage[p]
    BY <1>1 DEF TaskComplete, TypeOK
  <1>4. Shape'
    BY <1>2 DEF Shape
  <1>5. CASE f \in frames
    <2>1. ptr["method"] # None /\ Release
      BY <1>1, <1>5 DEF TaskComplete, Alive
    <2>2. refs' \in Nat /\ TableAlive'
      <3>1. frames' # {} => Main \in frames' \/ threw'
        BY <1>1, <1>2 DEF TableAlive
      <3> QED BY <1>1, <1>2, <1>5, <2>1, <3>1, LifeReleased
    <2>3. Alive'
      BY <1>1, <1>2, <1>3, <2>1 DEF Alive
    <2>4. TypeOK'
      BY <1>2, <1>3, <2>1, <2>2 DEF TypeOK, Release
    <2> QED BY <1>4, <2>2, <2>3, <2>4
  <1>6. CASE f \notin frames
    <2>1. UNCHANGED <<refs, ended, frames>>
      BY <1>2, <1>6 DEF TaskComplete
    <2> QED BY <1>1, <1>2, <1>3, <1>4, <2>1 DEF TypeOK, Alive, TableAlive
  <1> QED BY <1>5, <1>6

\* The method's frame goes last, or by a throw.
LEMMA LifeAnchorEnd ==
    ASSUME LifeInv, AnchorReturn \/ AnchorThrow
    PROVE  LifeInv'
  <1> USE DEF LifeInv
  <1>0. AnchorEnd
    BY DEF AnchorReturn, AnchorThrow
  <1>1. Main \in frames /\ inj[Main] = <<>> /\ frames' = frames \ {Main}
    BY <1>0 DEF AnchorEnd
  <1>2. UNCHANGED <<inj, ops, stage, ptr, slots, epoch, waiting, global, built, lost>>
    BY <1>0 DEF AnchorEnd, historyVars, tableVars
  <1>a. (frames' # {} => threw') /\ threw' \in BOOLEAN
    BY <1>1 DEF AnchorReturn, AnchorThrow, TypeOK
  <1>3. Shape'
    BY <1>2 DEF Shape
  <1>4. CASE ptr["method"] # None
    <2>1. Release
      BY <1>0, <1>4 DEF AnchorEnd
    <2>2. refs' \in Nat /\ TableAlive'
      BY <1>1, <1>2, <1>4, <1>a, <2>1, LifeReleased
    <2>3. Alive'
      BY <1>1, <1>2, <1>4 DEF Alive
    <2>4. TypeOK'
      BY <1>1, <1>2, <1>a, <2>1, <2>2 DEF TypeOK, Release
    <2> QED BY <1>3, <2>2, <2>3, <2>4
  <1>5. CASE ptr["method"] = None
    <2>1. UNCHANGED <<refs, ended>> /\ frames' = {}
      BY <1>0, <1>1, <1>5 DEF AnchorEnd, Alive
    <2>2. \A p \in Callers : \A i \in DOMAIN inj[p] : inj[p][i].component \in Singletons
      BY <1>1, <1>5, Indexed DEF Alive, TableAlive
    <2> QED BY <1>1, <1>2, <1>3, <1>5, <1>a, <2>1, <2>2 DEF TypeOK, Alive, TableAlive
  <1> QED BY <1>4, <1>5

LEMMA LifeStep ==
    ASSUME LifeInv, [Next]_vars
    PROVE  LifeInv'
  <1>1. CASE UNCHANGED vars
    BY <1>1 DEF vars, LifeInv, TypeOK, Shape, Alive, TableAlive
  <1>2. ASSUME NEW p \in Callers, Acquire(p) PROVE LifeInv'
    BY <1>2, LifeMakeTable, LifeAcquire DEF Acquire
  <1>3. ASSUME NEW p \in Callers, EndBuild(p) PROVE LifeInv'
    BY <1>3, LifeEndBuild
  <1>4. ASSUME NEW p \in Callers, NEW c \in Components, Inject(p, c) PROVE LifeInv'
    BY <1>4, LifeInject
  <1>5. CASE SpuriousWake
    BY <1>5 DEF SpuriousWake, LifeInv, TypeOK, Shape, Alive, TableAlive, lifeVars, tableVars, historyVars
  <1>6. ASSUME NEW f \in Fibers, TaskComplete(f) PROVE LifeInv'
    BY <1>6, LifeTaskComplete
  <1>7. ASSUME NEW f \in Fibers, NEW structured \in BOOLEAN, Spawn(f, structured) PROVE LifeInv'
    BY <1>7, LifeSpawn
  <1>8. CASE AnchorReturn \/ AnchorThrow
    BY <1>8, LifeAnchorEnd
  <1> QED BY <1>1, <1>2, <1>3, <1>4, <1>5, <1>6, <1>7, <1>8 DEF Next

\* The method's table lives exactly as long as a frame that may come to use it: what
\* anchor_snapshot, release_chain and anchor_end do with its count.
THEOREM AnchorTableAlive == Spec => [](TypeOK /\ TableAlive)
  <1>1. LifeInv => TypeOK /\ TableAlive
    BY DEF LifeInv
  <1> QED BY <1>1, LifeInit, LifeStep, PTL DEF Spec

-----------------------------------------------------------------------------
(* The builds.                                                             *)

\* The i-th injection of p is building c.
Builds(p, i, c) ==
    i \in DOMAIN inj[p] /\ inj[p][i].component = c /\ inj[p][i].at \in {"build", "stored"}

\* The slot of a component that p builds, and the table it belongs in.
Claim(p, c) == [component |-> c, ready |-> FALSE, builder |-> Self(p)]
Home(c) == ptr[ScopeOf(c)]

\* Builds and unready slots correspond one to one.
ClaimHeld ==
    \A p \in Callers, c \in Components : \A i \in Nat :
        Builds(p, i, c) => Home(c) \in Tables /\ Claim(p, c) \in slots[Home(c)]

OneBuild ==
    \A p, q \in Callers, c \in Components : \A i, j \in Nat :
        Builds(p, i, c) /\ Builds(q, j, c) => p = q /\ i = j

SlotsTrue ==
    \A t \in Tables : \A s \in slots[t] :
        /\ t = Home(s.component)
        /\ \A r \in slots[t] : r.component = s.component => r = s
        /\ s.ready => built[s.component] = 1
        /\ ~s.ready => /\ built[s.component] = 0
                       /\ \E p \in Callers : \E i \in Nat : Builds(p, i, s.component) /\ s.builder = Self(p)

\* What was built is there.
BuiltThere ==
    \A c \in Components : built[c] # 0 =>
        /\ Home(c) \in Tables
        /\ \E s \in slots[Home(c)] : s.component = c /\ s.ready

Claims == ClaimHeld /\ OneBuild /\ SlotsTrue /\ BuiltThere

\* Who looks, having waited.
Returned(w) == inj[w] # <<>> /\ Top(w).at = "look" /\ Top(w).waited >= 0

\* A waiter's component is being built by another; who finds it gone since is told so.
WaitTrue(w) ==
    /\ w \in waiting => Returned(w) /\ \E s \in SlotsOf(w) : ~s.ready /\ s.builder # Self(w)
    /\ w \in lost => Returned(w) /\ SlotsOf(w) = {}
    /\ Returned(w) => /\ Top(w).waited <= epoch[Table(w)]
                      /\ SlotsOf(w) = {} => w \in lost /\ Top(w).waited < epoch[Table(w)]

Waits == \A w \in Callers : WaitTrue(w)

BuildInv == LifeInv /\ Claims /\ Waits

-----------------------------------------------------------------------------
(* Which injections build, before and after one caller moves.              *)

Building == {"build", "stored"}

\* A caller's move that neither starts nor ends a build.
LEMMA SameBuilds ==
    ASSUME LifeInv, NEW p \in Callers,
           \/ /\ inj[p] # <<>> /\ Answer(p) /\ Top(p).at \notin Building
           \/ \E call \in Pending :
                 /\ inj[p] # <<>> /\ Advance(p, call)
                 /\ call.component = Top(p).component
                 /\ call.at \in Building <=> Top(p).at \in Building
           \/ \E call \in Pending : inj' = [inj EXCEPT ![p] = Append(@, call)] /\ call.at \notin Building
    PROVE  \A q \in Callers, c \in Components : \A i \in Nat : Builds(q, i, c)' <=> Builds(q, i, c)
  <1> USE DEF LifeInv, Building
  <1>1. CASE inj[p] # <<>> /\ Answer(p) /\ Top(p).at \notin Building
    <2>1. /\ \A q \in Callers : q # p => inj'[q] = inj[q]
          /\ DOMAIN inj'[p] = 1..(Len(inj[p]) - 1)
          /\ \A i \in DOMAIN inj'[p] : i \in DOMAIN inj[p] /\ inj'[p][i] = inj[p][i]
      BY <1>1, Answered
    <2>2. /\ Len(inj[p]) \in Nat /\ DOMAIN inj[p] = 1..Len(inj[p])
          /\ inj[p][Len(inj[p])].at \notin Building
      BY <1>1, Indexed
    <2>3. \A i \in DOMAIN inj[p] : inj[p][i].at \in Building => i \in DOMAIN inj'[p]
      BY <2>1, <2>2
    <2> QED BY <2>1, <2>3 DEF Builds
  <1>2. ASSUME NEW call \in Pending, inj[p] # <<>>, Advance(p, call), call.component = Top(p).component,
               call.at \in Building <=> Top(p).at \in Building
        PROVE  \A q \in Callers, c \in Components : \A i \in Nat : Builds(q, i, c)' <=> Builds(q, i, c)
    BY <1>2, Advanced, Indexed DEF Builds
  <1>3. ASSUME NEW call \in Pending, inj' = [inj EXCEPT ![p] = Append(@, call)], call.at \notin Building
        PROVE  \A q \in Callers, c \in Components : \A i \in Nat : Builds(q, i, c)' <=> Builds(q, i, c)
    BY <1>3, Pushed, Indexed DEF Builds
  <1> QED BY <1>1, <1>2, <1>3

LEMMA MoreBuilds ==
    ASSUME LifeInv, NEW p \in Callers, AcquireClaim(p)
    PROVE  \A q \in Callers, c \in Components : \A i \in Nat :
              Builds(q, i, c)' <=> Builds(q, i, c) \/ (q = p /\ i = Len(inj[p]) /\ c = Top(p).component)
  <1> USE DEF LifeInv
  <1> DEFINE call == [Top(p) EXCEPT !.at = "build"]
  <1>1. inj[p] # <<>> /\ Top(p).at = "look" /\ Top(p) \in Pending
    BY TopTable DEF AcquireClaim, At
  <1>2. call \in Pending /\ call.at = "build" /\ call.component = Top(p).component
    BY <1>1 DEF Pending
  <1>3. Advance(p, call)
    BY DEF AcquireClaim
  <1> HIDE DEF call
  <1> QED BY <1>1, <1>2, <1>3, Advanced, Indexed DEF Builds

LEMMA FewerBuilds ==
    ASSUME LifeInv, NEW p \in Callers, inj[p] # <<>>, Answer(p)
    PROVE  \A q \in Callers, c \in Components : \A i \in Nat :
              Builds(q, i, c)' <=> Builds(q, i, c) /\ ~(q = p /\ i = Len(inj[p]))
  <1> TAKE q \in Callers, c \in Components, i \in Nat
  <1>1. CASE q = p
    BY <1>1, Answered, Indexed DEF LifeInv, Builds
  <1>2. CASE q # p
    BY <1>2, Answered DEF LifeInv, Builds
  <1> QED BY <1>1, <1>2

LEMMA PtrKept ==
    ASSUME LifeInv, Next
    PROVE  \A s \in Scopes : ptr[s] # None => ptr'[s] = ptr[s]
  <1>1. ASSUME NEW p \in Callers, Acquire(p) PROVE \A s \in Scopes : ptr[s] # None => ptr'[s] = ptr[s]
    BY <1>1 DEF LifeInv, Acquire, MakeTable, AcquireReady, AcquireFailed, AcquireClaim, AcquireReentered,
                AcquireWait, lifeVars, tableVars, TypeOK
  <1>2. ASSUME NEW p \in Callers, EndBuild(p) PROVE ptr' = ptr
    BY <1>2 DEF EndBuild, StoreGlobal, Publish, Abandon, lifeVars, tableVars
  <1>3. ASSUME NEW p \in Callers, NEW c \in Components, Inject(p, c) PROVE ptr' = ptr
    BY <1>3 DEF Inject, lifeVars, tableVars
  <1>4. ASSUME SpuriousWake \/ \E f \in Fibers : TaskComplete(f) \/ \E structured \in BOOLEAN : Spawn(f, structured)
        PROVE  \A s \in Scopes : ptr[s] # None => ptr'[s] = ptr[s]
    BY <1>4 DEF LifeInv, TypeOK, SpuriousWake, TaskComplete, Spawn, lifeVars, tableVars
  <1>5. CASE AnchorReturn \/ AnchorThrow
    BY <1>5 DEF AnchorReturn, AnchorThrow, AnchorEnd, lifeVars, tableVars
  <1> QED BY <1>1, <1>2, <1>3, <1>4, <1>5 DEF Next

-----------------------------------------------------------------------------
(* Builds and slots.                                                       *)

LEMMA ClaimsKept ==
    ASSUME LifeInv, Claims, UNCHANGED <<slots, built>>,
           \A s \in Scopes : ptr[s] # None => ptr'[s] = ptr[s],
           \A q \in Callers, c \in Components : \A i \in Nat : Builds(q, i, c)' <=> Builds(q, i, c)
    PROVE  Claims'
  <1> USE DEF LifeInv, Claims
  <1>1. \A c \in Components : Home(c) \in Tables => Home(c)' = Home(c)
    BY AnchorAssumption DEF Home, ScopeOf, Scopes
  <1>2. ClaimHeld'
    BY <1>1 DEF ClaimHeld, Claim
  <1>3. OneBuild'
    BY DEF OneBuild
  <1>4. \A t \in Tables : \A s \in slots[t] : s.component \in Components
    BY DEF TypeOK, Slots
  <1>5. SlotsTrue'
    BY <1>1, <1>4 DEF SlotsTrue
  <1>6. BuiltThere'
    BY <1>1 DEF BuiltThere
  <1> QED BY <1>2, <1>3, <1>5, <1>6

LEMMA ClaimsClaim ==
    ASSUME LifeInv, Claims, NEW p \in Callers, AcquireClaim(p)
    PROVE  Claims'
  <1> USE DEF LifeInv, Claims
  <1>0. Top(p).component \in Components /\ Len(inj[p]) \in Nat
    BY TopTable, Indexed DEF AcquireClaim, At, Pending
  <1> PICK d \in Components, n \in Nat : d = Top(p).component /\ n = Len(inj[p])
    BY <1>0
  <1> DEFINE claim == Claim(p, d)
  <1>1. Table(p) \in Tables /\ Table(p) = Home(d)
    BY TopTable DEF AcquireClaim, At, Home
  <1>2. /\ \A s \in slots[Table(p)] : s.component # d
        /\ UNCHANGED <<ptr, built>>
    BY DEF AcquireClaim, SlotsOf, historyVars
  <1>3. /\ slots'[Table(p)] = slots[Table(p)] \cup {claim}
        /\ \A t \in Tables : t # Table(p) => slots'[t] = slots[t]
    BY <1>1 DEF AcquireClaim, TypeOK, Claim
  <1>4. \A q \in Callers, c \in Components : \A i \in Nat :
            Builds(q, i, c)' <=> Builds(q, i, c) \/ (q = p /\ i = n /\ c = d)
    BY MoreBuilds
  <1>5. \A q \in Callers : \A i \in Nat : ~Builds(q, i, d)
    <2>1. \A q \in Callers : Claim(q, d).component = d
      BY DEF Claim
    <2> QED BY <1>1, <1>2, <2>1 DEF ClaimHeld
  <1>6. built[d] = 0
    BY <1>1, <1>2 DEF BuiltThere
  <1>7. \A c \in Components : Home(c)' = Home(c)
    BY <1>2 DEF Home
  <1>8. \A t \in Tables : \A s \in slots[t] : s.component \in Components
    BY DEF TypeOK, Slots
  <1>9. claim = Claim(p, d) /\ claim.component = d /\ ~claim.ready /\ claim.builder = Self(p)
    BY DEF Claim
  <1> HIDE DEF claim
  <1>10. ClaimHeld'
    BY <1>1, <1>3, <1>4, <1>7, <1>9 DEF ClaimHeld, Claim
  <1>11. OneBuild'
    BY <1>4, <1>5 DEF OneBuild
  <1>12. SlotsTrue'
    <2> SUFFICES ASSUME NEW t \in Tables, NEW s \in slots'[t]
                 PROVE  /\ t = Home(s.component)'
                        /\ \A r \in slots'[t] : r.component = s.component => r = s
                        /\ s.ready => built'[s.component] = 1
                        /\ ~s.ready => /\ built'[s.component] = 0
                                       /\ \E q \in Callers : \E i \in Nat :
                                             Builds(q, i, s.component)' /\ s.builder = Self(q)
      BY DEF SlotsTrue
    <2>1. CASE s \in slots[t]
      BY <1>2, <1>3, <1>4, <1>7, <1>8, <1>9, <2>1 DEF SlotsTrue
    <2>2. CASE t = Table(p) /\ s = claim
      <3>1. Builds(p, n, d)'
        BY <1>4
      <3> QED BY <1>1, <1>2, <1>3, <1>6, <1>7, <1>9, <2>2, <3>1
    <2> QED BY <1>3, <2>1, <2>2
  <1>13. BuiltThere'
    BY <1>2, <1>3, <1>7 DEF BuiltThere
  <1> QED BY <1>10, <1>11, <1>12, <1>13

\* The slot of a component that is being built, and that no other build has it.
LEMMA OwnClaim ==
    ASSUME LifeInv, Claims, NEW p \in Callers, EndBuild(p)
    PROVE  /\ inj[p] # <<>> /\ Len(inj[p]) \in Nat
           /\ Top(p) \in Pending /\ Top(p).component \in Components
           /\ Table(p) \in Tables /\ Table(p) = Home(Top(p).component)
           /\ Builds(p, Len(inj[p]), Top(p).component)
           /\ Claim(p, Top(p).component) \in slots[Table(p)]
           /\ \A s \in slots[Table(p)] : s.component = Top(p).component => s = Claim(p, Top(p).component)
           /\ built[Top(p).component] = 0
           /\ \A q \in Callers, c \in Components : \A i \in Nat :
                Builds(q, i, c) => (c = Top(p).component <=> q = p /\ i = Len(inj[p]))
  <1> USE DEF LifeInv, Claims
  <1>1. inj[p] # <<>> /\ Top(p).at \in {"build", "stored"}
    BY DEF EndBuild, StoreGlobal, Publish, Abandon, Constructed, At
  <1>2. /\ Top(p) \in Pending /\ Top(p).component \in Components /\ Len(inj[p]) \in Nat
        /\ Table(p) \in Tables /\ Table(p) = Home(Top(p).component)
        /\ Builds(p, Len(inj[p]), Top(p).component)
    BY <1>1, TopTable, Indexed DEF Pending, Home, Builds
  <1>3. Claim(p, Top(p).component) \in slots[Table(p)]
    BY <1>2 DEF ClaimHeld
  <1>4. Claim(p, Top(p).component).component = Top(p).component /\ ~Claim(p, Top(p).component).ready
    BY DEF Claim
  <1>5. /\ \A s \in slots[Table(p)] : s.component = Top(p).component => s = Claim(p, Top(p).component)
        /\ built[Top(p).component] = 0
    BY <1>2, <1>3, <1>4 DEF SlotsTrue
  <1>6. \A q \in Callers, c \in Components : \A i \in Nat :
            Builds(q, i, c) => (c = Top(p).component <=> q = p /\ i = Len(inj[p]))
    <2>1. \A c \in Components : Builds(p, Len(inj[p]), c) => c = Top(p).component
      BY <1>2 DEF Builds
    <2> QED BY <1>2, <2>1 DEF OneBuild
  <1> QED BY <1>1, <1>2, <1>3, <1>5, <1>6

LEMMA ClaimsPublish ==
    ASSUME LifeInv, Claims, NEW p \in Callers, Publish(p)
    PROVE  Claims'
  <1> USE DEF LifeInv, Claims
  <1>0. EndBuild(p)
    BY DEF EndBuild
  <1> PICK d \in Components, n \in Nat : d = Top(p).component /\ n = Len(inj[p])
    BY <1>0, OwnClaim
  <1> DEFINE Ready(s) == IF s.component = d THEN [s EXCEPT !.ready = TRUE, !.builder = None] ELSE s
             done == [component |-> d, ready |-> TRUE, builder |-> None]
  <1>1. Answer(p) /\ UNCHANGED ptr
    BY DEF Publish
  <1>2. /\ inj[p] # <<>>
        /\ Table(p) \in Tables /\ Table(p) = Home(d)
        /\ Claim(p, d) \in slots[Table(p)]
        /\ \A s \in slots[Table(p)] : s.component = d => s = Claim(p, d)
        /\ built[d] = 0
        /\ \A q \in Callers, c \in Components : \A i \in Nat : Builds(q, i, c) => (c = d <=> q = p /\ i = n)
    BY <1>0, OwnClaim
  <1>3. /\ slots'[Table(p)] = {Ready(s) : s \in slots[Table(p)]}
        /\ \A t \in Tables : t # Table(p) => slots'[t] = slots[t]
    <2> DEFINE after == {Ready(s) : s \in slots[Table(p)]}
    <2>1. slots' = [slots EXCEPT ![Table(p)] = after] /\ slots \in [Tables -> SUBSET Slots]
      BY DEF Publish, TypeOK
    <2> HIDE DEF after
    <2>2. slots'[Table(p)] = after /\ \A t \in Tables : t # Table(p) => slots'[t] = slots[t]
      BY <1>2, <2>1
    <2> QED BY <2>2 DEF after
  <1>4. built'[d] = 1 /\ \A c \in Components : c # d => built'[c] = built[c]
    <2>1. built' = [built EXCEPT ![d] = built[d] + 1] /\ built \in [Components -> Nat]
      BY DEF Publish, TypeOK
    <2> QED BY <1>2, <2>1
  <1>5. Ready(Claim(p, d)) = done /\ Claim(p, d).component = d
    BY DEF Claim
  <1>6. slots'[Table(p)] = {s \in slots[Table(p)] : s.component # d} \cup {done}
    <2>1. \A s \in slots[Table(p)] : Ready(s) = IF s.component = d THEN done ELSE s
      BY <1>2, <1>5
    <2>2. done \in slots'[Table(p)]
      BY <1>2, <1>3, <1>5
    <2> HIDE DEF Ready, done
    <2> QED BY <1>3, <2>1, <2>2
  <1>7. \A q \in Callers, c \in Components : \A i \in Nat :
            Builds(q, i, c)' <=> Builds(q, i, c) /\ c # d
    BY <1>1, <1>2, FewerBuilds
  <1>8. \A c \in Components : Home(c)' = Home(c)
    BY <1>1 DEF Home
  <1>9. \A t \in Tables : \A s \in slots[t] : s.component \in Components /\ (s.component = d => t = Table(p))
    BY <1>2 DEF TypeOK, Slots, SlotsTrue
  <1>10. done.component = d /\ done.ready
    OBVIOUS
  <1> HIDE DEF done, Ready
  <1>11. \A t \in Tables : \A s \in slots'[t] :
            \/ s.component # d /\ s \in slots[t]
            \/ t = Table(p) /\ s = done
    BY <1>3, <1>6, <1>9
  <1>12. \A t \in Tables : \A s \in slots[t] : s.component # d => s \in slots'[t]
    BY <1>3, <1>6
  <1>13. done \in slots'[Table(p)]
    BY <1>6
  <1>14. ClaimHeld'
    BY <1>7, <1>8, <1>12 DEF ClaimHeld, Claim
  <1>15. OneBuild'
    BY <1>7 DEF OneBuild
  <1>16. SlotsTrue'
    <2> SUFFICES ASSUME NEW t \in Tables, NEW s \in slots'[t]
                 PROVE  /\ t = Home(s.component)'
                        /\ \A r \in slots'[t] : r.component = s.component => r = s
                        /\ s.ready => built'[s.component] = 1
                        /\ ~s.ready => /\ built'[s.component] = 0
                                       /\ \E q \in Callers : \E i \in Nat :
                                             Builds(q, i, s.component)' /\ s.builder = Self(q)
      BY DEF SlotsTrue
    <2>1. CASE s.component # d /\ s \in slots[t]
      BY <1>4, <1>7, <1>8, <1>9, <1>10, <1>11, <2>1 DEF SlotsTrue
    <2>2. CASE t = Table(p) /\ s = done
      BY <1>2, <1>4, <1>8, <1>10, <1>11, <2>2
    <2> QED BY <1>11, <2>1, <2>2
  <1>17. BuiltThere'
    BY <1>2, <1>4, <1>8, <1>10, <1>12, <1>13 DEF BuiltThere
  <1> QED BY <1>14, <1>15, <1>16, <1>17

LEMMA ClaimsAbandon ==
    ASSUME LifeInv, Claims, NEW p \in Callers, Abandon(p)
    PROVE  Claims'
  <1> USE DEF LifeInv, Claims
  <1>0. EndBuild(p)
    BY DEF EndBuild
  <1> PICK d \in Components, n \in Nat : d = Top(p).component /\ n = Len(inj[p])
    BY <1>0, OwnClaim
  <1>1. Answer(p) /\ UNCHANGED <<ptr, built>>
    BY DEF Abandon
  <1>2. /\ inj[p] # <<>>
        /\ Table(p) \in Tables /\ Table(p) = Home(d)
        /\ built[d] = 0
        /\ \A q \in Callers, c \in Components : \A i \in Nat : Builds(q, i, c) => (c = d <=> q = p /\ i = n)
    BY <1>0, OwnClaim
  <1>3. /\ slots'[Table(p)] = {s \in slots[Table(p)] : s.component # d}
        /\ \A t \in Tables : t # Table(p) => slots'[t] = slots[t]
    BY <1>2 DEF Abandon, TypeOK
  <1>4. \A q \in Callers, c \in Components : \A i \in Nat :
            Builds(q, i, c)' <=> Builds(q, i, c) /\ c # d
    BY <1>1, <1>2, FewerBuilds
  <1>5. \A c \in Components : Home(c)' = Home(c)
    BY <1>1 DEF Home
  <1>6. \A t \in Tables : \A s \in slots[t] : s.component \in Components /\ (s.component = d => t = Table(p))
    BY <1>2 DEF TypeOK, Slots, SlotsTrue
  <1>7. \A t \in Tables : \A s \in slots[t] : s \in slots'[t] <=> s.component # d
    BY <1>3, <1>6
  <1>8. \A t \in Tables : slots'[t] \subseteq slots[t]
    BY <1>3
  <1>9. ClaimHeld'
    BY <1>4, <1>5, <1>7 DEF ClaimHeld, Claim
  <1>10. OneBuild'
    BY <1>4 DEF OneBuild
  <1>11. SlotsTrue'
    BY <1>1, <1>4, <1>5, <1>6, <1>7, <1>8 DEF SlotsTrue
  <1>12. BuiltThere'
    BY <1>1, <1>2, <1>5, <1>7 DEF BuiltThere
  <1> QED BY <1>9, <1>10, <1>11, <1>12

LEMMA ClaimsStep ==
    ASSUME LifeInv, Claims, [Next]_vars
    PROVE  Claims'
  <1> USE DEF LifeInv
  <1>1. CASE UNCHANGED vars
    BY <1>1, ClaimsKept DEF vars, Builds
  <1>2. CASE Next
    <2>1. \A s \in Scopes : ptr[s] # None => ptr'[s] = ptr[s]
      BY <1>2, PtrKept
    <2>2. ASSUME NEW p \in Callers, Acquire(p) PROVE Claims'
      <3>1. CASE MakeTable(p)
        <4> DEFINE call == [Top(p) EXCEPT !.at = "look", !.table = ptr'[ScopeOf(Top(p).component)]]
        <4>1. inj[p] # <<>> /\ Top(p) \in Pending /\ Top(p).at = "make"
          BY <3>1, Indexed DEF MakeTable, At
        <4>2. /\ call.component = Top(p).component /\ call.at = "look"
              /\ call \in Pending /\ Advance(p, call) /\ UNCHANGED <<slots, built>>
          <5>1. ptr'[ScopeOf(Top(p).component)] \in Tables \cup {None}
            BY <2>2, <3>1, LifeMakeTable DEF TypeOK, ScopeOf, Scopes
          <5> QED BY <3>1, <4>1, <5>1 DEF MakeTable, historyVars, Pending
        <4> HIDE DEF call
        <4> QED BY <2>1, <4>1, <4>2, SameBuilds, ClaimsKept DEF Building
      <3>2. CASE AcquireReady(p) \/ AcquireFailed(p) \/ AcquireReentered(p)
        <4>1. /\ inj[p] # <<>> /\ Top(p).at = "look" /\ Answer(p)
              /\ UNCHANGED <<slots, built>>
          BY <3>2 DEF AcquireReady, AcquireFailed, AcquireReentered, At, tableVars
        <4> QED BY <2>1, <4>1, SameBuilds, ClaimsKept DEF Building
      <3>3. CASE AcquireWait(p)
        <4> DEFINE call == [Top(p) EXCEPT !.waited = epoch[Table(p)]]
        <4>1. inj[p] # <<>> /\ Top(p).at = "look" /\ Top(p) \in Pending /\ epoch[Table(p)] \in Nat
          BY <3>3, TopTable DEF AcquireWait, At, TypeOK
        <4>2. /\ call.component = Top(p).component /\ call.at = "look"
              /\ call \in Pending /\ Advance(p, call) /\ UNCHANGED <<slots, built>>
          BY <3>3, <4>1 DEF AcquireWait, historyVars, tableVars, Pending
        <4> HIDE DEF call
        <4> QED BY <2>1, <4>1, <4>2, SameBuilds, ClaimsKept DEF Building
      <3> QED BY <2>2, <3>1, <3>2, <3>3, ClaimsClaim DEF Acquire
    <2>3. ASSUME NEW p \in Callers, EndBuild(p) PROVE Claims'
      <3>1. CASE StoreGlobal(p)
        <4> DEFINE call == [Top(p) EXCEPT !.at = "stored"]
        <4>1. inj[p] # <<>> /\ Top(p).at = "build" /\ Top(p) \in Pending
          BY <3>1, TopTable DEF StoreGlobal, At
        <4>2. /\ call.component = Top(p).component /\ call.at = "stored"
              /\ call \in Pending /\ Advance(p, call) /\ UNCHANGED <<slots, built>>
          BY <3>1, <4>1 DEF StoreGlobal, historyVars, tableVars, Pending
        <4> HIDE DEF call
        <4> QED BY <2>1, <4>1, <4>2, SameBuilds, ClaimsKept DEF Building
      <3> QED BY <2>3, <3>1, ClaimsPublish, ClaimsAbandon DEF EndBuild
    <2>4. ASSUME NEW p \in Callers, NEW c \in Components, Inject(p, c) PROVE Claims'
      <3> DEFINE t == ptr[ScopeOf(c)]
                 call == [component |-> c, at |-> IF t = None THEN "make" ELSE "look", table |-> t, waited |-> -1]
      <3>1. UNCHANGED <<slots, built>>
        BY <2>4 DEF Inject, tableVars, historyVars
      <3>2. CASE inj' = inj
        BY <2>1, <3>1, <3>2, ClaimsKept DEF Builds
      <3>3. CASE inj' # inj
        <4>1. call \in Pending /\ call.at \notin Building
          BY DEF Pending, Building, TypeOK, ScopeOf, Scopes
        <4>2. inj' = [inj EXCEPT ![p] = Append(@, call)]
          BY <2>4, <3>3 DEF Inject
        <4> HIDE DEF call
        <4> QED BY <2>1, <3>1, <4>1, <4>2, SameBuilds, ClaimsKept
      <3> QED BY <3>2, <3>3
    <2>5. CASE inj' = inj /\ UNCHANGED <<slots, built>>
      BY <2>1, <2>5, ClaimsKept DEF Builds
    <2> QED
      BY <1>2, <2>2, <2>3, <2>4, <2>5
      DEF Next, SpuriousWake, TaskComplete, Spawn, AnchorReturn, AnchorThrow, AnchorEnd, tableVars, historyVars
  <1> QED BY <1>1, <1>2

-----------------------------------------------------------------------------
(* Waiting and returning.                                                  *)

\* Whoever builds, or has just begun to inject, neither waits nor has been disappointed.
LEMMA NotReturned ==
    ASSUME LifeInv, Waits, NEW p \in Callers, inj[p] # <<>> => Top(p).at # "look"
    PROVE  p \notin waiting /\ p \notin lost
  BY DEF Waits, WaitTrue, Returned

\* Below the innermost injection there is one that builds, if any.
LEMMA AnsweredBuilds ==
    ASSUME LifeInv, NEW p \in Callers, inj[p] # <<>>, Answer(p)
    PROVE  ~Returned(p)'
  <1>1. inj'[p] # <<>> => Top(p)' = inj[p][Len(inj[p]) - 1] /\ Len(inj[p]) - 1 \in DOMAIN inj[p]
    BY Answered DEF LifeInv
  <1>2. inj'[p] # <<>> => Top(p)'.at = "build"
    BY <1>1, Indexed DEF LifeInv, Shape
  <1> QED BY <1>2 DEF Returned

LEMMA WaitsKept ==
    ASSUME LifeInv, Waits, NEW p \in Callers,
           UNCHANGED <<slots, epoch>>, waiting' \subseteq waiting,
           \A q \in Callers : q # p => inj'[q] = inj[q] /\ (q \in lost' <=> q \in lost),
           p \notin waiting', p \notin lost', ~Returned(p)'
    PROVE  Waits'
  <1>1. \A q \in Callers : q # p => WaitTrue(q)'
    BY DEF Waits, WaitTrue, Returned, SlotsOf, Table, Top
  <1>2. WaitTrue(p)'
    BY DEF WaitTrue
  <1> QED BY <1>1, <1>2 DEF Waits

LEMMA WaitsWait ==
    ASSUME LifeInv, Waits, NEW p \in Callers, AcquireWait(p)
    PROVE  Waits'
  <1> USE DEF LifeInv
  <1> DEFINE call == [Top(p) EXCEPT !.waited = epoch[Table(p)]]
  <1>1. inj[p] # <<>> /\ Top(p).at = "look" /\ Top(p) \in Pending /\ epoch[Table(p)] \in Nat
    BY TopTable DEF AcquireWait, At, TypeOK
  <1>2. /\ call.component = Top(p).component /\ call.table = Top(p).table
        /\ call.waited = epoch[Table(p)] /\ call.at = "look"
        /\ call \in Pending /\ Advance(p, call)
    BY <1>1 DEF AcquireWait, Pending
  <1>3. UNCHANGED <<slots, epoch, lost>> /\ waiting' = waiting \cup {p}
    BY DEF AcquireWait, tableVars, historyVars
  <1> HIDE DEF call
  <1>4. Top(p)' = call /\ inj'[p] # <<>> /\ \A q \in Callers : q # p => inj'[q] = inj[q]
    BY <1>1, <1>2, Advanced
  <1>5. \A q \in Callers : q # p => WaitTrue(q)'
    BY <1>3, <1>4 DEF Waits, WaitTrue, Returned, SlotsOf, Table, Top
  <1>6. WaitTrue(p)'
    <2>1. Table(p)' = Table(p) /\ SlotsOf(p)' = SlotsOf(p)
      BY <1>2, <1>3, <1>4 DEF SlotsOf, Table
    <2>2. \E s \in SlotsOf(p) : ~s.ready /\ s.builder # Self(p)
      BY DEF AcquireWait
    <2>3. p \notin lost
      BY <2>2 DEF Waits, WaitTrue
    <2> QED BY <1>1, <1>2, <1>3, <1>4, <2>1, <2>2, <2>3 DEF WaitTrue, Returned
  <1> QED BY <1>5, <1>6 DEF Waits

LEMMA ClaimUndisappointed ==
    ASSUME LifeInv, Waits, NEW p \in Callers, AcquireClaim(p)
    PROVE  p \notin lost
  <1>1. inj[p] # <<>> /\ Top(p) \in Pending /\ Table(p) \in Tables
    BY TopTable DEF AcquireClaim, At
  <1>2. epoch[Table(p)] \in Nat /\ Top(p).waited \in Int
    BY <1>1 DEF LifeInv, TypeOK, Pending
  <1>3. SlotsOf(p) = {} /\ ~(Top(p).waited >= 0 /\ epoch[Table(p)] # Top(p).waited)
    BY DEF AcquireClaim, WaitedInVain
  <1> QED BY <1>2, <1>3 DEF Waits, WaitTrue, Returned

LEMMA WaitsClaim ==
    ASSUME LifeInv, Waits, NEW p \in Callers, AcquireClaim(p)
    PROVE  Waits'
  <1> USE DEF LifeInv
  <1> DEFINE call == [Top(p) EXCEPT !.at = "build"]
             claim == [component |-> Top(p).component, ready |-> FALSE, builder |-> Self(p)]
  <1>1. inj[p] # <<>> /\ Top(p).at = "look" /\ Top(p) \in Pending /\ Table(p) \in Tables /\ p \notin waiting
    BY TopTable DEF AcquireClaim, At
  <1>2. call.at = "build" /\ call \in Pending /\ Advance(p, call)
    BY <1>1 DEF AcquireClaim, Pending
  <1>3. /\ UNCHANGED <<epoch, waiting>> /\ slots' = [slots EXCEPT ![Table(p)] = slots[Table(p)] \cup {claim}]
        /\ lost' = lost \ Awaiting(Table(p), Top(p).component)
    BY DEF AcquireClaim
  <1>4. \A t \in Tables : slots[t] \subseteq slots'[t]
    BY <1>1, <1>3 DEF TypeOK
  <1>5. p \notin lost
    BY ClaimUndisappointed
  <1>a. claim \in slots'[Table(p)] /\ claim.component = Top(p).component
    BY <1>1, <1>3 DEF TypeOK
  <1>b. \A t \in Tables : \A s \in slots'[t] : s \in slots[t] \/ (t = Table(p) /\ s.component = Top(p).component)
    BY <1>1, <1>3 DEF TypeOK
  <1> HIDE DEF call, claim
  <1>6. Top(p)' = call /\ \A q \in Callers : q # p => inj'[q] = inj[q]
    BY <1>1, <1>2, Advanced
  <1>7. ASSUME NEW q \in Callers, q # p PROVE WaitTrue(q)'
    <2>1. Top(q)' = Top(q) /\ Table(q)' = Table(q) /\ Returned(q)' = Returned(q)
      BY <1>6, <1>7 DEF Table, Top, Returned
    <2>2. Returned(q) => Table(q) \in Tables
      BY TopTable DEF Returned
    <2>3. Returned(q) => SlotsOf(q) \subseteq SlotsOf(q)'
      BY <1>4, <2>1, <2>2 DEF SlotsOf
    <2>4. Returned(q) => (q \in Awaiting(Table(p), Top(p).component)
                            <=> Table(q) = Table(p) /\ Top(q).component = Top(p).component)
      BY DEF Awaiting, Returned
    <2>5. q \in lost' => q \in lost /\ Returned(q) /\ SlotsOf(q)' = {}
      BY <1>3, <1>b, <2>1, <2>2, <2>4 DEF SlotsOf, Waits, WaitTrue
    <2>6. Returned(q) /\ SlotsOf(q)' = {} => SlotsOf(q) = {} /\ q \notin Awaiting(Table(p), Top(p).component)
      BY <1>a, <2>1, <2>3, <2>4 DEF SlotsOf
    <2> QED BY <1>3, <2>1, <2>3, <2>5, <2>6 DEF Waits, WaitTrue
  <1>8. WaitTrue(p)'
    BY <1>1, <1>2, <1>3, <1>5, <1>6 DEF WaitTrue, Returned
  <1> QED BY <1>7, <1>8 DEF Waits

LEMMA WaitsPublish ==
    ASSUME LifeInv, Waits, NEW p \in Callers, Publish(p)
    PROVE  Waits'
  <1> USE DEF LifeInv
  <1> DEFINE Ready(s) == IF s.component = Top(p).component THEN [s EXCEPT !.ready = TRUE, !.builder = None] ELSE s
             after == {Ready(s) : s \in slots[Table(p)]}
  <1>1. inj[p] # <<>> /\ Top(p).at \in {"build", "stored"} /\ Table(p) \in Tables /\ Answer(p)
    BY TopTable DEF Publish, Constructed
  <1>2. UNCHANGED <<epoch, lost>> /\ waiting' = waiting \ WaitingIn(Table(p))
    BY DEF Publish
  <1>3. slots' = [slots EXCEPT ![Table(p)] = after] /\ slots \in [Tables -> SUBSET Slots]
    BY DEF Publish, TypeOK
  <1>4. /\ \A s \in slots[Table(p)] : Ready(s) \in after /\ Ready(s).component = s.component
        /\ \A r \in after : \E s \in slots[Table(p)] : r.component = s.component
    <2>1. \A s \in Slots : Ready(s).component = s.component
      BY DEF Slots
    <2> QED BY <1>1, <1>3, <2>1
  <1> HIDE DEF Ready, after
  <1>5. p \notin waiting' /\ p \notin lost' /\ ~Returned(p)'
    BY <1>1, <1>2, NotReturned, AnsweredBuilds
  <1>6. \A q \in Callers : q # p => inj'[q] = inj[q]
    BY <1>1, Answered
  <1>7. ASSUME NEW q \in Callers, q # p PROVE WaitTrue(q)'
    <2>1. Top(q)' = Top(q) /\ Table(q)' = Table(q) /\ Returned(q)' = Returned(q)
      BY <1>6, <1>7 DEF Table, Top, Returned
    <2>2. Returned(q) => Table(q) \in Tables
      BY TopTable DEF Returned
    <2>3. Returned(q) /\ Table(q) # Table(p) => SlotsOf(q)' = SlotsOf(q)
      BY <1>1, <1>3, <2>1, <2>2 DEF SlotsOf
    <2>4. Returned(q) => (SlotsOf(q)' = {} <=> SlotsOf(q) = {})
      <3>1. CASE Table(q) = Table(p)
        BY <1>1, <1>3, <1>4, <2>1, <3>1 DEF SlotsOf
      <3> QED BY <2>3, <3>1
    <2>5. q \in waiting' => q \in waiting /\ Table(q) # Table(p)
      BY <1>2 DEF WaitingIn
    <2> QED BY <1>2, <2>1, <2>3, <2>4, <2>5 DEF Waits, WaitTrue
  <1>8. WaitTrue(p)'
    BY <1>5 DEF WaitTrue
  <1> QED BY <1>7, <1>8 DEF Waits

LEMMA WaitsAbandon ==
    ASSUME LifeInv, Waits, NEW p \in Callers, Abandon(p)
    PROVE  Waits'
  <1> USE DEF LifeInv
  <1> DEFINE after == {s \in slots[Table(p)] : s.component # Top(p).component}
  <1>1. inj[p] # <<>> /\ Top(p).at = "build" /\ Table(p) \in Tables /\ Answer(p)
    BY TopTable DEF Abandon, At
  <1>2. /\ waiting' = waiting \ WaitingIn(Table(p))
        /\ lost' = lost \cup Awaiting(Table(p), Top(p).component)
    BY DEF Abandon
  <1>3. slots' = [slots EXCEPT ![Table(p)] = after] /\ slots \in [Tables -> SUBSET Slots]
    BY DEF Abandon, TypeOK
  <1>4. /\ epoch'[Table(p)] = epoch[Table(p)] + 1 /\ epoch[Table(p)] \in Nat
        /\ \A t \in Tables : t # Table(p) => epoch'[t] = epoch[t]
    BY <1>1 DEF Abandon, TypeOK
  <1>5. p \notin waiting' /\ p \notin lost' /\ ~Returned(p)'
    <2>1. p \notin Awaiting(Table(p), Top(p).component)
      BY <1>1 DEF Awaiting
    <2> QED BY <1>1, <1>2, <2>1, NotReturned, AnsweredBuilds
  <1>6. \A q \in Callers : q # p => inj'[q] = inj[q]
    BY <1>1, Answered
  <1>7. ASSUME NEW q \in Callers, q # p PROVE WaitTrue(q)'
    <2>1. Top(q)' = Top(q) /\ Table(q)' = Table(q) /\ Returned(q)' = Returned(q)
      BY <1>6, <1>7 DEF Table, Top, Returned
    <2>2. Returned(q) => Table(q) \in Tables /\ Top(q).waited \in Int
      BY TopTable DEF Returned, Pending
    <2>3. q \in waiting' => q \in waiting /\ Table(q) # Table(p)
      BY <1>2 DEF WaitingIn
    <2>4. q \in lost' => Returned(q)' /\ SlotsOf(q)' = {}
      <3>1. q \in lost' => Returned(q) /\ (SlotsOf(q) = {} \/ q \in Awaiting(Table(p), Top(p).component))
        BY <1>2 DEF Awaiting, Waits, WaitTrue, Returned
      <3>2. q \in lost' /\ SlotsOf(q) = {} => SlotsOf(q)' = {}
        BY <1>1, <1>3, <2>1, <2>2, <3>1 DEF SlotsOf
      <3>3. q \in Awaiting(Table(p), Top(p).component) => SlotsOf(q)' = {}
        BY <1>1, <1>3, <2>1 DEF SlotsOf, Awaiting
      <3> QED BY <2>1, <3>1, <3>2, <3>3
    <2>5. CASE Returned(q) /\ Table(q) # Table(p)
      <3>1. SlotsOf(q)' = SlotsOf(q) /\ epoch'[Table(q)] = epoch[Table(q)]
        BY <1>1, <1>3, <1>4, <2>1, <2>2, <2>5 DEF SlotsOf
      <3> QED BY <1>2, <2>1, <2>3, <2>4, <3>1 DEF Waits, WaitTrue
    <2>6. CASE Returned(q) /\ Table(q) = Table(p) /\ Top(q).component = Top(p).component
      <3>1. q \in lost'
        BY <1>2, <2>6 DEF Awaiting, Returned
      <3>2. Top(q).waited < epoch'[Table(q)]
        BY <1>4, <2>2, <2>6 DEF Waits, WaitTrue
      <3> QED BY <2>1, <2>2, <2>3, <2>4, <2>6, <3>1, <3>2, <1>4 DEF WaitTrue
    <2>7. CASE Returned(q) /\ Table(q) = Table(p) /\ Top(q).component # Top(p).component
      <3>1. SlotsOf(q)' = SlotsOf(q)
        BY <1>1, <1>3, <2>1, <2>7 DEF SlotsOf
      <3>2. Top(q).waited < epoch'[Table(q)]
        BY <1>4, <2>2, <2>7 DEF Waits, WaitTrue
      <3> QED BY <1>2, <1>4, <2>1, <2>2, <2>3, <2>4, <2>7, <3>1, <3>2 DEF Waits, WaitTrue
    <2>8. CASE ~Returned(q)
      BY <2>1, <2>3, <2>4, <2>8 DEF Waits, WaitTrue
    <2> QED BY <2>5, <2>6, <2>7, <2>8
  <1>8. WaitTrue(p)'
    BY <1>5 DEF WaitTrue
  <1> QED BY <1>7, <1>8 DEF Waits

LEMMA WaitsStep ==
    ASSUME LifeInv, Waits, [Next]_vars
    PROVE  Waits'
  <1> USE DEF LifeInv
  <1>1. CASE UNCHANGED <<inj, slots, epoch, lost>> /\ waiting' \subseteq waiting
    BY <1>1 DEF Waits, WaitTrue, Returned, SlotsOf, Table, Top
  <1>2. ASSUME NEW p \in Callers, Acquire(p) PROVE Waits'
    <2>1. CASE MakeTable(p)
      <3> DEFINE call == [Top(p) EXCEPT !.at = "look", !.table = ptr'[ScopeOf(Top(p).component)]]
      <3>1. /\ inj[p] # <<>> /\ Top(p) \in Pending /\ Top(p).at = "make" /\ Top(p).waited = -1
        BY <2>1, Indexed DEF MakeTable, At, Shape
      <3>2. call.waited = -1 /\ call \in Pending /\ Advance(p, call) /\ UNCHANGED <<slots, epoch, waiting, lost>>
        <4>1. ptr'[ScopeOf(Top(p).component)] \in Tables \cup {None}
          BY <2>1, LifeMakeTable DEF TypeOK, ScopeOf, Scopes
        <4> QED BY <2>1, <3>1, <4>1 DEF MakeTable, historyVars, Pending
      <3> HIDE DEF call
      <3>3. Top(p)' = call /\ \A q \in Callers : q # p => inj'[q] = inj[q]
        BY <3>1, <3>2, Advanced
      <3>4. p \notin waiting' /\ p \notin lost' /\ ~Returned(p)'
        BY <3>1, <3>2, <3>3, NotReturned DEF Returned
      <3> QED BY <3>2, <3>3, <3>4, WaitsKept
    <2>2. CASE AcquireReady(p) \/ AcquireFailed(p) \/ AcquireReentered(p)
      <3>1. inj[p] # <<>> /\ Answer(p) /\ p \notin waiting /\ lost' = lost \ {p} /\ UNCHANGED <<slots, epoch, waiting>>
        BY <2>2 DEF AcquireReady, AcquireFailed, AcquireReentered, At, tableVars
      <3>2. ~Returned(p)' /\ \A q \in Callers : q # p => inj'[q] = inj[q]
        BY <3>1, AnsweredBuilds, Answered
      <3> QED BY <3>1, <3>2, WaitsKept
    <2> QED BY <1>2, <2>1, <2>2, WaitsClaim, WaitsWait DEF Acquire
  <1>3. ASSUME NEW p \in Callers, StoreGlobal(p) PROVE Waits'
    <2> DEFINE call == [Top(p) EXCEPT !.at = "stored"]
    <2>1. inj[p] # <<>> /\ Top(p).at = "build" /\ Top(p) \in Pending
      BY <1>3, TopTable DEF StoreGlobal, At
    <2>2. call.at = "stored" /\ call \in Pending /\ Advance(p, call) /\ UNCHANGED <<slots, epoch, waiting, lost>>
      BY <1>3, <2>1 DEF StoreGlobal, historyVars, tableVars, Pending
    <2> HIDE DEF call
    <2>3. Top(p)' = call /\ \A q \in Callers : q # p => inj'[q] = inj[q]
      BY <2>1, <2>2, Advanced
    <2>4. p \notin waiting' /\ p \notin lost' /\ ~Returned(p)'
      BY <2>1, <2>2, <2>3, NotReturned DEF Returned
    <2> QED BY <2>2, <2>3, <2>4, WaitsKept
  <1>4. ASSUME NEW p \in Callers, NEW c \in Components, Inject(p, c), inj' # inj PROVE Waits'
    <2> DEFINE t == ptr[ScopeOf(c)]
               call == [component |-> c, at |-> IF t = None THEN "make" ELSE "look", table |-> t, waited |-> -1]
    <2>1. call \in Pending /\ call.waited = -1
      BY DEF Pending, TypeOK, ScopeOf, Scopes
    <2>2. /\ inj' = [inj EXCEPT ![p] = Append(@, call)]
          /\ UNCHANGED <<slots, epoch, waiting, lost>> /\ (inj[p] # <<>> => Top(p).at = "build")
      BY <1>4 DEF Inject, Active, tableVars, historyVars
    <2> HIDE DEF call
    <2>3. Top(p)' = call /\ \A q \in Callers : q # p => inj'[q] = inj[q]
      BY <2>1, <2>2, Pushed
    <2>4. p \notin waiting' /\ p \notin lost' /\ ~Returned(p)'
      BY <2>1, <2>2, <2>3, NotReturned DEF Returned
    <2> QED BY <2>2, <2>3, <2>4, WaitsKept
  <1> QED
    BY <1>1, <1>2, <1>3, <1>4, WaitsPublish, WaitsAbandon
    DEF Next, EndBuild, Inject, SpuriousWake, TaskComplete, Spawn, AnchorReturn, AnchorThrow, AnchorEnd,
        vars, tableVars, historyVars

-----------------------------------------------------------------------------
(* What follows.                                                           *)

LEMMA BuildInvariant == Spec => []BuildInv
  <1>1. Init => BuildInv
    <2>1. ASSUME Init PROVE Claims
      BY <2>1 DEF Init, Claims, ClaimHeld, OneBuild, SlotsTrue, BuiltThere, Builds
    <2>2. ASSUME Init PROVE Waits
      BY <2>2 DEF Init, Waits, WaitTrue, Returned
    <2> QED BY <2>1, <2>2, LifeInit DEF BuildInv
  <1>2. BuildInv /\ [Next]_vars => BuildInv'
    BY LifeStep, ClaimsStep, WaitsStep DEF BuildInv
  <1> QED BY <1>1, <1>2, PTL DEF Spec

LEMMA BuildersBuild ==
    ASSUME TypeOK, NEW c \in Components, NEW p \in Callers
    PROVE  p \in Builders(c) <=> \E i \in Nat : Builds(p, i, c)
  BY Indexed DEF Builders, Builds

\* AcquireClaim finds no slot, so there is no other build and no instance: the table's
\* lock around find and append.
THEOREM AnchorBuildsOnce == Spec => []BuiltOnce
  <1>1. BuildInv => BuiltOnce
    <2> SUFFICES ASSUME BuildInv, NEW c \in Components
                 PROVE  built[c] + Cardinality(Builders(c)) <= 1
      BY DEF BuiltOnce
    <2>1. built[c] \in Nat
      BY DEF BuildInv, LifeInv, TypeOK
    <2>2. CASE built[c] # 0
      <3>1. PICK s \in slots[Home(c)] : s.component = c /\ s.ready
        BY <2>2 DEF BuildInv, Claims, BuiltThere
      <3>2. Home(c) \in Tables /\ built[c] = 1
        BY <2>2, <3>1 DEF BuildInv, Claims, BuiltThere, SlotsTrue
      <3>3. ASSUME NEW p \in Callers, NEW i \in Nat, Builds(p, i, c) PROVE FALSE
        <4>1. Claim(p, c) \in slots[Home(c)] /\ Claim(p, c).component = c /\ ~Claim(p, c).ready
          BY <3>3 DEF BuildInv, Claims, ClaimHeld, Claim
        <4> QED BY <3>1, <3>2, <4>1 DEF BuildInv, Claims, SlotsTrue
      <3>4. Builders(c) = {}
        BY <3>3, BuildersBuild DEF BuildInv, LifeInv, Builders
      <3> QED BY <3>2, <3>4, FS_EmptySet
    <2>3. CASE built[c] = 0 /\ Builders(c) = {}
      BY <2>3, FS_EmptySet
    <2>4. CASE built[c] = 0 /\ Builders(c) # {}
      <3>1. PICK p \in Callers : p \in Builders(c)
        BY <2>4 DEF Builders
      <3>2. \A q \in Callers : q \in Builders(c) => q = p
        BY <3>1, BuildersBuild DEF BuildInv, LifeInv, Claims, OneBuild
      <3>3. Builders(c) = {p}
        BY <3>1, <3>2 DEF Builders
      <3> QED BY <2>4, <3>3, FS_Singleton
    <2> QED BY <2>1, <2>2, <2>3, <2>4
  <1> QED BY <1>1, BuildInvariant, PTL

\* Publish and Abandon wake everybody in the table under its lock, and AcquireWait
\* looks under it: no wakeup falls between.
THEOREM AnchorNobodyStranded == Spec => []NoStranded
  <1>1. BuildInv => NoStranded
    <2> SUFFICES ASSUME BuildInv, NEW w \in waiting
                 PROVE  /\ \E s \in SlotsOf(w) : ~s.ready
                        /\ Builders(Top(w).component) \ {w} # {}
      BY DEF NoStranded
    <2>1. w \in Callers /\ Returned(w)
      BY DEF BuildInv, LifeInv, TypeOK, Waits, WaitTrue
    <2>2. PICK s \in SlotsOf(w) : ~s.ready /\ s.builder # Self(w)
      BY <2>1 DEF BuildInv, Waits, WaitTrue
    <2>3. Table(w) \in Tables /\ s \in slots[Table(w)] /\ s.component = Top(w).component /\ Top(w) \in Pending
      BY <2>1, <2>2, TopTable DEF BuildInv, Returned, SlotsOf
    <2>4. PICK p \in Callers : (\E i \in Nat : Builds(p, i, s.component)) /\ s.builder = Self(p)
      BY <2>2, <2>3 DEF BuildInv, Claims, SlotsTrue
    <2>5. p \in Builders(Top(w).component) /\ p # w
      BY <2>2, <2>3, <2>4, BuildersBuild DEF BuildInv, LifeInv, Pending
    <2> QED BY <2>2, <2>5
  <1> QED BY <1>1, BuildInvariant, PTL

\* What acquire_in returns is so: the order of its tests, and the epoch that a waiter
\* remembers.  Until somebody claims the component anew, who has waited in vain finds
\* no slot for it, and so has no other answer but the failure.
THEOREM AnchorAnswersTrue == Spec => AnswersTrue
  <1>1. ASSUME BuildInv, NEW p \in Callers
        PROVE  /\ AcquireReady(p) => built[Top(p).component] = 1
               /\ AcquireReentered(p) => p \in Builders(Top(p).component)
               /\ Acquire(p) => (AcquireFailed(p) <=> p \in lost)
    <2> USE DEF BuildInv
    <2>1. AcquireReady(p) => built[Top(p).component] = 1
      BY <1>1, TopTable DEF AcquireReady, At, SlotsOf, Claims, SlotsTrue
    <2>2. AcquireFailed(p) => p \in lost
      BY <1>1 DEF AcquireFailed, At, WaitedInVain, Waits, WaitTrue, Returned
    <2>3. AcquireReentered(p) => p \in Builders(Top(p).component)
      <3> SUFFICES ASSUME AcquireReentered(p) PROVE p \in Builders(Top(p).component)
        OBVIOUS
      <3>1. Table(p) \in Tables /\ Top(p) \in Pending
        BY <1>1, TopTable DEF AcquireReentered, At
      <3>2. PICK s \in SlotsOf(p) : ~s.ready /\ s.builder = Self(p)
        BY DEF AcquireReentered
      <3>3. PICK q \in Callers : (\E i \in Nat : Builds(q, i, s.component)) /\ s.builder = Self(q)
        BY <1>1, <3>1, <3>2 DEF SlotsOf, Claims, SlotsTrue
      <3>4. q = p
        BY <3>2, <3>3, AnchorAssumption DEF Self, Callers
      <3> QED BY <1>1, <3>1, <3>2, <3>3, <3>4, BuildersBuild DEF SlotsOf, LifeInv, Pending
    <2>4. ASSUME p \in lost, Acquire(p) PROVE AcquireFailed(p)
      <3>1. Returned(p) /\ SlotsOf(p) = {}
        BY <1>1, <2>4 DEF Waits, WaitTrue
      <3>2. ~MakeTable(p)
        BY <3>1 DEF MakeTable, At, Returned
      <3>3. ~(AcquireReady(p) \/ AcquireReentered(p) \/ AcquireWait(p))
        BY <3>1 DEF AcquireReady, AcquireReentered, AcquireWait
      <3>4. ~AcquireClaim(p)
        BY <1>1, <2>4, ClaimUndisappointed
      <3> QED BY <2>4, <3>2, <3>3, <3>4 DEF Acquire
    <2> QED BY <2>1, <2>2, <2>3, <2>4
  <1>2. BuildInv =>
            [\A p \in Callers :
                /\ AcquireReady(p) => built[Top(p).component] = 1
                /\ AcquireReentered(p) => p \in Builders(Top(p).component)
                /\ Acquire(p) => (AcquireFailed(p) <=> p \in lost)]_vars
    BY <1>1
  <1> QED BY <1>2, BuildInvariant, PTL DEF AnswersTrue
=============================================================================
