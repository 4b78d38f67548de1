------------------------ MODULE ConnectionPool_proofs ------------------------
(***************************************************************************)
(* Proofs about ConnectionPool, for any number of callers and connections  *)
(* and any configuration: the types, what the counter p.active counts, the *)
(* bound on connections, that each connection has one owner and none is    *)
(* lost, that nothing is left idle behind Stop, and that the last release  *)
(* wakes a waiter.                                                         *)
(***************************************************************************)
EXTENDS ConnectionPool, TLAPS, FiniteSetTheorems, SequenceTheorems

-----------------------------------------------------------------------------
(* Type correctness.                                                        *)

\* A prefix or a suffix of the idle list.
LEMMA Prefix ==
    ASSUME NEW s \in Seq(Conns), NEW n \in 0..Len(s)
    PROVE  /\ SubSeq(s, 1, n) \in Seq(Conns)
           /\ Len(SubSeq(s, 1, n)) = n
           /\ \A i \in 1..n : SubSeq(s, 1, n)[i] = s[i]
<1>1. Len(s) \in Nat /\ \A i \in 1..n : s[i] \in Conns
  BY LenProperties, ElementOfSeq
<1>2. QED
  BY <1>1, SubSeqProperties

\* What cleanupIdleConnections keeps when it drops the first n.
LEMMA Suffix ==
    ASSUME NEW s \in Seq(Conns), NEW n \in 0..Len(s)
    PROVE  /\ SubSeq(s, n + 1, Len(s)) \in Seq(Conns)
           /\ Len(SubSeq(s, n + 1, Len(s))) = Len(s) - n
           /\ \A i \in 1..(Len(s) - n) : SubSeq(s, n + 1, Len(s))[i] = s[n + i]
<1>1. Len(s) \in Nat /\ \A i \in (n + 1)..Len(s) : s[i] \in Conns
  BY LenProperties, ElementOfSeq
<1>2. QED
  BY <1>1, SubSeqProperties

\* The idle list holds connections.
LEMMA IdleElements ==
    ASSUME TypeOK
    PROVE  /\ Len(idle) \in Nat
           /\ DOMAIN idle = 1..Len(idle)
           /\ \A i \in DOMAIN idle : idle[i] \in Conns
BY LenProperties, ElementOfSeq DEF TypeOK

\* cleanupIdleConnections removes no more than have expired.
LEMMA RemovableType ==
    ASSUME TypeOK, NEW k \in 1..Len(idle)
    PROVE  Removable(k) \in 0..k /\ Removable(k) \in 0..Len(idle)
<1>1. Len(idle) \in Nat /\ active \in Int /\ MinIdle \in Nat
  BY IdleElements, ConnectionPoolAssumption DEF TypeOK
<1>2. QED
  BY <1>1 DEF Removable, Smaller

\* NewConnectionPool establishes the types.
LEMMA InitTypes == Init => TypeOK
<1> SUFFICES ASSUME Init PROVE TypeOK
  OBVIOUS
<1>1. idle \in Seq(Conns) /\ active \in Int /\ available \in {0, 1}
  BY EmptySeq DEF Init
<1>2. /\ stopped \in BOOLEAN
      /\ stopClosed \in BOOLEAN
      /\ cleaner \in {"loop", "exited"}
      /\ stopper \in {"off", "close", "notify", "wait", "done"}
  BY DEF Init
<1>3. /\ link \in [Conns -> {"none", "open", "dead"}]
      /\ pc \in [Users -> {"out", "waiting", "woken", "creating", "failed", "using"}]
      /\ held \in [Users -> Conns \union {NoConn}]
      /\ \A u \in Users : held[u] \in Conns <=> pc[u] = "using"
  BY ConnectionPoolAssumption DEF Init
<1>4. QED
  BY <1>1, <1>2, <1>3 DEF TypeOK

\* Every step of callers, cleanup and Stop keeps them.
LEMMA StepTypes == TypeOK /\ [Next]_connVars => TypeOK'
<1> SUFFICES ASSUME TypeOK, [Next]_connVars PROVE TypeOK'
  OBVIOUS
<1> USE ConnectionPoolAssumption
<1>1. ASSUME NEW u \in Users, AcquireLocked(u) PROVE TypeOK'
  <2>1. CASE PopIdle(u)
    <3>1. PICK i \in DOMAIN idle :
            /\ held' = [held EXCEPT ![u] = idle[i]]
            /\ idle' = SubSeq(idle, 1, i - 1)
      BY <2>1 DEF PopIdle
    <3>2. idle[i] \in Conns /\ idle' \in Seq(Conns)
      BY <3>1, IdleElements, Prefix DEF TypeOK
    <3>3. QED
      BY <1>1, <2>1, <3>1, <3>2 DEF AcquireLocked, PopIdle, TypeOK
  <2>2. CASE ReserveSlot(u)
    BY <1>1, <2>2, EmptySeq DEF AcquireLocked, ReserveSlot, TypeOK
  <2>3. CASE AtCapacity(u)
    BY <1>1, <2>3, EmptySeq DEF AcquireLocked, AtCapacity, TypeOK
  <2>4. QED
    BY <1>1, <2>1, <2>2, <2>3 DEF AcquireLocked
<1>2. ASSUME NEW u \in Users, AcquireError(u) PROVE TypeOK'
  BY <1>2 DEF AcquireError, TypeOK
<1>3. ASSUME NEW u \in Users, CreateOk(u) PROVE TypeOK'
  BY <1>3 DEF CreateOk, TypeOK
<1>4. ASSUME NEW u \in Users, CreateFail(u) PROVE TypeOK'
  BY <1>4 DEF CreateFail, TypeOK
<1>5. ASSUME NEW u \in Users, CreateNotify(u) PROVE TypeOK'
  BY <1>5 DEF CreateNotify, TypeOK
<1>6. ASSUME NEW u \in Users, TakeToken(u) PROVE TypeOK'
  BY <1>6 DEF TakeToken, TypeOK
<1>7. ASSUME NEW u \in Users, NEW b \in BOOLEAN, UseAndRelease(u, b) PROVE TypeOK'
  <2>1. held[u] \in Conns
    BY <1>7 DEF UseAndRelease, TypeOK
  <2>2. idle' \in Seq(Conns)
    BY <1>7, <2>1, AppendProperties DEF UseAndRelease, TypeOK
  <2>3. link' \in [Conns -> {"none", "open", "dead"}]
    BY <1>7, <2>1 DEF UseAndRelease, TypeOK
  <2>4. QED
    BY <1>7, <2>2, <2>3 DEF UseAndRelease, TypeOK
<1>8. ASSUME NEW c \in Conns, PeerClose(c) PROVE TypeOK'
  BY <1>8 DEF PeerClose, TypeOK
<1>9. ASSUME Cleanup PROVE TypeOK'
  <2>1. PICK k \in 1..Len(idle) :
          /\ idle' = SubSeq(idle, Removable(k) + 1, Len(idle))
          /\ link' = [c \in Conns |-> IF \E i \in 1..Removable(k) : idle[i] = c
                                      THEN "none" ELSE link[c]]
    BY <1>9 DEF Cleanup
  <2>2. idle' \in Seq(Conns)
    BY <2>1, RemovableType, Suffix DEF TypeOK
  <2>3. link' \in [Conns -> {"none", "open", "dead"}]
    BY <2>1 DEF TypeOK
  <2>4. QED
    BY <1>9, <2>2, <2>3 DEF Cleanup, TypeOK
<1>10. ASSUME CleanerExit PROVE TypeOK'
  BY <1>10 DEF CleanerExit, TypeOK
<1>11. ASSUME StopBegin PROVE TypeOK'
  BY <1>11 DEF StopBegin, TypeOK
<1>12. ASSUME StopClose PROVE TypeOK'
  BY <1>12 DEF StopClose, TypeOK
<1>13. ASSUME StopNotify PROVE TypeOK'
  BY <1>13 DEF StopNotify, TypeOK
<1>14. ASSUME StopDrain PROVE TypeOK'
  <2>1. idle' \in Seq(Conns) /\ link' \in [Conns -> {"none", "open", "dead"}]
    BY <1>14, EmptySeq DEF StopDrain, TypeOK
  <2>2. QED
    BY <1>14, <2>1 DEF StopDrain, TypeOK
<1>15. ASSUME UNCHANGED connVars PROVE TypeOK'
  BY <1>15 DEF connVars, TypeOK
<1>16. QED
  BY <1>1, <1>2, <1>3, <1>4, <1>5, <1>6, <1>7, <1>8, <1>9, <1>10, <1>11,
     <1>12, <1>13, <1>14, <1>15
     DEF Next, CreateStep, Release, StopStep

\* In every reachable state the variables keep their types.
THEOREM TypeCorrect == Spec => []TypeOK
BY InitTypes, StepTypes, PTL DEF Spec

-----------------------------------------------------------------------------
(* The counter.  Every step that enters or leaves Slots moves p.active by   *)
(* one, whether or not it holds mu.                                         *)

\* There are finitely many slots taken.
LEMMA SlotsType == TypeOK => IsFiniteSet(Slots) /\ Cardinality(Slots) \in Nat
BY ConnectionPoolAssumption, FS_Subset, FS_CardinalityType DEF Slots

\* A caller that takes a slot and raises active keeps the two in step.
LEMMA SlotEntered ==
    ASSUME TypeOK, ActiveAgrees, NEW u \in Users, NEW l \in {"creating", "using"},
           pc[u] \notin {"creating", "using"}, pc' = [pc EXCEPT ![u] = l],
           active' = active + 1
    PROVE  ActiveAgrees'
<1>1. Slots' = Slots \union {u} /\ u \notin Slots
  BY DEF Slots, TypeOK
<1>2. QED
  BY <1>1, SlotsType, FS_AddElement DEF ActiveAgrees

\* So does one that gives its slot back and lowers active.
LEMMA SlotLeft ==
    ASSUME TypeOK, ActiveAgrees, NEW u \in Users,
           NEW l \in {"out", "waiting", "woken", "failed"},
           pc[u] \in {"creating", "using"}, pc' = [pc EXCEPT ![u] = l],
           active' = active - 1
    PROVE  ActiveAgrees'
<1>1. Slots' = Slots \ {u} /\ u \in Slots
  BY DEF Slots, TypeOK
<1>2. QED
  BY <1>1, SlotsType, FS_RemoveElement DEF ActiveAgrees

\* Every step keeps the counter exact.
LEMMA StepActive == TypeOK /\ ActiveAgrees /\ [Next]_connVars => ActiveAgrees'
<1> SUFFICES ASSUME TypeOK, ActiveAgrees, [Next]_connVars PROVE ActiveAgrees'
  OBVIOUS
<1>0. ASSUME Slots' = Slots, active' = active PROVE ActiveAgrees'
  BY <1>0 DEF ActiveAgrees
<1>1. ASSUME NEW u \in Users, AcquireLocked(u) PROVE ActiveAgrees'
  <2>1. CASE PopIdle(u)
    BY <1>1, <2>1, SlotEntered DEF AcquireLocked, PopIdle
  <2>2. CASE ReserveSlot(u)
    BY <1>1, <2>2, SlotEntered DEF AcquireLocked, ReserveSlot
  <2>3. CASE AtCapacity(u)
    <3>1. Slots' = Slots
      BY <1>1, <2>3 DEF AcquireLocked, AtCapacity, Slots, TypeOK
    <3>2. QED
      BY <1>0, <2>3, <3>1 DEF AtCapacity
  <2>4. QED
    BY <1>1, <2>1, <2>2, <2>3 DEF AcquireLocked
<1>2. ASSUME NEW u \in Users, AcquireError(u) PROVE ActiveAgrees'
  BY <1>2, <1>0 DEF AcquireError, Slots, TypeOK
<1>3. ASSUME NEW u \in Users, CreateOk(u) PROVE ActiveAgrees'
  BY <1>3, <1>0 DEF CreateOk, Slots, TypeOK
<1>4. ASSUME NEW u \in Users, CreateFail(u) PROVE ActiveAgrees'
  BY <1>4, SlotLeft DEF CreateFail
<1>5. ASSUME NEW u \in Users, CreateNotify(u) PROVE ActiveAgrees'
  BY <1>5, <1>0 DEF CreateNotify, Slots, TypeOK
<1>6. ASSUME NEW u \in Users, TakeToken(u) PROVE ActiveAgrees'
  BY <1>6, <1>0 DEF TakeToken, Slots, TypeOK
<1>7. ASSUME NEW u \in Users, NEW b \in BOOLEAN, UseAndRelease(u, b) PROVE ActiveAgrees'
  BY <1>7, SlotLeft DEF UseAndRelease
<1>8. ASSUME NEW c \in Conns, PeerClose(c) PROVE ActiveAgrees'
  BY <1>8, <1>0 DEF PeerClose, Slots
<1>9. ASSUME Cleanup PROVE ActiveAgrees'
  BY <1>9, <1>0 DEF Cleanup, Slots
<1>10. ASSUME CleanerExit PROVE ActiveAgrees'
  BY <1>10, <1>0 DEF CleanerExit, Slots
<1>11. ASSUME StopBegin PROVE ActiveAgrees'
  BY <1>11, <1>0 DEF StopBegin, Slots
<1>12. ASSUME StopClose PROVE ActiveAgrees'
  BY <1>12, <1>0 DEF StopClose, Slots
<1>13. ASSUME StopNotify PROVE ActiveAgrees'
  BY <1>13, <1>0 DEF StopNotify, Slots
<1>14. ASSUME StopDrain PROVE ActiveAgrees'
  BY <1>14, <1>0 DEF StopDrain, Slots
<1>15. ASSUME UNCHANGED connVars PROVE ActiveAgrees'
  BY <1>15, <1>0 DEF connVars, Slots
<1>16. QED
  BY <1>1, <1>2, <1>3, <1>4, <1>5, <1>6, <1>7, <1>8, <1>9, <1>10, <1>11,
     <1>12, <1>13, <1>14, <1>15
     DEF Next, CreateStep, Release, StopStep

\* p.active is the number of callers that dial or own a connection; it never
\* drifts and so is never negative.
THEOREM CounterExact == Spec => []ActiveAgrees
<1>1. Init => ActiveAgrees
  BY FS_EmptySet DEF Init, ActiveAgrees, Slots
<1>2. QED
  BY <1>1, TypeCorrect, StepActive, PTL DEF Spec

-----------------------------------------------------------------------------
(* The bound on connections.                                                *)

\* Every step keeps idle plus active within MaxConnections.
LEMMA StepCapacity == TypeOK /\ CapacityBound /\ [Next]_connVars => CapacityBound'
<1> SUFFICES ASSUME TypeOK, CapacityBound, [Next]_connVars PROVE CapacityBound'
  OBVIOUS
<1>0. Len(idle) \in Nat /\ active \in Int /\ MaxConnections \in Nat
  BY IdleElements, ConnectionPoolAssumption DEF TypeOK
<1> USE DEF CapacityBound
<1>1. ASSUME NEW u \in Users, AcquireLocked(u) PROVE CapacityBound'
  <2>1. CASE PopIdle(u)
    <3>1. PICK i \in DOMAIN idle : idle' = SubSeq(idle, 1, i - 1)
      BY <2>1 DEF PopIdle
    <3>2. i \in 1..Len(idle) /\ i - 1 \in 0..Len(idle)
      BY <1>0, IdleElements
    <3>3. Len(idle') = i - 1
      BY <3>1, <3>2, Prefix DEF TypeOK
    <3>4. QED
      BY <1>0, <2>1, <3>2, <3>3 DEF PopIdle
  <2>2. CASE ReserveSlot(u)
    <3>1. Len(idle') = 0
      BY <2>2, EmptySeq DEF ReserveSlot
    <3>2. QED
      BY <1>0, <2>2, <3>1 DEF ReserveSlot
  <2>3. CASE AtCapacity(u)
    <3>1. Len(idle') = 0
      BY <2>3, EmptySeq DEF AtCapacity
    <3>2. QED
      BY <1>0, <2>3, <3>1 DEF AtCapacity
  <2>4. QED
    BY <1>1, <2>1, <2>2, <2>3 DEF AcquireLocked
<1>2. ASSUME NEW u \in Users, AcquireError(u) PROVE CapacityBound'
  BY <1>2 DEF AcquireError
<1>3. ASSUME NEW u \in Users, CreateOk(u) PROVE CapacityBound'
  BY <1>3 DEF CreateOk
<1>4. ASSUME NEW u \in Users, CreateFail(u) PROVE CapacityBound'
  BY <1>4, <1>0 DEF CreateFail
<1>5. ASSUME NEW u \in Users, CreateNotify(u) PROVE CapacityBound'
  BY <1>5 DEF CreateNotify
<1>6. ASSUME NEW u \in Users, TakeToken(u) PROVE CapacityBound'
  BY <1>6 DEF TakeToken
<1>7. ASSUME NEW u \in Users, NEW b \in BOOLEAN, UseAndRelease(u, b) PROVE CapacityBound'
  <2>1. Len(idle') \in {Len(idle), Len(idle) + 1}
    BY <1>7, AppendProperties DEF UseAndRelease, TypeOK
  <2>2. QED
    BY <1>7, <1>0, <2>1 DEF UseAndRelease
<1>8. ASSUME NEW c \in Conns, PeerClose(c) PROVE CapacityBound'
  BY <1>8 DEF PeerClose
<1>9. ASSUME Cleanup PROVE CapacityBound'
  <2>1. PICK k \in 1..Len(idle) : idle' = SubSeq(idle, Removable(k) + 1, Len(idle))
    BY <1>9 DEF Cleanup
  <2>2. Removable(k) \in 0..Len(idle) /\ Len(idle') = Len(idle) - Removable(k)
    BY <2>1, RemovableType, Suffix DEF TypeOK
  <2>3. active' = active
    BY <1>9 DEF Cleanup
  <2>4. QED
    BY <1>0, <2>2, <2>3
<1>10. ASSUME CleanerExit PROVE CapacityBound'
  BY <1>10 DEF CleanerExit
<1>11. ASSUME StopBegin PROVE CapacityBound'
  BY <1>11 DEF StopBegin
<1>12. ASSUME StopClose PROVE CapacityBound'
  BY <1>12 DEF StopClose
<1>13. ASSUME StopNotify PROVE CapacityBound'
  BY <1>13 DEF StopNotify
<1>14. ASSUME StopDrain PROVE CapacityBound'
  <2>1. Len(idle') = 0
    BY <1>14, EmptySeq DEF StopDrain
  <2>2. QED
    BY <1>14, <1>0, <2>1 DEF StopDrain
<1>15. ASSUME UNCHANGED connVars PROVE CapacityBound'
  BY <1>15 DEF connVars
<1>16. QED
  BY <1>1, <1>2, <1>3, <1>4, <1>5, <1>6, <1>7, <1>8, <1>9, <1>10, <1>11,
     <1>12, <1>13, <1>14, <1>15
     DEF Next, CreateStep, Release, StopStep

\* Idle and active connections together never exceed config.MaxConnections.
THEOREM ConnectionsBounded == Spec => []CapacityBound
<1>1. Init => CapacityBound
  BY EmptySeq, ConnectionPoolAssumption DEF Init, CapacityBound
<1>2. QED
  BY <1>1, TypeCorrect, StepCapacity, PTL DEF Spec

-----------------------------------------------------------------------------
(* Wakeups of the last resort.  A waiter cannot be left with nobody to wake *)
(* it: a release puts a token down before active reaches 0 for good, and    *)
(* whoever takes the token or fails to dial is awake until it has passed    *)
(* the token on or raised active.                                           *)

Waiting == \E u \in Users : pc[u] = "waiting"
WakeupUnderWay == available = 1 \/ \E u \in Users : pc[u] \in {"woken", "failed"}

\* Every step leaves somebody to wake a waiter when no slot is taken.
LEMMA StepWakes ==
    TypeOK /\ ActiveAgrees /\ LastReleaseWakes /\ [Next]_connVars => LastReleaseWakes'
<1> SUFFICES ASSUME TypeOK, ActiveAgrees, LastReleaseWakes, [Next]_connVars,
                    ~stopped', active' = 0, Waiting'
             PROVE  WakeupUnderWay'
  BY DEF LastReleaseWakes, Waiting, WakeupUnderWay
<1>0. active \in Nat /\ MaxConnections \in Nat \ {0}
  BY SlotsType, ConnectionPoolAssumption DEF ActiveAgrees
<1>00. ~stopped /\ active = 0 /\ Waiting => WakeupUnderWay
  BY DEF LastReleaseWakes, Waiting, WakeupUnderWay
<1> USE DEF Waiting, WakeupUnderWay
<1>1. ASSUME NEW u \in Users, AcquireLocked(u) PROVE WakeupUnderWay'
  <2>1. active' > 0
    BY <1>1, <1>0 DEF AcquireLocked, PopIdle, ReserveSlot, AtCapacity
  <2>2. QED
    BY <2>1
<1>2. ASSUME NEW u \in Users, AcquireError(u) PROVE WakeupUnderWay'
  BY <1>2, <1>00 DEF AcquireError, TypeOK
<1>3. ASSUME NEW u \in Users, CreateOk(u) PROVE WakeupUnderWay'
  <2>1. u \in Slots /\ active = 0
    BY <1>3 DEF CreateOk, Slots
  <2>2. QED
    BY <2>1, SlotsType, FS_EmptySet DEF ActiveAgrees
<1>4. ASSUME NEW u \in Users, CreateFail(u) PROVE WakeupUnderWay'
  BY <1>4 DEF CreateFail, TypeOK
<1>5. ASSUME NEW u \in Users, CreateNotify(u) PROVE WakeupUnderWay'
  BY <1>5 DEF CreateNotify
<1>6. ASSUME NEW u \in Users, TakeToken(u) PROVE WakeupUnderWay'
  BY <1>6 DEF TakeToken, TypeOK
<1>7. ASSUME NEW u \in Users, NEW b \in BOOLEAN, UseAndRelease(u, b) PROVE WakeupUnderWay'
  BY <1>7 DEF UseAndRelease
<1>8. ASSUME NEW c \in Conns, PeerClose(c) PROVE WakeupUnderWay'
  BY <1>8, <1>00 DEF PeerClose
<1>9. ASSUME Cleanup PROVE WakeupUnderWay'
  BY <1>9, <1>00 DEF Cleanup
<1>10. ASSUME CleanerExit PROVE WakeupUnderWay'
  BY <1>10, <1>00 DEF CleanerExit
<1>11. ASSUME StopBegin PROVE WakeupUnderWay'
  BY <1>11, <1>00 DEF StopBegin
<1>12. ASSUME StopClose PROVE WakeupUnderWay'
  BY <1>12, <1>00 DEF StopClose
<1>13. ASSUME StopNotify PROVE WakeupUnderWay'
  BY <1>13, <1>00 DEF StopNotify
<1>14. ASSUME StopDrain PROVE WakeupUnderWay'
  BY <1>14, <1>00 DEF StopDrain
<1>15. ASSUME UNCHANGED connVars PROVE WakeupUnderWay'
  BY <1>15, <1>00 DEF connVars
<1>16. QED
  BY <1>1, <1>2, <1>3, <1>4, <1>5, <1>6, <1>7, <1>8, <1>9, <1>10, <1>11,
     <1>12, <1>13, <1>14, <1>15
     DEF Next, CreateStep, Release, StopStep

\* When the last slot has been given back and a caller waits, a token is
\* there, or a caller is awake or about to offer one.
THEOREM WaiterNotStranded == Spec => []LastReleaseWakes
<1>1. Init => LastReleaseWakes
  BY DEF Init, LastReleaseWakes
<1>2. QED
  BY <1>1, TypeCorrect, CounterExact, StepWakes, PTL DEF Spec

-----------------------------------------------------------------------------
(* Ownership.  Exclusive and NoLeak hold together or not at all: a new      *)
(* connection has no owner because it was closed, and a closed one has none *)
(* because every owner's connection is open.                                *)

Owned == Exclusive /\ NoLeak

\* The callers and the idle list after a step, restated for each connection.
LEMMA ValidIdle ==
    ASSUME TypeOK, Owned
    PROVE  \A i \in DOMAIN idle : idle[i] \in Conns /\ IsValid(idle[i])
BY IdleElements DEF Owned, NoLeak, InIdle, IsValid

\* So the loop of Acquire never meets an invalid connection: it takes the
\* last one, and finds nothing only when the list is empty.
LEMMA PopsLast ==
    ASSUME TypeOK, Owned, NEW u \in Users, PopIdle(u)
    PROVE  /\ Len(idle) \in Nat \ {0}
           /\ idle[Len(idle)] \in Conns
           /\ held' = [held EXCEPT ![u] = idle[Len(idle)]]
           /\ idle' = SubSeq(idle, 1, Len(idle) - 1)
<1>1. PICK i \in DOMAIN idle :
        /\ \A j \in DOMAIN idle : j > i => ~IsValid(idle[j])
        /\ held' = [held EXCEPT ![u] = idle[i]]
        /\ idle' = SubSeq(idle, 1, i - 1)
  BY DEF PopIdle
<1>2. i \in 1..Len(idle) /\ Len(idle) \in Nat /\ Len(idle) \in DOMAIN idle
  BY IdleElements
<1>3. i = Len(idle)
  BY <1>1, <1>2, ValidIdle
<1>4. QED
  BY <1>1, <1>2, <1>3, ValidIdle

\* When the loop of Acquire finds nothing the list was empty: nothing is dropped.
LEMMA NothingMeansEmpty ==
    ASSUME TypeOK, Owned, NothingIdle
    PROVE  idle = <<>>
<1>1. Len(idle) \in Nat /\ DOMAIN idle = {}
  BY IdleElements, ValidIdle DEF NothingIdle
<1>2. Len(idle) = 0
  BY <1>1, IdleElements
<1>3. QED
  BY <1>2, EmptySeq DEF TypeOK

\* Every step keeps one owner per open connection and none for a closed one.
LEMMA StepOwned == TypeOK /\ Owned /\ [Next]_connVars => Owned'
<1> SUFFICES ASSUME TypeOK, Owned, [Next]_connVars PROVE Owned'
  OBVIOUS
<1> USE ConnectionPoolAssumption
<1>0. /\ Len(idle) \in Nat
      /\ DOMAIN idle = 1..Len(idle)
      /\ \A i \in DOMAIN idle : idle[i] \in Conns
  BY IdleElements
\* What the steps that leave the three variables alone have in common.
<1>00. ASSUME UNCHANGED <<idle, link, held>> PROVE Owned'
  BY <1>00 DEF Owned, Exclusive, NoLeak, InIdle
<1>1. ASSUME NEW u \in Users, AcquireLocked(u) PROVE Owned'
  <2>1. CASE PopIdle(u)
    <3> DEFINE n == Len(idle)
    <3>1. /\ n \in Nat \ {0}
          /\ idle[n] \in Conns
          /\ held' = [held EXCEPT ![u] = idle[n]]
          /\ idle' = SubSeq(idle, 1, n - 1)
      BY <2>1, PopsLast
    <3>2. /\ Len(idle') = n - 1
          /\ DOMAIN idle' = 1..(n - 1)
          /\ \A i \in 1..(n - 1) : idle'[i] = idle[i]
      <4>1. n - 1 \in 0..n /\ idle \in Seq(Conns)
        BY <3>1 DEF TypeOK
      <4>2. /\ idle' \in Seq(Conns) /\ Len(idle') = n - 1
            /\ \A i \in 1..(n - 1) : idle'[i] = idle[i]
        BY <3>1, <4>1, Prefix
      <4>3. QED
        BY <4>2, LenProperties
    <3>3. link' = link /\ held[u] \notin Conns
      BY <1>1 DEF AcquireLocked, TypeOK
    <3>4. \A c \in Conns : InIdle(c) <=> InIdle(c)' \/ c = idle[n]
      <4>1. \A i \in DOMAIN idle : i = n \/ i \in DOMAIN idle'
        BY <1>0, <3>1, <3>2
      <4>2. \A i \in DOMAIN idle' : i \in DOMAIN idle /\ idle'[i] = idle[i]
        BY <1>0, <3>1, <3>2
      <4>3. n \in DOMAIN idle
        BY <1>0, <3>1
      <4>4. QED
        BY <4>1, <4>2, <4>3 DEF InIdle
    <3>5. \A c \in Conns : (\E v \in Users : held'[v] = c)
                              <=> (\E v \in Users : held[v] = c) \/ c = idle[n]
      BY <3>1, <3>3 DEF TypeOK
    <3>6. NoLeak'
      BY <3>3, <3>4, <3>5 DEF Owned, NoLeak
    <3>7. Exclusive'
      <4>1. \A i, j \in 1..(n - 1) : idle[i] = idle[j] => i = j
        BY <1>0, <3>1 DEF Owned, Exclusive
      <4>2. \A i \in 1..(n - 1) : idle[i] # idle[n] /\ \A v \in Users : held[v] # idle[i]
        BY <1>0, <3>1 DEF Owned, Exclusive
      <4>3. \A v \in Users : held[v] # idle[n]
        BY <1>0, <3>1 DEF Owned, Exclusive
      <4>4. \A v, z \in Users : v # z /\ held[v] \in Conns => held[v] # held[z]
        BY DEF Owned, Exclusive
      <4>5. \A v \in Users : held'[v] = IF v = u THEN idle[n] ELSE held[v]
        BY <3>1 DEF TypeOK
      <4>6. \A i, j \in DOMAIN idle' : idle'[i] = idle'[j] => i = j
        BY <3>2, <4>1
      <4>7. \A v \in Users : \A i \in DOMAIN idle' : held'[v] # idle'[i]
        BY <3>2, <4>2, <4>5
      <4>8. \A v, z \in Users : v # z /\ held'[v] \in Conns => held'[v] # held'[z]
        BY <4>3, <4>4, <4>5
      <4>9. QED
        BY <4>6, <4>7, <4>8 DEF Exclusive
    <3>8. QED
      BY <3>6, <3>7 DEF Owned
  <2>2. CASE ReserveSlot(u)
    <3>1. idle = <<>>
      BY <2>2, NothingMeansEmpty DEF ReserveSlot
    <3>2. QED
      BY <1>1, <1>00, <2>2, <3>1 DEF AcquireLocked, ReserveSlot
  <2>3. CASE AtCapacity(u)
    <3>1. idle = <<>>
      BY <2>3, NothingMeansEmpty DEF AtCapacity
    <3>2. QED
      BY <1>1, <1>00, <2>3, <3>1 DEF AcquireLocked, AtCapacity
  <2>4. QED
    BY <1>1, <2>1, <2>2, <2>3 DEF AcquireLocked
<1>2. ASSUME NEW u \in Users, AcquireError(u) PROVE Owned'
  BY <1>2, <1>00 DEF AcquireError
<1>3. ASSUME NEW u \in Users, CreateOk(u) PROVE Owned'
  <2>1. PICK c \in Conns :
          /\ link[c] = "none"
          /\ link' = [link EXCEPT ![c] = "open"]
          /\ held' = [held EXCEPT ![u] = c]
    BY <1>3 DEF CreateOk
  <2>2. idle' = idle /\ held[u] \notin Conns
    BY <1>3 DEF CreateOk, TypeOK
  <2>3. ~InIdle(c) /\ \A v \in Users : held[v] # c
    BY <2>1 DEF Owned, NoLeak
  <2>4. \A v \in Users : held'[v] = IF v = u THEN c ELSE held[v]
    BY <2>1 DEF TypeOK
  <2>5. Exclusive'
    BY <2>2, <2>3, <2>4 DEF Owned, Exclusive, InIdle
  <2>6. NoLeak'
    <3>1. \A d \in Conns : InIdle(d)' <=> InIdle(d)
      BY <2>2 DEF InIdle
    <3>2. \A d \in Conns : (\E v \in Users : held'[v] = d)
                              <=> (\E v \in Users : held[v] = d) \/ d = c
      BY <2>2, <2>4
    <3>3. \A d \in Conns : link'[d] # "none" <=> link[d] # "none" \/ d = c
      BY <2>1 DEF TypeOK
    <3>4. QED
      BY <3>1, <3>2, <3>3 DEF Owned, NoLeak
  <2>7. QED
    BY <2>5, <2>6 DEF Owned
<1>4. ASSUME NEW u \in Users, CreateFail(u) PROVE Owned'
  BY <1>4, <1>00 DEF CreateFail
<1>5. ASSUME NEW u \in Users, CreateNotify(u) PROVE Owned'
  BY <1>5, <1>00 DEF CreateNotify
<1>6. ASSUME NEW u \in Users, TakeToken(u) PROVE Owned'
  BY <1>6, <1>00 DEF TakeToken
<1>7. ASSUME NEW u \in Users, NEW b \in BOOLEAN, UseAndRelease(u, b) PROVE Owned'
  <2>1. held[u] \in Conns /\ held' = [held EXCEPT ![u] = NoConn]
    BY <1>7 DEF UseAndRelease, TypeOK
  <2>2. \A v \in Users : held'[v] = IF v = u THEN NoConn ELSE held[v]
    BY <2>1 DEF TypeOK
  <2>3. ~InIdle(held[u]) /\ \A v \in Users \ {u} : held[v] # held[u]
    BY <2>1 DEF Owned, Exclusive, InIdle
  <2>4. \A c \in Conns : (\E v \in Users : held'[v] = c)
                            <=> (\E v \in Users : held[v] = c) /\ c # held[u]
    BY <2>1, <2>2, <2>3
  <2>5. CASE link' = [link EXCEPT ![held[u]] = "none"] /\ idle' = idle
    <3>1. Exclusive'
      BY <2>1, <2>2, <2>5, <1>0 DEF Owned, Exclusive
    <3>2. \A c \in Conns : link'[c] # "none" <=> link[c] # "none" /\ c # held[u]
      BY <2>1, <2>5 DEF TypeOK
    <3>3. \A c \in Conns : InIdle(c)' <=> InIdle(c)
      BY <2>5 DEF InIdle
    <3>4. NoLeak'
      BY <2>3, <2>4, <3>2, <3>3 DEF Owned, NoLeak
    <3>5. QED
      BY <3>1, <3>4 DEF Owned
  <2>6. CASE link' = link /\ idle' = Append(idle, held[u])
    <3> DEFINE n == Len(idle)
    <3>1. /\ Len(idle') = n + 1
          /\ DOMAIN idle' = 1..(n + 1)
          /\ \A i \in 1..n : idle'[i] = idle[i]
          /\ idle'[n + 1] = held[u]
      BY <2>1, <2>6, AppendProperties, LenProperties DEF TypeOK
    <3>2. \A c \in Conns : InIdle(c)' <=> InIdle(c) \/ c = held[u]
      BY <1>0, <3>1 DEF InIdle
    <3>3. NoLeak'
      BY <2>1, <2>3, <2>4, <2>6, <3>2 DEF Owned, NoLeak
    <3>4. Exclusive'
      <4>1. \A i \in 1..n : idle[i] # held[u]
        BY <1>0, <2>3 DEF InIdle
      <4>2. \A i, j \in DOMAIN idle' : idle'[i] = idle'[j] => i = j
        BY <1>0, <3>1, <4>1 DEF Owned, Exclusive
      <4>3. \A v \in Users \ {u} : \A i \in 1..n : held[v] # idle[i]
        BY <1>0 DEF Owned, Exclusive
      <4>4. \A i \in 1..(n + 1) : idle'[i] \in Conns
        BY <1>0, <2>1, <3>1
      <4>5. \A v \in Users : \A i \in DOMAIN idle' : held'[v] # idle'[i]
        BY <1>0, <2>2, <2>3, <3>1, <4>3, <4>4
      <4>6. \A v, z \in Users : v # z /\ held'[v] \in Conns => held'[v] # held'[z]
        BY <2>2 DEF Owned, Exclusive
      <4>7. QED
        BY <4>2, <4>5, <4>6 DEF Exclusive
    <3>5. QED
      BY <3>3, <3>4 DEF Owned
  <2>7. QED
    BY <1>7, <2>5, <2>6 DEF UseAndRelease
<1>8. ASSUME NEW c \in Conns, PeerClose(c) PROVE Owned'
  <2>1. UNCHANGED <<idle, held>> /\ \A d \in Conns : link'[d] # "none" <=> link[d] # "none"
    BY <1>8 DEF PeerClose, TypeOK
  <2>2. QED
    BY <2>1 DEF Owned, Exclusive, NoLeak, InIdle
<1>9. ASSUME Cleanup PROVE Owned'
  <2>1. PICK k \in 1..Len(idle) :
          /\ idle' = SubSeq(idle, Removable(k) + 1, Len(idle))
          /\ link' = [c \in Conns |-> IF \E i \in 1..Removable(k) : idle[i] = c
                                      THEN "none" ELSE link[c]]
    BY <1>9 DEF Cleanup
  <2>2. held' = held
    BY <1>9 DEF Cleanup
  <2>3. PICK m \in 0..Len(idle) : m = Removable(k)
    BY <2>1, RemovableType
  <2> DEFINE n == Len(idle)
  <2>4. /\ DOMAIN idle' = 1..(n - m)
        /\ \A i \in 1..(n - m) : idle'[i] = idle[m + i]
    BY <2>1, <2>3, Suffix, LenProperties DEF TypeOK
  <2>5. Exclusive'
    <3>1. \A i, j \in 1..(n - m) : idle'[i] = idle'[j] => m + i = m + j
      BY <1>0, <2>4 DEF Owned, Exclusive
    <3>2. \A v \in Users : \A i \in 1..(n - m) : held[v] # idle'[i]
      BY <1>0, <2>4 DEF Owned, Exclusive
    <3>3. QED
      BY <1>0, <2>2, <2>4, <3>1, <3>2 DEF Owned, Exclusive
  <2>6. NoLeak'
    <3> SUFFICES ASSUME NEW c \in Conns
                 PROVE  link'[c] # "none" <=> InIdle(c)' \/ \E v \in Users : held'[v] = c
      BY DEF NoLeak
    <3>1. CASE \E i \in 1..m : idle[i] = c
      <4>1. PICK i \in 1..m : idle[i] = c
        BY <3>1
      <4>2. link'[c] = "none"
        BY <2>1, <2>3, <4>1
      <4>3. ~InIdle(c)'
        BY <1>0, <2>4, <4>1, SMTT(30) DEF Owned, Exclusive, InIdle
      <4>4. \A v \in Users : held'[v] # c
        BY <1>0, <2>2, <4>1 DEF Owned, Exclusive
      <4>5. QED
        BY <4>2, <4>3, <4>4
    <3>2. CASE ~\E i \in 1..m : idle[i] = c
      <4>1. link'[c] = link[c]
        BY <2>1, <2>3, <3>2
      <4>2. InIdle(c)' <=> InIdle(c)
        <5>1. \A i \in (m + 1)..n : i - m \in 1..(n - m) /\ idle'[i - m] = idle[i]
          BY <1>0, <2>4
        <5>2. \A i \in DOMAIN idle : i \in 1..m \/ i \in (m + 1)..n
          BY <1>0
        <5>3. \A i \in 1..(n - m) : m + i \in DOMAIN idle /\ idle'[i] = idle[m + i]
          BY <1>0, <2>4
        <5>4. InIdle(c) => InIdle(c)'
          <6> SUFFICES ASSUME NEW i \in DOMAIN idle, idle[i] = c
                       PROVE  \E j \in DOMAIN idle' : idle'[j] = c
            BY DEF InIdle
          <6>1. i \in (m + 1)..n
            BY <3>2, <5>2
          <6>2. QED
            BY <2>4, <5>1, <6>1
        <5>5. InIdle(c)' => InIdle(c)
          BY <2>4, <5>3 DEF InIdle
        <5>6. QED
          BY <5>4, <5>5
      <4>3. QED
        BY <2>2, <4>1, <4>2 DEF Owned, NoLeak
    <3>3. QED
      BY <3>1, <3>2
  <2>7. QED
    BY <2>5, <2>6 DEF Owned
<1>10. ASSUME CleanerExit PROVE Owned'
  BY <1>10, <1>00 DEF CleanerExit
<1>11. ASSUME StopBegin PROVE Owned'
  BY <1>11, <1>00 DEF StopBegin
<1>12. ASSUME StopClose PROVE Owned'
  BY <1>12, <1>00 DEF StopClose
<1>13. ASSUME StopNotify PROVE Owned'
  BY <1>13, <1>00 DEF StopNotify
<1>14. ASSUME StopDrain PROVE Owned'
  <2>1. /\ idle' = <<>> /\ held' = held
        /\ link' = [c \in Conns |-> IF InIdle(c) THEN "none" ELSE link[c]]
    BY <1>14 DEF StopDrain
  <2>2. DOMAIN idle' = {}
    BY <2>1
  <2>3. Exclusive'
    BY <2>1, <2>2 DEF Owned, Exclusive
  <2>4. \A c \in Conns : InIdle(c) => \A v \in Users : held[v] # c
    BY DEF Owned, Exclusive, InIdle
  <2>5. NoLeak'
    BY <2>1, <2>2, <2>4 DEF Owned, NoLeak, InIdle
  <2>6. QED
    BY <2>3, <2>5 DEF Owned
<1>15. ASSUME UNCHANGED connVars PROVE Owned'
  BY <1>15, <1>00 DEF connVars
<1>16. QED
  BY <1>1, <1>2, <1>3, <1>4, <1>5, <1>6, <1>7, <1>8, <1>9, <1>10, <1>11,
     <1>12, <1>13, <1>14, <1>15
     DEF Next, CreateStep, Release, StopStep

\* Initially every connection is closed and has no owner.
LEMMA InitOwned == Init => Owned
<1> SUFFICES ASSUME Init PROVE Owned
  OBVIOUS
<1>1. DOMAIN idle = {}
  BY DEF Init
<1>2. QED
  BY <1>1, ConnectionPoolAssumption DEF Init, Owned, Exclusive, NoLeak, InIdle

\* A connection is in the idle list once or held by one caller, never both.
THEOREM OneOwner == Spec => []Exclusive
<1>1. Owned => Exclusive
  BY DEF Owned
<1>2. QED
  BY <1>1, InitOwned, TypeCorrect, StepOwned, PTL DEF Spec

\* A connection that is not closed is idle or held, and the other way round.
THEOREM NothingLost == Spec => []NoLeak
<1>1. Owned => NoLeak
  BY DEF Owned
<1>2. QED
  BY <1>1, InitOwned, TypeCorrect, StepOwned, PTL DEF Spec

-----------------------------------------------------------------------------
(* Stop.  p.stopped is set before the list is drained, and both Acquire and *)
(* Release look at it under mu.                                             *)

DrainedStaysEmpty ==
    /\ stopped <=> stopper # "off"
    /\ stopper = "done" => idle = <<>>

\* Every step keeps the idle list empty once Stop is done.
LEMMA StepDrained == TypeOK /\ DrainedStaysEmpty /\ [Next]_connVars => DrainedStaysEmpty'
<1> SUFFICES ASSUME TypeOK, DrainedStaysEmpty, [Next]_connVars PROVE DrainedStaysEmpty'
  OBVIOUS
<1> USE DEF DrainedStaysEmpty
<1>1. ASSUME NEW u \in Users, AcquireLocked(u) PROVE DrainedStaysEmpty'
  BY <1>1 DEF AcquireLocked
<1>2. ASSUME NEW u \in Users, AcquireError(u) PROVE DrainedStaysEmpty'
  BY <1>2 DEF AcquireError
<1>3. ASSUME NEW u \in Users, CreateOk(u) PROVE DrainedStaysEmpty'
  BY <1>3 DEF CreateOk
<1>4. ASSUME NEW u \in Users, CreateFail(u) PROVE DrainedStaysEmpty'
  BY <1>4 DEF CreateFail
<1>5. ASSUME NEW u \in Users, CreateNotify(u) PROVE DrainedStaysEmpty'
  BY <1>5 DEF CreateNotify
<1>6. ASSUME NEW u \in Users, TakeToken(u) PROVE DrainedStaysEmpty'
  BY <1>6 DEF TakeToken
<1>7. ASSUME NEW u \in Users, NEW b \in BOOLEAN, UseAndRelease(u, b) PROVE DrainedStaysEmpty'
  BY <1>7 DEF UseAndRelease
<1>8. ASSUME NEW c \in Conns, PeerClose(c) PROVE DrainedStaysEmpty'
  BY <1>8 DEF PeerClose
<1>9. ASSUME Cleanup PROVE DrainedStaysEmpty'
  <2>1. PICK k \in 1..Len(idle) : idle' = SubSeq(idle, Removable(k) + 1, Len(idle))
    BY <1>9 DEF Cleanup
  <2>2. idle # <<>> /\ UNCHANGED <<stopped, stopper>>
    BY <1>9, <2>1 DEF Cleanup
  <2>3. QED
    BY <2>2
<1>10. ASSUME CleanerExit PROVE DrainedStaysEmpty'
  BY <1>10 DEF CleanerExit
<1>11. ASSUME StopBegin PROVE DrainedStaysEmpty'
  BY <1>11 DEF StopBegin
<1>12. ASSUME StopClose PROVE DrainedStaysEmpty'
  BY <1>12 DEF StopClose
<1>13. ASSUME StopNotify PROVE DrainedStaysEmpty'
  BY <1>13 DEF StopNotify
<1>14. ASSUME StopDrain PROVE DrainedStaysEmpty'
  BY <1>14 DEF StopDrain
<1>15. ASSUME UNCHANGED connVars PROVE DrainedStaysEmpty'
  BY <1>15 DEF connVars
<1>16. QED
  BY <1>1, <1>2, <1>3, <1>4, <1>5, <1>6, <1>7, <1>8, <1>9, <1>10, <1>11,
     <1>12, <1>13, <1>14, <1>15
     DEF Next, CreateStep, Release, StopStep

\* Nothing is left in, or returns to, the idle list once Stop has drained it.
THEOREM StopLeavesNothingIdle == Spec => []NothingIdleAfterStop
<1>1. Init => DrainedStaysEmpty
  BY DEF Init, DrainedStaysEmpty
<1>2. DrainedStaysEmpty => NothingIdleAfterStop
  BY DEF DrainedStaysEmpty, NothingIdleAfterStop
<1>3. QED
  BY <1>1, <1>2, TypeCorrect, StepDrained, PTL DEF Spec
=============================================================================
