------------------------- MODULE CoroutinePool_proofs -------------------------
(***************************************************************************)
(* Proofs about CoroutinePool, for any number of tasks and workers and any *)
(* configuration: the types, the bound of the backlog, that nothing is     *)
(* running once Stop has returned, that no wakeup is lost between          *)
(* EnqueueWithPriority and workerLoop, what queueSize counts, and that the *)
(* pool implements TaskPool.                                               *)
(***************************************************************************)
EXTENDS CoroutinePool, TLAPS, FiniteSetTheorems, FunctionTheorems, SequenceTheorems

\* An out-of-range priority falls back on the medium queue.
LEMMA QueueOfType == \A t \in Tasks : QueueOf(t) \in Priorities
BY DEF QueueOf, Priorities, Medium

-----------------------------------------------------------------------------
(* Type correctness.                                                        *)

(* TypeOK is not inductive without the remark that nothing runs before       *)
(* InitWithConfig, which hands out worker identities.                       *)

QuietWhenIdle ==
    state = "Idle" => scaler = "off" /\ \A w \in Workers : wpc[w] = "off"

TypeInv == TypeOK /\ QuietWhenIdle

\* NewCoroutinePool establishes the types, and nothing runs yet.
LEMMA InitTypes == Init => TypeInv
<1> SUFFICES ASSUME Init PROVE TypeInv
  OBVIOUS
<1>1. queue \in [Priorities -> Seq(Tasks)]
  BY EmptySeq DEF Init
<1>2. /\ wtask \in [Workers -> Tasks \union {NoTask}]
      /\ \A w \in Workers : wtask[w] \in Tasks <=> wpc[w] \in {"took", "run"}
  BY PoolAssumption DEF Init
<1>3. /\ wpc \in [Workers -> {"off", "top", "lock", "wait", "woken", "took", "run"}]
      /\ tpc \in [Tasks -> {"new", "checked", "appended", "signalled", "accepted",
                            "rejected", "inlined"}]
      /\ QuietWhenIdle
  BY DEF Init, QuietWhenIdle
<1>4. /\ state \in {"Idle", "Running", "Stopping", "Stopped"}
      /\ spc \in {"idle", "close", "drain", "discard", "join", "done"}
      /\ scaler \in {"off", "waiting", "adding"}
  BY DEF Init
<1>5. queueSize \in Int /\ toAdd \in Nat /\ started \subseteq Tasks
  BY DEF Init
<1>6. stopClosed \in BOOLEAN /\ allNil \in BOOLEAN /\ waitFor \in BOOLEAN
  BY DEF Init
<1>7. QED
  BY <1>1, <1>2, <1>3, <1>4, <1>5, <1>6 DEF TypeInv, TypeOK

\* Pushing onto and popping from a queue.
LEMMA PushTypes ==
    ASSUME TypeOK, NEW t \in Tasks
    PROVE  [queue EXCEPT ![QueueOf(t)] = Append(@, t)] \in [Priorities -> Seq(Tasks)]
BY QueueOfType, AppendProperties DEF TypeOK

\* The pop of workerLoop yields a task and leaves a queue of tasks.
LEMMA PopTypes ==
    ASSUME TypeOK, NEW p \in Priorities, queue[p] # <<>>
    PROVE  /\ Head(queue[p]) \in Tasks
           /\ [queue EXCEPT ![p] = Tail(@)] \in [Priorities -> Seq(Tasks)]
BY HeadTailProperties DEF TypeOK

\* Every step of workers, submitters, Stop and the scaling loop keeps them.
LEMMA StepTypes == TypeInv /\ [Next]_poolVars => TypeInv'
<1> SUFFICES ASSUME TypeInv, [Next]_poolVars PROVE TypeInv'
  OBVIOUS
<1> USE PoolAssumption DEF TypeInv, QuietWhenIdle
<1>1. ASSUME NEW w \in Workers, WorkerTop(w) PROVE TypeInv'
  BY <1>1 DEF WorkerTop, TypeOK
<1>2. ASSUME NEW w \in Workers, WorkerExit(w) PROVE TypeInv'
  BY <1>2 DEF WorkerExit, TypeOK
<1>3. ASSUME NEW w \in Workers, WorkerWait(w) PROVE TypeInv'
  BY <1>3 DEF WorkerWait, TypeOK
<1>4. ASSUME NEW w \in Workers, WorkerTake(w) PROVE TypeInv'
  <2>1. PICK p \in Priorities :
          /\ queue[p] # <<>>
          /\ wtask' = [wtask EXCEPT ![w] = Head(queue[p])]
          /\ queue' = [queue EXCEPT ![p] = Tail(@)]
    BY <1>4 DEF WorkerTake
  <2>2. QED
    BY <1>4, <2>1, PopTypes DEF WorkerTake, TypeOK
<1>5. ASSUME NEW w \in Workers, WorkerRun(w) PROVE TypeInv'
  BY <1>5 DEF WorkerRun, TypeOK
<1>6. ASSUME NEW w \in Workers, WorkerFinish(w) PROVE TypeInv'
  BY <1>6 DEF WorkerFinish, TypeOK
<1>7. ASSUME NEW t \in Tasks, EnqueueCheck(t) PROVE TypeInv'
  BY <1>7 DEF EnqueueCheck, Refused, TypeOK
<1>8. ASSUME NEW t \in Tasks, EnqueueFull(t) PROVE TypeInv'
  BY <1>8 DEF EnqueueFull, Refused, TypeOK
<1>9. ASSUME NEW t \in Tasks, EnqueueAppend(t) PROVE TypeInv'
  BY <1>9, PushTypes DEF EnqueueAppend, TypeOK
<1>10. ASSUME NEW t \in Tasks, EnqueueSignal(t) PROVE TypeInv'
  BY <1>10, ZenonT(60) DEF EnqueueSignal, At, TypeOK
<1>11. ASSUME NEW t \in Tasks, EnqueueCount(t) PROVE TypeInv'
  BY <1>11 DEF EnqueueCount, TypeOK
<1>12. ASSUME InitPool PROVE TypeInv'
  <2>1. PICK new \in SUBSET Workers :
          wpc' = [w \in Workers |-> IF w \in new THEN "top" ELSE wpc[w]]
    BY <1>12 DEF InitPool
  <2>2. QED
    BY <1>12, <2>1 DEF InitPool, TypeOK
<1>13. ASSUME StopBegin PROVE TypeInv'
  BY <1>13 DEF StopBegin, TypeOK
<1>14. ASSUME StopClose PROVE TypeInv'
  BY <1>14 DEF StopClose, TypeOK
<1>15. ASSUME StopDrained PROVE TypeInv'
  BY <1>15 DEF StopDrained, TypeOK
<1>16. ASSUME StopDiscard PROVE TypeInv'
  <2>1. queue' \in [Priorities -> Seq(Tasks)]
    BY <1>16, EmptySeq DEF StopDiscard
  <2>2. QED
    BY <1>16, <2>1 DEF StopDiscard, TypeOK
<1>17. ASSUME StopJoin PROVE TypeInv'
  BY <1>17 DEF StopJoin, TypeOK
<1>18. ASSUME ScalerCheck PROVE TypeInv'
  <2>1. Cardinality(Live) \in Nat
    BY FS_Subset, FS_CardinalityType DEF Live
  <2>2. toAdd' \in Nat /\ scaler' \in {"off", "waiting", "adding"}
    BY <1>18, <2>1 DEF ScalerCheck, TypeOK
  <2>3. QED
    BY <1>18, <2>2 DEF ScalerCheck, TypeOK
<1>19. ASSUME ScalerAdd PROVE TypeInv'
  <2>1. PICK new \in SUBSET (Workers \ Live) :
          wpc' = [w \in Workers |-> IF w \in new THEN "top" ELSE wpc[w]]
    BY <1>19 DEF ScalerAdd
  <2>2. QED
    BY <1>19, <2>1 DEF ScalerAdd, Live, TypeOK
<1>20. ASSUME ScalerExit PROVE TypeInv'
  BY <1>20 DEF ScalerExit, TypeOK
<1>21. ASSUME UNCHANGED poolVars PROVE TypeInv'
  BY <1>21 DEF poolVars, TypeOK
<1>22. QED
  BY <1>1, <1>2, <1>3, <1>4, <1>5, <1>6, <1>7, <1>8, <1>9, <1>10, <1>11,
     <1>12, <1>13, <1>14, <1>15, <1>16, <1>17, <1>18, <1>19, <1>20, <1>21
     DEF Next, WorkerStep, SubmitStep, StopStep, ScalerStep

\* In every reachable state the variables keep their types.
THEOREM TypeCorrect == Spec => []TypeOK
<1>1. TypeInv => TypeOK
  BY DEF TypeInv
<1>2. QED
  BY <1>1, InitTypes, StepTypes, PTL DEF Spec

-----------------------------------------------------------------------------
(* The backlog.  CapacityRespected is inductive given the types: the one    *)
(* append happens in the critical section that tests Total.                 *)

\* The sum of the three lengths is a natural number.
LEMMA TotalType == TypeOK => Total \in Nat
BY LenProperties DEF TypeOK, Total, Priorities

\* A queue that grows by d makes Total grow by d.
LEMMA TotalChange ==
    ASSUME NEW p \in Priorities, NEW d \in Int,
           \A q \in Priorities : Len(queue[q]) \in Nat,
           \A q \in Priorities : Len(queue'[q]) = IF q = p THEN Len(queue[q]) + d ELSE Len(queue[q])
    PROVE  Total' = Total + d
<1>1. Low \in Priorities /\ Medium \in Priorities /\ High \in Priorities
  BY DEF Priorities
<1>2. Low # Medium /\ Low # High /\ Medium # High
  BY DEF Low, Medium, High
<1>3. PICK a \in Nat, b \in Nat, c \in Nat :
        a = Len(queue[Low]) /\ b = Len(queue[Medium]) /\ c = Len(queue[High])
  BY <1>1
<1>4. Total = a + b + c
  BY <1>3 DEF Total
<1>5. Total' = Len(queue'[Low]) + Len(queue'[Medium]) + Len(queue'[High])
  BY DEF Total
<1>6. CASE p = Low
  <2>1. Len(queue'[Low]) = a + d /\ Len(queue'[Medium]) = b /\ Len(queue'[High]) = c
    BY <1>1, <1>2, <1>3, <1>6
  <2>2. QED
    BY <1>4, <1>5, <2>1
<1>7. CASE p = Medium
  <2>1. Len(queue'[Low]) = a /\ Len(queue'[Medium]) = b + d /\ Len(queue'[High]) = c
    BY <1>1, <1>2, <1>3, <1>7
  <2>2. QED
    BY <1>4, <1>5, <2>1
<1>8. CASE p = High
  <2>1. Len(queue'[Low]) = a /\ Len(queue'[Medium]) = b /\ Len(queue'[High]) = c + d
    BY <1>1, <1>2, <1>3, <1>8
  <2>2. QED
    BY <1>4, <1>5, <2>1
<1>9. QED
  BY <1>6, <1>7, <1>8 DEF Priorities

\* The append of EnqueueWithPriority adds one to Total.
LEMMA PushTotal ==
    ASSUME TypeOK, NEW t \in Tasks,
           queue' = [queue EXCEPT ![QueueOf(t)] = Append(@, t)]
    PROVE  Total' = Total + 1
<1>1. PICK p \in Priorities : p = QueueOf(t)
  BY QueueOfType
<1>2. /\ \A q \in Priorities : Len(queue[q]) \in Nat
      /\ \A q \in Priorities : Len(queue'[q]) = IF q = p THEN Len(queue[q]) + 1 ELSE Len(queue[q])
  BY <1>1, AppendProperties, LenProperties DEF TypeOK
<1>3. QED
  BY <1>2, TotalChange

\* The pop of workerLoop takes one off Total.
LEMMA PopTotal ==
    ASSUME TypeOK, NEW p \in Priorities, queue[p] # <<>>,
           queue' = [queue EXCEPT ![p] = Tail(@)]
    PROVE  Total' = Total - 1
<1>1. /\ \A q \in Priorities : Len(queue[q]) \in Nat
      /\ \A q \in Priorities : Len(queue'[q]) = IF q = p THEN Len(queue[q]) + (-1) ELSE Len(queue[q])
  BY HeadTailProperties, LenProperties DEF TypeOK
<1>2. Total' = Total + (-1)
  BY <1>1, TotalChange
<1>3. QED
  BY <1>2, TotalType

\* The same, as the action WorkerTake.
LEMMA TakePops ==
    ASSUME TypeOK, NEW w \in Workers, WorkerTake(w)
    PROVE  Total' = Total - 1
BY PopTotal DEF WorkerTake

\* Stop sets the three slices to nil.
LEMMA DiscardTotal == StopDiscard => Total' = 0
BY EmptySeq DEF StopDiscard, Total, Priorities, Low, Medium, High

\* The queues start empty.
LEMMA InitTotal == Init => Total = 0
BY EmptySeq DEF Init, Total, Priorities, Low, Medium, High

\* Every step keeps the backlog within Capacity.
LEMMA StepCapacity == TypeOK /\ CapacityRespected /\ [Next]_poolVars => CapacityRespected'
<1> SUFFICES ASSUME TypeOK, CapacityRespected, [Next]_poolVars PROVE CapacityRespected'
  OBVIOUS
<1> USE PoolAssumption, TotalType DEF CapacityRespected
<1>1. ASSUME NEW w \in Workers, WorkerTop(w) PROVE CapacityRespected'
  BY <1>1 DEF WorkerTop, Total
<1>2. ASSUME NEW w \in Workers, WorkerExit(w) PROVE CapacityRespected'
  BY <1>2 DEF WorkerExit, Total
<1>3. ASSUME NEW w \in Workers, WorkerWait(w) PROVE CapacityRespected'
  BY <1>3 DEF WorkerWait, Total
<1>4. ASSUME NEW w \in Workers, WorkerTake(w) PROVE CapacityRespected'
  BY <1>4, TakePops
<1>5. ASSUME NEW w \in Workers, WorkerRun(w) PROVE CapacityRespected'
  BY <1>5 DEF WorkerRun, Total
<1>6. ASSUME NEW w \in Workers, WorkerFinish(w) PROVE CapacityRespected'
  BY <1>6 DEF WorkerFinish, Total
<1>7. ASSUME NEW t \in Tasks, EnqueueCheck(t) PROVE CapacityRespected'
  BY <1>7 DEF EnqueueCheck, Total
<1>8. ASSUME NEW t \in Tasks, EnqueueFull(t) PROVE CapacityRespected'
  BY <1>8 DEF EnqueueFull, Total
<1>9. ASSUME NEW t \in Tasks, EnqueueAppend(t) PROVE CapacityRespected'
  <2>1. Total < Capacity /\ Total' = Total + 1
    BY <1>9, PushTotal DEF EnqueueAppend
  <2>2. QED
    BY <2>1
<1>10. ASSUME NEW t \in Tasks, EnqueueSignal(t) PROVE CapacityRespected'
  BY <1>10 DEF EnqueueSignal, Total
<1>11. ASSUME NEW t \in Tasks, EnqueueCount(t) PROVE CapacityRespected'
  BY <1>11 DEF EnqueueCount, Total
<1>12. ASSUME InitPool PROVE CapacityRespected'
  BY <1>12 DEF InitPool, Total
<1>13. ASSUME StopBegin PROVE CapacityRespected'
  BY <1>13 DEF StopBegin, Total
<1>14. ASSUME StopClose PROVE CapacityRespected'
  BY <1>14 DEF StopClose, Total
<1>15. ASSUME StopDrained PROVE CapacityRespected'
  BY <1>15 DEF StopDrained, Total
<1>16. ASSUME StopDiscard PROVE CapacityRespected'
  BY <1>16, DiscardTotal
<1>17. ASSUME StopJoin PROVE CapacityRespected'
  BY <1>17 DEF StopJoin, Total
<1>18. ASSUME ScalerCheck PROVE CapacityRespected'
  BY <1>18 DEF ScalerCheck, Total
<1>19. ASSUME ScalerAdd PROVE CapacityRespected'
  BY <1>19 DEF ScalerAdd, Total
<1>20. ASSUME ScalerExit PROVE CapacityRespected'
  BY <1>20 DEF ScalerExit, Total
<1>21. ASSUME UNCHANGED poolVars PROVE CapacityRespected'
  BY <1>21 DEF poolVars, Total
<1>22. QED
  BY <1>1, <1>2, <1>3, <1>4, <1>5, <1>6, <1>7, <1>8, <1>9, <1>10, <1>11,
     <1>12, <1>13, <1>14, <1>15, <1>16, <1>17, <1>18, <1>19, <1>20, <1>21
     DEF Next, WorkerStep, SubmitStep, StopStep, ScalerStep

\* The three slices together never hold more than config.InitialQueue tasks.
THEOREM BacklogBounded == Spec => []CapacityRespected
<1>1. Init => CapacityRespected
  BY PoolAssumption, InitTotal DEF CapacityRespected
<1>2. QED
  BY <1>1, TypeCorrect, StepCapacity, PTL DEF Spec

-----------------------------------------------------------------------------
(* Stop.  Where Stop is determines the state and whether stopCh is closed;  *)
(* with stopCh closed a new worker gets no further than the top of its loop. *)

StopInv ==
    /\ state \in {"Idle", "Running"} <=> spc = "idle"
    /\ state = "Stopped" <=> spc = "done"
    /\ spc \in {"drain", "discard", "join", "done"} => stopClosed
    /\ spc = "done" => \A w \in Workers : wpc[w] \in {"off", "top"}

\* Every step keeps the bookkeeping of Stop consistent.
LEMMA StepStop == TypeInv /\ StopInv /\ [Next]_poolVars => StopInv'
<1> SUFFICES ASSUME TypeInv, StopInv, [Next]_poolVars PROVE StopInv'
  OBVIOUS
<1> USE DEF TypeInv, TypeOK, StopInv
<1>1. ASSUME NEW w \in Workers, WorkerTop(w) PROVE StopInv'
  BY <1>1 DEF WorkerTop
<1>2. ASSUME NEW w \in Workers, WorkerExit(w) PROVE StopInv'
  BY <1>2 DEF WorkerExit
<1>3. ASSUME NEW w \in Workers, WorkerWait(w) PROVE StopInv'
  BY <1>3 DEF WorkerWait
<1>4. ASSUME NEW w \in Workers, WorkerTake(w) PROVE StopInv'
  BY <1>4 DEF WorkerTake
<1>5. ASSUME NEW w \in Workers, WorkerRun(w) PROVE StopInv'
  BY <1>5 DEF WorkerRun
<1>6. ASSUME NEW w \in Workers, WorkerFinish(w) PROVE StopInv'
  BY <1>6 DEF WorkerFinish
<1>7. ASSUME NEW t \in Tasks, EnqueueCheck(t) PROVE StopInv'
  BY <1>7 DEF EnqueueCheck
<1>8. ASSUME NEW t \in Tasks, EnqueueFull(t) PROVE StopInv'
  BY <1>8 DEF EnqueueFull
<1>9. ASSUME NEW t \in Tasks, EnqueueAppend(t) PROVE StopInv'
  BY <1>9 DEF EnqueueAppend
<1>10. ASSUME NEW t \in Tasks, EnqueueSignal(t) PROVE StopInv'
  BY <1>10 DEF EnqueueSignal, At
<1>11. ASSUME NEW t \in Tasks, EnqueueCount(t) PROVE StopInv'
  BY <1>11 DEF EnqueueCount
<1>12. ASSUME InitPool PROVE StopInv'
  <2>1. state = "Idle" /\ state' = "Running" /\ spc' = spc
    BY <1>12 DEF InitPool
  <2>2. QED
    BY <2>1
<1>13. ASSUME StopBegin PROVE StopInv'
  BY <1>13 DEF StopBegin
<1>14. ASSUME StopClose PROVE StopInv'
  BY <1>14 DEF StopClose
<1>15. ASSUME StopDrained PROVE StopInv'
  BY <1>15 DEF StopDrained
<1>16. ASSUME StopDiscard PROVE StopInv'
  BY <1>16 DEF StopDiscard
<1>17. ASSUME StopJoin PROVE StopInv'
  BY <1>17 DEF StopJoin, Live
<1>18. ASSUME ScalerCheck PROVE StopInv'
  BY <1>18 DEF ScalerCheck
<1>19. ASSUME ScalerAdd PROVE StopInv'
  <2>1. /\ UNCHANGED <<state, stopClosed, spc>>
        /\ \A w \in Workers : wpc'[w] \in {"top", wpc[w]}
    BY <1>19 DEF ScalerAdd
  <2>2. QED
    BY <2>1
<1>20. ASSUME ScalerExit PROVE StopInv'
  BY <1>20 DEF ScalerExit
<1>21. ASSUME UNCHANGED poolVars PROVE StopInv'
  BY <1>21 DEF poolVars
<1>22. QED
  BY <1>1, <1>2, <1>3, <1>4, <1>5, <1>6, <1>7, <1>8, <1>9, <1>10, <1>11,
     <1>12, <1>13, <1>14, <1>15, <1>16, <1>17, <1>18, <1>19, <1>20, <1>21
     DEF Next, WorkerStep, SubmitStep, StopStep, ScalerStep

\* Once Stop has returned no worker holds a task or can still reach one.
THEOREM StoppedIsQuiet == Spec => []QuietWhenStopped
<1>1. Init => StopInv
  BY DEF Init, StopInv
<1>2. TypeInv /\ StopInv => QuietWhenStopped
  BY DEF TypeInv, TypeOK, StopInv, QuietWhenStopped
<1>3. QED
  BY <1>1, <1>2, InitTypes, StepTypes, StepStop, PTL DEF Spec

-----------------------------------------------------------------------------
(* Wakeups.  An append adds a task and a submitter about to signal; Signal  *)
(* turns such a submitter into a woken worker, unless nobody waits; a woken *)
(* worker that takes a task takes one off both sides; and a worker goes to  *)
(* sleep only when Total is 0.                                              *)

Appended == {t \in Tasks : tpc[t] = "appended"}

\* There are finitely many workers at each label and submitters about to signal.
LEMMA CountTypes ==
    /\ IsFiniteSet(Appended) /\ Cardinality(Appended) \in Nat
    /\ \A l : IsFiniteSet(At(l)) /\ Cardinality(At(l)) \in Nat
BY PoolAssumption, FS_Subset, FS_CardinalityType DEF Appended, At

\* Every step keeps a wakeup under way for each queued task.
LEMMA StepWakeup == TypeInv /\ WakeupPerTask /\ [Next]_poolVars => WakeupPerTask'
<1> SUFFICES ASSUME TypeInv, WakeupPerTask, [Next]_poolVars,
                    ~stopClosed', At("wait")' # {}
             PROVE  Total' <= Cardinality(At("woken")') + Cardinality(Appended')
  BY DEF WakeupPerTask, Appended
<1> DEFINE Goal == Total' <= Cardinality(At("woken")') + Cardinality(Appended')
<1>a. TypeOK /\ Total \in Nat /\ ~stopClosed
  BY TotalType DEF TypeInv, Next, poolVars, WorkerStep, SubmitStep, StopStep,
     ScalerStep, InitPool, WorkerTop, WorkerExit, WorkerWait, WorkerTake,
     WorkerRun, WorkerFinish, EnqueueCheck, EnqueueFull, EnqueueAppend,
     EnqueueSignal, EnqueueCount, StopBegin, StopClose, StopDrained,
     StopDiscard, StopJoin, ScalerCheck, ScalerAdd, ScalerExit
<1>b. At("wait") # {} => Total <= Cardinality(At("woken")) + Cardinality(Appended)
  BY <1>a DEF WakeupPerTask, Appended
\* A step that moves no waiting or woken worker, queues nothing and leaves
\* the submitters about to signal alone.
<1>c. ASSUME At("wait")' = At("wait"), At("woken")' = At("woken"),
             Total' = Total \/ (Total' = Total - 1), Appended' = Appended
      PROVE  Goal
  BY <1>a, <1>b, <1>c, CountTypes
<1>1. ASSUME NEW w \in Workers, WorkerTop(w) PROVE Goal
  BY <1>1, <1>a, <1>c DEF WorkerTop, At, Appended, Total, TypeOK
<1>2. ASSUME NEW w \in Workers, WorkerExit(w) PROVE Goal
  <2>1. wpc[w] = "lock" /\ wpc' = [wpc EXCEPT ![w] = "off"]
    BY <1>2, <1>a DEF WorkerExit
  <2>2. QED
    BY <1>2, <1>a, <1>c, <2>1 DEF WorkerExit, At, Appended, Total, TypeOK
<1>3. ASSUME NEW w \in Workers, WorkerWait(w) PROVE Goal
  <2>1. Total' = 0
    BY <1>3 DEF WorkerWait, Total
  <2>2. Cardinality(At("woken")') \in Nat /\ Cardinality(Appended') \in Nat
    BY PoolAssumption, FS_Subset, FS_CardinalityType DEF Appended, At
  <2>3. QED
    BY <2>1, <2>2
<1>4. ASSUME NEW w \in Workers, WorkerTake(w) PROVE Goal
  <2>1. Total' = Total - 1 /\ Appended' = Appended
    BY <1>4, <1>a, TakePops DEF WorkerTake, Appended
  <2>2. wpc' = [wpc EXCEPT ![w] = "took"] /\ wpc[w] \in {"lock", "woken"}
    BY <1>4 DEF WorkerTake
  <2>3. At("wait")' = At("wait")
    BY <1>a, <2>2 DEF At, TypeOK
  <2>4. CASE wpc[w] = "lock"
    <3>1. At("woken")' = At("woken")
      BY <1>a, <2>2, <2>4 DEF At, TypeOK
    <3>2. QED
      BY <1>c, <2>1, <2>3, <3>1
  <2>5. CASE wpc[w] = "woken"
    <3>1. At("woken")' = At("woken") \ {w} /\ w \in At("woken")
      BY <1>a, <2>2, <2>5 DEF At, TypeOK
    <3>2. Cardinality(At("woken")') = Cardinality(At("woken")) - 1
      BY <3>1, CountTypes, FS_RemoveElement
    <3>3. QED
      BY <1>a, <1>b, <2>1, <2>3, <3>2, CountTypes
  <2>6. QED
    BY <2>2, <2>4, <2>5
<1>5. ASSUME NEW w \in Workers, WorkerRun(w) PROVE Goal
  BY <1>5, <1>a, <1>c DEF WorkerRun, At, Appended, Total, TypeOK
<1>6. ASSUME NEW w \in Workers, WorkerFinish(w) PROVE Goal
  BY <1>6, <1>a, <1>c DEF WorkerFinish, At, Appended, Total, TypeOK
<1>7. ASSUME NEW t \in Tasks, EnqueueCheck(t) PROVE Goal
  BY <1>7, <1>a, <1>c DEF EnqueueCheck, Refused, At, Appended, Total, TypeOK
<1>8. ASSUME NEW t \in Tasks, EnqueueFull(t) PROVE Goal
  BY <1>8, <1>a, <1>c DEF EnqueueFull, Refused, At, Appended, Total, TypeOK
<1>9. ASSUME NEW t \in Tasks, EnqueueAppend(t) PROVE Goal
  <2>1. Total' = Total + 1
    BY <1>9, <1>a, PushTotal DEF EnqueueAppend
  <2>2. Appended' = Appended \union {t} /\ t \notin Appended
    BY <1>9, <1>a DEF EnqueueAppend, Appended, TypeOK
  <2>3. Cardinality(Appended') = Cardinality(Appended) + 1
    BY <2>2, CountTypes, FS_AddElement
  <2>4. At("wait")' = At("wait") /\ At("woken")' = At("woken")
    BY <1>9 DEF EnqueueAppend, At
  <2>5. QED
    BY <1>a, <1>b, <2>1, <2>3, <2>4, CountTypes
<1>10. ASSUME NEW t \in Tasks, EnqueueSignal(t) PROVE Goal
  <2>1. Total' = Total
    BY <1>10 DEF EnqueueSignal, Total
  <2>2. Appended' = Appended \ {t} /\ t \in Appended
    BY <1>10, <1>a DEF EnqueueSignal, Appended, TypeOK
  <2>3. Cardinality(Appended') = Cardinality(Appended) - 1
    BY <2>2, CountTypes, FS_RemoveElement
  <2>4. At("wait") # {}
    BY <1>10 DEF EnqueueSignal, At
  <2>5. PICK w \in At("wait") : wpc' = [wpc EXCEPT ![w] = "woken"]
    BY <1>10, <2>4 DEF EnqueueSignal
  <2>6. At("woken")' = At("woken") \union {w} /\ w \notin At("woken")
    BY <1>a, <2>5 DEF At, TypeOK
  <2>7. Cardinality(At("woken")') = Cardinality(At("woken")) + 1
    BY <2>6, CountTypes, FS_AddElement
  <2>8. QED
    BY <1>a, <1>b, <2>1, <2>3, <2>4, <2>7, CountTypes
<1>11. ASSUME NEW t \in Tasks, EnqueueCount(t) PROVE Goal
  BY <1>11, <1>a, <1>c DEF EnqueueCount, At, Appended, Total, TypeOK
<1>12. ASSUME InitPool PROVE Goal
  <2>1. \A w \in Workers : wpc'[w] \in {"off", "top"}
    BY <1>12 DEF InitPool, TypeInv, QuietWhenIdle
  <2>2. QED
    BY <2>1 DEF At
<1>13. ASSUME StopBegin PROVE Goal
  BY <1>13, <1>c DEF StopBegin, At, Appended, Total
<1>14. ASSUME StopClose PROVE Goal
  BY <1>14 DEF StopClose
<1>15. ASSUME StopDrained PROVE Goal
  BY <1>15, <1>c DEF StopDrained, At, Appended, Total
<1>16. ASSUME StopDiscard PROVE Goal
  <2>1. At("wait")' = {}
    BY <1>16 DEF StopDiscard, At
  <2>2. QED
    BY <2>1
<1>17. ASSUME StopJoin PROVE Goal
  BY <1>17, <1>c DEF StopJoin, At, Appended, Total
<1>18. ASSUME ScalerCheck PROVE Goal
  BY <1>18, <1>c DEF ScalerCheck, At, Appended, Total
<1>19. ASSUME ScalerAdd PROVE Goal
  <2>1. At("wait")' = At("wait") /\ At("woken")' = At("woken")
    BY <1>19 DEF ScalerAdd, At, Live
  <2>2. QED
    BY <1>19, <1>c, <2>1 DEF ScalerAdd, Appended, Total
<1>20. ASSUME ScalerExit PROVE Goal
  BY <1>20, <1>c DEF ScalerExit, At, Appended, Total
<1>21. ASSUME UNCHANGED poolVars PROVE Goal
  BY <1>21, <1>c DEF poolVars, At, Appended, Total
<1>22. QED
  BY <1>1, <1>2, <1>3, <1>4, <1>5, <1>6, <1>7, <1>8, <1>9, <1>10, <1>11,
     <1>12, <1>13, <1>14, <1>15, <1>16, <1>17, <1>18, <1>19, <1>20, <1>21
     DEF Next, WorkerStep, SubmitStep, StopStep, ScalerStep

\* No wakeup is lost: while the pool is open and a worker sleeps, each queued
\* task has a woken worker or a submitter about to signal.
THEOREM NoLostWakeup == Spec => []WakeupPerTask
<1>1. Init => WakeupPerTask
  BY DEF Init, WakeupPerTask, At
<1>2. QED
  BY <1>1, InitTypes, StepTypes, StepWakeup, PTL DEF Spec

-----------------------------------------------------------------------------
(* The fate of a task.  A task is in one place at a time: with its          *)
(* submitter, at one position of one queue, or with one worker, which has   *)
(* called its function or has not; and it never comes back.                 *)

TakenIn == {"appended", "signalled", "accepted"}

OnePlace ==
    \A p, q \in Priorities : \A i \in DOMAIN queue[p], j \in DOMAIN queue[q] :
       queue[p][i] = queue[q][j] => p = q /\ i = j

TasksInv ==
    /\ OnePlace
    /\ \A t \in Tasks : Queued(t) => tpc[t] \in TakenIn /\ t \notin started /\ ~Held(t)
    /\ \A t \in Tasks : Held(t) => tpc[t] \in TakenIn
    /\ \A v, w \in Workers : wtask[v] \in Tasks /\ wtask[v] = wtask[w] => v = w
    /\ \A w \in Workers : wpc[w] = "took" => wtask[w] \notin started
    /\ \A w \in Workers : wpc[w] = "run" => wtask[w] \in started
    /\ \A t \in started : tpc[t] \in TakenIn

\* The call of a submitter that is told false.
Refuses(t) ==
    /\ tpc[t] \in {"new", "checked"}
    /\ \E fate \in {"rejected", "inlined"} : tpc' = [tpc EXCEPT ![t] = fate]
    /\ UNCHANGED <<queue, queueSize, wpc, wtask, started>>

\* A step that moves no task and does not count.
MovesNoTask ==
    /\ UNCHANGED <<queue, queueSize, wtask, started>>
    /\ \A w \in Workers :
         wpc'[w] = wpc[w] \/ {wpc[w], wpc'[w]} \intersect {"took", "run"} = {}
    /\ \A t \in Tasks : \/ tpc'[t] = tpc[t]
                        \/ tpc[t] = "new" /\ tpc'[t] = "checked"
                        \/ tpc[t] = "appended" /\ tpc'[t] = "signalled"

\* What the steps of the pool do to the tasks.
LEMMA StepKinds ==
    ASSUME TypeInv, [Next]_poolVars
    PROVE  \/ \E w \in Workers : WorkerTake(w) \/ WorkerRun(w) \/ WorkerFinish(w)
           \/ \E t \in Tasks : Refuses(t) \/ EnqueueAppend(t) \/ EnqueueCount(t)
           \/ StopDiscard
           \/ MovesNoTask
<1> USE DEF TypeInv
<1>1. ASSUME NEW w \in Workers, WorkerTop(w) \/ WorkerExit(w) \/ WorkerWait(w)
      PROVE  MovesNoTask
  BY <1>1 DEF WorkerTop, WorkerExit, WorkerWait, MovesNoTask, TypeOK
<1>2. ASSUME NEW t \in Tasks, EnqueueCheck(t) PROVE Refuses(t) \/ MovesNoTask
  <2>1. CASE state = "Running"
    BY <1>2, <2>1 DEF EnqueueCheck, MovesNoTask, TypeOK
  <2>2. CASE state # "Running"
    BY <1>2, <2>2 DEF EnqueueCheck, Refused, Refuses
  <2>3. QED
    BY <2>1, <2>2
<1>3. ASSUME NEW t \in Tasks, EnqueueFull(t) PROVE Refuses(t)
  BY <1>3 DEF EnqueueFull, Refused, Refuses
<1>4. ASSUME NEW t \in Tasks, EnqueueSignal(t) PROVE MovesNoTask
  BY <1>4 DEF EnqueueSignal, MovesNoTask, At, TypeOK
<1>5. ASSUME InitPool PROVE MovesNoTask
  BY <1>5 DEF InitPool, MovesNoTask, QuietWhenIdle
<1>6. ASSUME StopBegin \/ StopClose \/ StopDrained \/ StopJoin \/ ScalerCheck \/ ScalerExit
      PROVE  MovesNoTask
  BY <1>6 DEF StopBegin, StopClose, StopDrained, StopJoin, ScalerCheck, ScalerExit, MovesNoTask
<1>7. ASSUME ScalerAdd PROVE MovesNoTask
  BY <1>7 DEF ScalerAdd, MovesNoTask, Live
<1>8. ASSUME UNCHANGED poolVars PROVE MovesNoTask
  BY <1>8 DEF poolVars, MovesNoTask
<1>9. QED
  BY <1>1, <1>2, <1>3, <1>4, <1>5, <1>6, <1>7, <1>8
     DEF Next, WorkerStep, SubmitStep, StopStep, ScalerStep

\* The append leaves the tasks where they are and puts t behind those of its queue.
LEMMA PushPlaces ==
    ASSUME TypeOK, NEW t \in Tasks,
           queue' = [queue EXCEPT ![QueueOf(t)] = Append(@, t)]
    PROVE  /\ \A q \in Priorities : \A i \in DOMAIN queue'[q] :
                \/ i \in DOMAIN queue[q] /\ queue'[q][i] = queue[q][i]
                \/ q = QueueOf(t) /\ i = Len(queue[q]) + 1 /\ queue'[q][i] = t
           /\ \A u \in Tasks : Queued(u)' <=> Queued(u) \/ u = t
<1>0. PICK p \in Priorities : p = QueueOf(t)
  BY QueueOfType
<1>1. \A q \in Priorities : queue'[q] = IF q = p THEN Append(queue[q], t) ELSE queue[q]
  BY <1>0 DEF TypeOK
<1>2. /\ queue[p] \in Seq(Tasks) /\ Len(queue[p]) \in Nat
      /\ Len(queue'[p]) = Len(queue[p]) + 1
      /\ \A i \in 1..Len(queue[p]) : queue'[p][i] = queue[p][i]
      /\ queue'[p][Len(queue[p]) + 1] = t
  <2>1. queue[p] \in Seq(Tasks) /\ queue'[p] = Append(queue[p], t)
    BY <1>1 DEF TypeOK
  <2>2. QED
    BY <2>1, AppendProperties, LenProperties
<1>3. DOMAIN queue[p] = 1..Len(queue[p]) /\ DOMAIN queue'[p] = 1..(Len(queue[p]) + 1)
  BY <1>1, <1>2, AppendProperties, LenProperties
<1>4. QED
  BY <1>0, <1>1, <1>2, <1>3 DEF Queued

\* The pop takes the head of one queue and moves the rest of it up by one.
LEMMA PopPlaces ==
    ASSUME TypeOK, OnePlace, NEW p \in Priorities, queue[p] # <<>>,
           queue' = [queue EXCEPT ![p] = Tail(@)]
    PROVE  /\ \A q \in Priorities : q # p => queue'[q] = queue[q]
           /\ \A i \in DOMAIN queue'[p] :
                i \in Nat /\ i + 1 \in DOMAIN queue[p] /\ queue'[p][i] = queue[p][i + 1]
           /\ \A u \in Tasks : Queued(u)' <=> Queued(u) /\ u # Head(queue[p])
           /\ Queued(Head(queue[p]))
<1>1. \A q \in Priorities : queue'[q] = IF q = p THEN Tail(queue[q]) ELSE queue[q]
  BY DEF TypeOK
<1>2. /\ Len(queue[p]) \in Nat \ {0} /\ DOMAIN queue[p] = 1..Len(queue[p])
      /\ Len(queue'[p]) = Len(queue[p]) - 1 /\ DOMAIN queue'[p] = 1..(Len(queue[p]) - 1)
      /\ \A i \in 1..(Len(queue[p]) - 1) : queue'[p][i] = queue[p][i + 1]
      /\ Head(queue[p]) = queue[p][1]
  <2>1. queue[p] \in Seq(Tasks) /\ queue'[p] = Tail(queue[p])
    BY <1>1 DEF TypeOK
  <2>2. /\ Tail(queue[p]) \in Seq(Tasks) /\ Len(Tail(queue[p])) = Len(queue[p]) - 1
        /\ \A i \in 1..Len(Tail(queue[p])) : Tail(queue[p])[i] = queue[p][i + 1]
        /\ Head(queue[p]) = queue[p][1]
    BY <2>1, HeadTailProperties
  <2>3. QED
    BY <2>1, <2>2, LenProperties, EmptySeq
<1>3. 1 \in DOMAIN queue[p] /\ \A i \in DOMAIN queue[p] : i # 1 => i - 1 \in DOMAIN queue'[p]
  BY <1>2
<1>4. ASSUME NEW u \in Tasks, Queued(u)' PROVE Queued(u) /\ u # Head(queue[p])
  <2>0. PICK q \in Priorities : \E i \in DOMAIN queue'[q] : queue'[q][i] = u
    BY <1>4 DEF Queued
  <2>1. PICK i \in DOMAIN queue'[q] : queue'[q][i] = u
    BY <2>0
  <2>2. CASE q = p
    <3>1. i \in Nat /\ i # 0 /\ i + 1 \in DOMAIN queue[p] /\ queue[p][i + 1] = u
      BY <1>2, <2>1, <2>2
    <3>2. u # queue[p][1]
      BY <1>3, <3>1 DEF OnePlace
    <3>3. QED
      BY <1>2, <3>1, <3>2 DEF Queued
  <2>3. CASE q # p
    BY <1>1, <1>2, <1>3, <2>1, <2>3 DEF Queued, OnePlace
  <2>4. QED
    BY <2>2, <2>3
<1>5. ASSUME NEW u \in Tasks, Queued(u), u # Head(queue[p]) PROVE Queued(u)'
  <2>0. PICK q \in Priorities : \E i \in DOMAIN queue[q] : queue[q][i] = u
    BY <1>5 DEF Queued
  <2>1. PICK i \in DOMAIN queue[q] : queue[q][i] = u
    BY <2>0
  <2>2. CASE q = p
    <3>1. i # 1 /\ i \in Nat /\ i - 1 \in DOMAIN queue'[p] /\ queue'[p][i - 1] = u
      BY <1>2, <1>3, <1>5, <2>1, <2>2
    <3>2. QED
      BY <3>1 DEF Queued
  <2>3. CASE q # p
    BY <1>1, <2>1, <2>3 DEF Queued
  <2>4. QED
    BY <2>2, <2>3
<1>6. Queued(Head(queue[p]))
  BY <1>2, <1>3 DEF Queued
<1>7. QED
  BY <1>1, <1>2, <1>4, <1>5, <1>6

\* No task has been submitted.
LEMMA InitTasks == Init => TasksInv
<1> SUFFICES ASSUME Init PROVE TasksInv
  OBVIOUS
<1>1. \A p \in Priorities : DOMAIN queue[p] = {}
  BY DEF Init
<1>2. \A t \in Tasks : ~Queued(t) /\ ~Held(t)
  BY <1>1, PoolAssumption DEF Init, Queued, Held
<1>3. QED
  BY <1>1, <1>2, PoolAssumption DEF Init, TasksInv, OnePlace

\* The worker that takes a task is the only one to have it, and it is the oldest of
\* its queue and of none below in rank.
LEMMA TakeMoves ==
    ASSUME TypeOK, TasksInv, NEW w \in Workers, WorkerTake(w)
    PROVE  \E p \in Priorities : \E t \in Tasks :
             /\ queue[p] # <<>> /\ t = Head(queue[p])
             /\ \A q \in Priorities : q > p => queue[q] = <<>>
             /\ queue' = [queue EXCEPT ![p] = Tail(@)]
             /\ wtask' = [wtask EXCEPT ![w] = t]
             /\ wpc' = [wpc EXCEPT ![w] = "took"]
             /\ UNCHANGED <<tpc, started, queueSize>>
             /\ Queued(t) /\ wtask[w] \notin Tasks
             /\ \A u \in Tasks : Queued(u)' <=> Queued(u) /\ u # t
             /\ \A u \in Tasks : Held(u)' <=> Held(u) \/ u = t
             /\ OnePlace'
<1>1. PICK p \in Priorities :
        /\ queue[p] # <<>>
        /\ \A q \in Priorities : q > p => queue[q] = <<>>
        /\ wtask' = [wtask EXCEPT ![w] = Head(queue[p])]
        /\ queue' = [queue EXCEPT ![p] = Tail(@)]
  BY DEF WorkerTake
<1>2. PICK t \in Tasks : t = Head(queue[p])
  BY <1>1, PopTypes
<1>3. wpc' = [wpc EXCEPT ![w] = "took"] /\ UNCHANGED <<tpc, started, queueSize>>
  BY DEF WorkerTake
<1>4. wtask[w] \notin Tasks
  BY DEF WorkerTake, TypeOK
<1>5. OnePlace
  BY DEF TasksInv
<1>6. /\ \A q \in Priorities : q # p => queue'[q] = queue[q]
      /\ \A i \in DOMAIN queue'[p] :
           i \in Nat /\ i + 1 \in DOMAIN queue[p] /\ queue'[p][i] = queue[p][i + 1]
      /\ \A u \in Tasks : Queued(u)' <=> Queued(u) /\ u # t
      /\ Queued(t)
  BY <1>1, <1>2, <1>5, PopPlaces
<1>7. \A u \in Tasks : Held(u)' <=> Held(u) \/ u = t
  BY <1>1, <1>2, <1>4 DEF Held, TypeOK
<1>8. OnePlace'
  <2> SUFFICES ASSUME NEW q \in Priorities, NEW r \in Priorities,
                      NEW i \in DOMAIN queue'[q], NEW j \in DOMAIN queue'[r],
                      queue'[q][i] = queue'[r][j]
               PROVE  q = r /\ i = j
    BY DEF OnePlace
  <2>1. CASE q = p /\ r = p
    <3>1. i \in Nat /\ j \in Nat /\ i + 1 = j + 1
      BY <1>5, <1>6, <2>1 DEF OnePlace
    <3>2. QED
      BY <2>1, <3>1
  <2>2. CASE q = p /\ r # p
    BY <1>5, <1>6, <2>2 DEF OnePlace
  <2>3. CASE q # p /\ r = p
    BY <1>5, <1>6, <2>3 DEF OnePlace
  <2>4. CASE q # p /\ r # p
    BY <1>5, <1>6, <2>4 DEF OnePlace
  <2>5. QED
    BY <2>1, <2>2, <2>3, <2>4
<1>9. QED
  BY <1>1, <1>2, <1>3, <1>4, <1>6, <1>7, <1>8

\* A queue the task is put behind holds every task in one place still.
LEMMA AppendMoves ==
    ASSUME TypeOK, TasksInv, NEW t \in Tasks, EnqueueAppend(t)
    PROVE  /\ ~Queued(t) /\ ~Held(t) /\ t \notin started
           /\ \A u \in Tasks : Queued(u)' <=> Queued(u) \/ u = t
           /\ OnePlace'
<1>1. queue' = [queue EXCEPT ![QueueOf(t)] = Append(@, t)] /\ tpc[t] = "checked"
  BY DEF EnqueueAppend
<1>2. ~Queued(t) /\ ~Held(t) /\ t \notin started /\ OnePlace
  BY <1>1 DEF TasksInv, TakenIn
<1>3. /\ \A q \in Priorities : \A i \in DOMAIN queue'[q] :
           \/ i \in DOMAIN queue[q] /\ queue'[q][i] = queue[q][i]
           \/ q = QueueOf(t) /\ i = Len(queue[q]) + 1 /\ queue'[q][i] = t
      /\ \A u \in Tasks : Queued(u)' <=> Queued(u) \/ u = t
  BY <1>1, PushPlaces
<1>4. OnePlace'
  BY <1>2, <1>3 DEF OnePlace, Queued
<1>5. QED
  BY <1>2, <1>3, <1>4

\* Every step keeps each task in one place.
LEMMA StepTasks == TypeInv /\ TasksInv /\ [Next]_poolVars => TasksInv'
<1> SUFFICES ASSUME TypeInv, TasksInv, [Next]_poolVars PROVE TasksInv'
  OBVIOUS
<1>a. TypeOK /\ TypeOK' /\ OnePlace
  BY StepTypes DEF TypeInv, TasksInv
<1>1. ASSUME NEW w \in Workers, WorkerTake(w) PROVE TasksInv'
  <2> PICK t \in Tasks :
        /\ wtask' = [wtask EXCEPT ![w] = t]
        /\ wpc' = [wpc EXCEPT ![w] = "took"]
        /\ UNCHANGED <<tpc, started>>
        /\ Queued(t) /\ wtask[w] \notin Tasks
        /\ \A u \in Tasks : Queued(u)' <=> Queued(u) /\ u # t
        /\ \A u \in Tasks : Held(u)' <=> Held(u) \/ u = t
        /\ OnePlace'
    BY <1>1, <1>a, TakeMoves
  <2>1. ~Held(t) /\ t \notin started /\ tpc[t] \in TakenIn
    BY DEF TasksInv
  <2>2. \A v \in Workers : v # w => wtask'[v] = wtask[v] /\ wpc'[v] = wpc[v] /\ wtask[v] # t
    BY <1>a, <2>1 DEF TypeOK, Held
  <2>3. wtask'[w] = t /\ wpc'[w] = "took"
    BY <1>a DEF TypeOK
  <2>4. /\ \A u \in Tasks : Queued(u)' => tpc'[u] \in TakenIn /\ u \notin started' /\ ~Held(u)'
        /\ \A u \in Tasks : Held(u)' => tpc'[u] \in TakenIn
    BY <2>1 DEF TasksInv
  <2>5. QED
    BY <2>1, <2>2, <2>3, <2>4 DEF TasksInv
<1>2. ASSUME NEW w \in Workers, WorkerRun(w) PROVE TasksInv'
  <2>1. /\ UNCHANGED <<queue, wtask, tpc>> /\ wpc[w] = "took" /\ wtask[w] \in Tasks
        /\ wpc' = [wpc EXCEPT ![w] = "run"] /\ started' = started \union {wtask[w]}
    BY <1>2, <1>a DEF WorkerRun, TypeOK
  <2>2. \A t \in Tasks : (Queued(t)' <=> Queued(t)) /\ (Held(t)' <=> Held(t))
    BY <2>1 DEF Queued, Held
  <2>3. Held(wtask[w]) /\ OnePlace'
    BY <1>a, <2>1 DEF Held, OnePlace
  <2>4. \A v \in Workers : v # w => wpc'[v] = wpc[v] /\ (wpc[v] = "took" => wtask[v] # wtask[w])
    BY <1>a, <2>1 DEF TypeOK, TasksInv
  <2>5. wpc'[w] = "run"
    BY <1>a, <2>1 DEF TypeOK
  <2>6. \A t \in Tasks : Queued(t) => t \notin started'
    BY <2>1, <2>3 DEF TasksInv
  <2>7. \A t \in started' : tpc[t] \in TakenIn
    BY <2>1, <2>3 DEF TasksInv
  <2>8. /\ \A v \in Workers : wpc'[v] = "took" => wtask'[v] \notin started'
        /\ \A v \in Workers : wpc'[v] = "run" => wtask'[v] \in started'
    BY <2>1, <2>4, <2>5 DEF TasksInv
  <2>9. QED
    BY <2>1, <2>2, <2>3, <2>6, <2>7, <2>8 DEF TasksInv
<1>3. ASSUME NEW w \in Workers, WorkerFinish(w) PROVE TasksInv'
  <2>1. /\ UNCHANGED <<queue, tpc, started>>
        /\ wtask' = [wtask EXCEPT ![w] = NoTask] /\ wpc' = [wpc EXCEPT ![w] = "top"]
    BY <1>3 DEF WorkerFinish
  <2>2. \A t \in Tasks : (Queued(t)' <=> Queued(t)) /\ (Held(t)' => Held(t))
    BY <1>a, <2>1, PoolAssumption DEF Queued, Held, TypeOK
  <2>3. \A v \in Workers :
          \/ v # w /\ wtask'[v] = wtask[v] /\ wpc'[v] = wpc[v]
          \/ v = w /\ wtask'[v] \notin Tasks /\ wpc'[v] = "top"
    BY <1>a, <2>1, PoolAssumption DEF TypeOK
  <2>4. OnePlace'
    BY <1>a, <2>1 DEF OnePlace
  <2>5. QED
    BY <2>1, <2>2, <2>3, <2>4 DEF TasksInv
<1>4. ASSUME NEW t \in Tasks, Refuses(t) PROVE TasksInv'
  <2>1. /\ UNCHANGED <<queue, wpc, wtask, started>> /\ tpc[t] \notin TakenIn
        /\ \A u \in Tasks : u # t => tpc'[u] = tpc[u]
    BY <1>4, <1>a DEF Refuses, TakenIn, TypeOK
  <2>2. \A u \in Tasks : (Queued(u)' <=> Queued(u)) /\ (Held(u)' <=> Held(u))
    BY <2>1 DEF Queued, Held
  <2>3. OnePlace' /\ started \subseteq Tasks
    BY <1>a, <2>1 DEF OnePlace, TypeOK
  <2>4. QED
    BY <2>1, <2>2, <2>3 DEF TasksInv
<1>5. ASSUME NEW t \in Tasks, EnqueueAppend(t) PROVE TasksInv'
  <2>1. /\ UNCHANGED <<wpc, wtask, started>> /\ tpc'[t] \in TakenIn
        /\ \A u \in Tasks : u # t => tpc'[u] = tpc[u]
    BY <1>5, <1>a DEF EnqueueAppend, TakenIn, TypeOK
  <2>2. \A u \in Tasks : Held(u)' <=> Held(u)
    BY <2>1 DEF Held
  <2>3. started \subseteq Tasks
    BY <1>a DEF TypeOK
  <2>4. QED
    BY <1>5, <1>a, <2>1, <2>2, <2>3, AppendMoves DEF TasksInv
<1>6. ASSUME NEW t \in Tasks, EnqueueCount(t) PROVE TasksInv'
  <2>1. /\ UNCHANGED <<queue, wpc, wtask, started>>
        /\ \A u \in Tasks : tpc'[u] \in TakenIn <=> tpc[u] \in TakenIn
    BY <1>6, <1>a DEF EnqueueCount, TakenIn, TypeOK
  <2>2. \A u \in Tasks : (Queued(u)' <=> Queued(u)) /\ (Held(u)' <=> Held(u))
    BY <2>1 DEF Queued, Held
  <2>3. OnePlace' /\ started \subseteq Tasks
    BY <1>a, <2>1 DEF OnePlace, TypeOK
  <2>4. QED
    BY <2>1, <2>2, <2>3 DEF TasksInv
<1>7. CASE StopDiscard
  <2>1. /\ UNCHANGED <<tpc, wtask, started>> /\ \A p \in Priorities : DOMAIN queue'[p] = {}
        /\ \A w \in Workers : wpc'[w] = "took" \/ wpc'[w] = "run" => wpc'[w] = wpc[w]
    BY <1>7 DEF StopDiscard
  <2>2. \A t \in Tasks : ~Queued(t)' /\ (Held(t)' <=> Held(t))
    BY <2>1 DEF Queued, Held
  <2>3. OnePlace'
    BY <2>1 DEF OnePlace
  <2>4. QED
    BY <2>1, <2>2, <2>3 DEF TasksInv
<1>8. CASE MovesNoTask
  <2>1. /\ UNCHANGED <<queue, wtask, started>>
        /\ \A u \in Tasks : tpc[u] \in TakenIn => tpc'[u] \in TakenIn
        /\ \A w \in Workers : wpc'[w] = "took" \/ wpc'[w] = "run" => wpc'[w] = wpc[w]
    BY <1>8 DEF MovesNoTask, TakenIn
  <2>2. \A u \in Tasks : (Queued(u)' <=> Queued(u)) /\ (Held(u)' <=> Held(u))
    BY <2>1 DEF Queued, Held
  <2>3. OnePlace' /\ started \subseteq Tasks
    BY <1>a, <2>1 DEF OnePlace, TypeOK
  <2>4. QED
    BY <2>1, <2>2, <2>3 DEF TasksInv
<1>9. QED
  BY <1>1, <1>2, <1>3, <1>4, <1>5, <1>6, <1>7, <1>8, StepKinds

-----------------------------------------------------------------------------
(* The refinement of TaskPool, whose status of a task is read off its place. *)

\* The status of a task at each of its places.
LEMMA StatusAt ==
    ASSUME TypeOK, TasksInv, NEW t \in Tasks
    PROVE  /\ tpc[t] \in {"new", "checked"} => Status(t) = "new"
           /\ tpc[t] \in {"rejected", "inlined"} => Status(t) = tpc[t]
           /\ Queued(t) => Status(t) = "queued"
           /\ Held(t) => Status(t) = "running"
           /\ tpc[t] \in TakenIn /\ ~Queued(t) /\ ~Held(t) /\ t \in started => Status(t) = "done"
           /\ tpc[t] \in TakenIn /\ ~Queued(t) /\ ~Held(t) /\ t \notin started =>
                Status(t) = "discarded"
           /\ Status(t) = "queued" => Queued(t)
           /\ Status(t) = "discarded" =>
                tpc[t] \in TakenIn /\ ~Queued(t) /\ ~Held(t) /\ t \notin started
<1>1. Queued(t) => tpc[t] \in TakenIn /\ ~Held(t)
  BY DEF TasksInv
<1>2. Held(t) \/ t \in started => tpc[t] \in TakenIn
  BY DEF TasksInv
<1>3. tpc[t] \in {"new", "checked", "appended", "signalled", "accepted", "rejected", "inlined"}
  BY DEF TypeOK
<1>4. QED
  BY <1>1, <1>2, <1>3 DEF Status, TakenIn

\* A task that neither moves, starts nor changes its submitter's mind keeps its status.
LEMMA StatusKept ==
    ASSUME TypeOK, TypeOK', TasksInv, TasksInv', NEW t \in Tasks,
           Queued(t)' <=> Queued(t), Held(t)' <=> Held(t), t \in started' <=> t \in started,
           \/ tpc'[t] = tpc[t]
           \/ tpc[t] \in {"new", "checked"} /\ tpc'[t] \in {"new", "checked"}
           \/ tpc[t] \in TakenIn /\ tpc'[t] \in TakenIn
    PROVE  Status(t)' = Status(t)
BY DEF Status, TakenIn

\* The fate of every task, as TaskPool has it.
Fates == [t \in Tasks |-> Status(t)]

\* Before anything is submitted the pool is the abstract pool.
LEMMA InitRefines == Init => Abstract!Init
<1> SUFFICES ASSUME Init PROVE Abstract!Init
  OBVIOUS
<1>1. \A t \in Tasks : ~Queued(t) /\ ~Held(t) /\ tpc[t] = "new" /\ t \notin started
  BY InitTasks DEF TasksInv, TakenIn, Init
<1>2. \A t \in Tasks : Status(t) = "new"
  BY <1>1 DEF Status
<1>3. queue = [p \in 0..2 |-> <<>>]
  BY DEF Init, Priorities, Low, Medium, High
<1>4. QED
  BY <1>2, <1>3 DEF Abstract!Init, Abstract!Priorities

\* Every step of the pool is a step of the abstract pool or leaves it as it is.
LEMMA StepRefines ==
    TypeInv /\ TasksInv /\ [Next]_poolVars => [Abstract!Next]_(Abstract!abstractVars)
<1> SUFFICES ASSUME TypeInv, TasksInv, [Next]_poolVars
             PROVE  Abstract!Next \/ (queue' = queue /\ Fates' = Fates)
  BY DEF Abstract!abstractVars, Fates
<1>a. TypeOK /\ TypeOK' /\ TasksInv'
  BY StepTypes, StepTasks DEF TypeInv
<1>b. Abstract!Priorities = Priorities /\ Abstract!Size = Total
  BY DEF Abstract!Priorities, Abstract!Size, Priorities, Total, Low, Medium, High
<1>c. /\ DOMAIN Fates = Tasks /\ \A t \in Tasks : Fates[t] = Status(t)
      /\ DOMAIN Fates' = Tasks /\ \A t \in Tasks : Fates'[t] = Status(t)'
      /\ Fates \in [Tasks -> {Status(t) : t \in Tasks}]
      /\ Fates' = [t \in Tasks |-> Fates'[t]]
  BY DEF Fates
\* A step after which one task has a fate of its own and the others keep theirs.
<1>d. ASSUME NEW t \in Tasks, NEW fate, Status(t)' = fate,
             \A u \in Tasks : u # t => Status(u)' = Status(u)
      PROVE  Fates' = [Fates EXCEPT ![t] = fate]
  BY <1>d DEF Fates
<1>1. ASSUME NEW w \in Workers, WorkerTake(w) PROVE Abstract!Next
  <2> PICK p \in Priorities, t \in Tasks :
        /\ queue[p] # <<>> /\ t = Head(queue[p])
        /\ \A q \in Priorities : q > p => queue[q] = <<>>
        /\ queue' = [queue EXCEPT ![p] = Tail(@)]
        /\ UNCHANGED <<tpc, started, queueSize>>
        /\ \A u \in Tasks : Queued(u)' <=> Queued(u) /\ u # t
        /\ \A u \in Tasks : Held(u)' <=> Held(u) \/ u = t
    BY <1>1, <1>a, TakeMoves
  <2>1. ~Queued(t)' /\ Held(t)' /\ Status(t)' = "running"
    BY <1>a DEF TasksInv, Status, TakenIn
  <2>2. \A u \in Tasks : u # t => Status(u)' = Status(u)
    BY <1>a, StatusKept
  <2>3. Fates' = [Fates EXCEPT ![Head(queue[p])] = "running"]
    BY <1>d, <2>1, <2>2
  <2>4. Abstract!Start(p)
    BY <1>b, <2>3 DEF Abstract!Start, Fates
  <2>5. QED
    BY <1>b, <2>4 DEF Abstract!Next
<1>2. ASSUME NEW w \in Workers, WorkerRun(w) PROVE queue' = queue /\ Fates' = Fates
  <2>1. /\ UNCHANGED <<queue, wtask, tpc>> /\ Held(wtask[w]) /\ Held(wtask[w])'
        /\ started' = started \union {wtask[w]} /\ wtask[w] \in Tasks
    BY <1>2, <1>a DEF WorkerRun, TypeOK, Held
  <2>2. \A t \in Tasks : (Queued(t)' <=> Queued(t)) /\ (Held(t)' <=> Held(t))
    BY <2>1 DEF Queued, Held
  <2>3. Status(wtask[w])' = "running" /\ Status(wtask[w]) = "running"
    BY <1>a, <2>1 DEF TasksInv, Status, TakenIn
  <2>4. \A t \in Tasks : t # wtask[w] => Status(t)' = Status(t)
    BY <1>a, <2>1, <2>2, StatusKept
  <2>5. QED
    BY <2>1, <2>3, <2>4 DEF Fates
<1>3. ASSUME NEW w \in Workers, WorkerFinish(w) PROVE Abstract!Next
  <2>1. /\ UNCHANGED <<queue, tpc, started>> /\ wtask[w] \in Tasks /\ wtask[w] \in started
        /\ wtask' = [wtask EXCEPT ![w] = NoTask] /\ Held(wtask[w])
    BY <1>3, <1>a DEF WorkerFinish, TypeOK, TasksInv, Held
  <2> PICK t \in Tasks : t = wtask[w]
    BY <2>1
  <2>2. \A u \in Tasks : Queued(u)' <=> Queued(u)
    BY <2>1 DEF Queued
  <2>3. \A v \in Workers : v # w => wtask'[v] = wtask[v] /\ wtask[v] # t
    BY <1>a, <2>1 DEF TasksInv, TypeOK
  <2>4. wtask'[w] \notin Tasks
    BY <1>a, <2>1, PoolAssumption DEF TypeOK
  <2>5. ~Held(t)' /\ \A u \in Tasks : u # t => (Held(u)' <=> Held(u))
    BY <2>3, <2>4 DEF Held
  <2>6. ~Queued(t) /\ tpc[t] \in TakenIn /\ t \in started /\ Status(t) = "running"
    BY <1>a, <2>1, StatusAt DEF TasksInv
  <2>7. Status(t)' = "done"
    BY <2>1, <2>2, <2>5, <2>6 DEF Status, TakenIn
  <2>8. \A u \in Tasks : u # t => Status(u)' = Status(u)
    BY <1>a, <2>1, <2>2, <2>5, StatusKept
  <2>9. Abstract!Finish(t)
    BY <1>c, <1>d, <2>1, <2>6, <2>7, <2>8 DEF Abstract!Finish, Fates
  <2>10. QED
    BY <2>9 DEF Abstract!Next
<1>4. ASSUME NEW t \in Tasks, Refuses(t) PROVE Abstract!Next
  <2>1. /\ UNCHANGED <<queue, wtask, started>>
        /\ tpc[t] \in {"new", "checked"} /\ tpc'[t] \in {"rejected", "inlined"}
        /\ \A u \in Tasks : u # t => tpc'[u] = tpc[u]
    BY <1>4, <1>a DEF Refuses, TypeOK
  <2>2. \A u \in Tasks : (Queued(u)' <=> Queued(u)) /\ (Held(u)' <=> Held(u))
    BY <2>1 DEF Queued, Held
  <2>3. Status(t) = "new" /\ Status(t)' = tpc'[t]
    <3>1. ~Queued(t) /\ ~Held(t) /\ t \notin started
      BY <2>1 DEF TasksInv, TakenIn
    <3>2. QED
      BY <2>1, <2>2, <3>1 DEF Status
  <2>4. \A u \in Tasks : u # t => Status(u)' = Status(u)
    BY <1>a, <2>1, <2>2, StatusKept
  <2>5. Fates' = [Fates EXCEPT ![t] = tpc'[t]]
    BY <1>d, <2>3, <2>4
  <2>6. Abstract!Refuse(t)
    BY <2>1, <2>3, <2>5 DEF Abstract!Refuse, Fates
  <2>7. QED
    BY <2>6 DEF Abstract!Next
<1>5. ASSUME NEW t \in Tasks, EnqueueAppend(t) PROVE Abstract!Next
  <2>1. /\ UNCHANGED <<wtask, started>> /\ tpc[t] = "checked" /\ tpc'[t] \in TakenIn
        /\ \A u \in Tasks : u # t => tpc'[u] = tpc[u]
        /\ Total < Capacity
        /\ queue' = [queue EXCEPT ![QueueOf(t)] = Append(@, t)]
    BY <1>5, <1>a DEF EnqueueAppend, TakenIn, TypeOK
  <2>2. \A u \in Tasks : Held(u)' <=> Held(u)
    BY <2>1 DEF Held
  <2>3. \A u \in Tasks : Queued(u)' <=> Queued(u) \/ u = t
    BY <1>5, <1>a, AppendMoves
  <2>4. Status(t) = "new" /\ Status(t)' = "queued"
    <3>1. ~Queued(t) /\ ~Held(t) /\ t \notin started
      BY <1>5, <1>a, AppendMoves
    <3>2. QED
      BY <2>1, <2>2, <2>3, <3>1 DEF Status, TakenIn
  <2>5. \A u \in Tasks : u # t => Status(u)' = Status(u)
    BY <1>a, <2>1, <2>2, <2>3, StatusKept
  <2>6. Fates' = [Fates EXCEPT ![t] = "queued"]
    BY <1>d, <2>4, <2>5
  <2>7. Abstract!Accept(t)
    BY <1>b, <2>1, <2>4, <2>6 DEF Abstract!Accept, Fates
  <2>8. QED
    BY <2>7 DEF Abstract!Next
<1>6. ASSUME NEW t \in Tasks, EnqueueCount(t) PROVE queue' = queue /\ Fates' = Fates
  <2>1. /\ UNCHANGED <<queue, wtask, started>> /\ tpc[t] \in TakenIn /\ tpc'[t] \in TakenIn
        /\ \A u \in Tasks : u # t => tpc'[u] = tpc[u]
    BY <1>6, <1>a DEF EnqueueCount, TakenIn, TypeOK
  <2>2. \A u \in Tasks : (Queued(u)' <=> Queued(u)) /\ (Held(u)' <=> Held(u))
    BY <2>1 DEF Queued, Held
  <2>3. \A u \in Tasks : Status(u)' = Status(u)
    BY <1>a, <2>1, <2>2, StatusKept
  <2>4. QED
    BY <2>1, <2>3 DEF Fates
<1>7. CASE StopDiscard
  <2>1. /\ UNCHANGED <<tpc, wtask, started>> /\ queue' = [p \in Priorities |-> <<>>]
        /\ \A p \in Priorities : DOMAIN queue'[p] = {}
    BY <1>7 DEF StopDiscard
  <2>2. \A t \in Tasks : ~Queued(t)' /\ (Held(t)' <=> Held(t))
    BY <2>1 DEF Queued, Held
  <2>3. ASSUME NEW t \in Tasks, Queued(t) PROVE Status(t) = "queued" /\ Status(t)' = "discarded"
    <3>1. tpc[t] \in TakenIn /\ t \notin started /\ ~Held(t)
      BY <2>3 DEF TasksInv
    <3>2. QED
      BY <2>1, <2>2, <2>3, <3>1 DEF Status, TakenIn
  <2>4. ASSUME NEW t \in Tasks, ~Queued(t) PROVE Status(t) # "queued" /\ Status(t)' = Status(t)
    BY <1>a, <2>1, <2>2, <2>4, StatusAt, StatusKept
  <2>5. Abstract!Discard
    BY <1>b, <2>1, <2>3, <2>4 DEF Abstract!Discard, Fates
  <2>6. QED
    BY <2>5 DEF Abstract!Next
<1>8. CASE MovesNoTask
  <2>1. UNCHANGED <<queue, wtask, started>>
    BY <1>8 DEF MovesNoTask
  <2>2. \A u \in Tasks : (Queued(u)' <=> Queued(u)) /\ (Held(u)' <=> Held(u))
    BY <2>1 DEF Queued, Held
  <2>3. \A u \in Tasks : Status(u)' = Status(u)
    BY <1>8, <1>a, <2>1, <2>2, StatusKept DEF MovesNoTask, TakenIn
  <2>4. QED
    BY <2>1, <2>3 DEF Fates
<1>9. QED
  BY <1>1, <1>2, <1>3, <1>4, <1>5, <1>6, <1>7, <1>8, StepKinds

\* The pool implements TaskPool: one fate per task, strict priority, first in first
\* out within a priority, a bounded backlog, and nothing started twice or after it
\* was refused or thrown away.
THEOREM PoolImplementsTaskPool == Spec => ImplementsTaskPool
<1>1. TypeInv /\ TasksInv /\ [Next]_poolVars => TypeInv' /\ TasksInv'
  BY StepTypes, StepTasks
<1>2. QED
  BY <1>1, InitTypes, InitTasks, InitRefines, StepRefines, PTL
     DEF Spec, ImplementsTaskPool, Abstract!Spec

-----------------------------------------------------------------------------
(* The counter.  The queues hold as many tasks as Total says, since none is *)
(* in them twice; each step moves one task from one side of CounterAgrees   *)
(* to the other, and StopDiscard all that are queued.                       *)

InQueue(p) == {t \in Tasks : \E i \in DOMAIN queue[p] : queue[p][i] = t}
Waiting == {t \in Tasks : Queued(t)}
Uncounted == {t \in Tasks : tpc[t] \in {"appended", "signalled"}}
Lost == {t \in Tasks : Status(t) = "discarded"}

\* A queue in which every task is once is as long as the set of its tasks.
LEMMA QueueLength ==
    ASSUME TypeOK, OnePlace, NEW p \in Priorities
    PROVE  IsFiniteSet(InQueue(p)) /\ Cardinality(InQueue(p)) = Len(queue[p])
<1> DEFINE place == [i \in 1..Len(queue[p]) |-> queue[p][i]]
<1>1. /\ queue[p] \in Seq(Tasks) /\ Len(queue[p]) \in Nat
      /\ DOMAIN queue[p] = 1..Len(queue[p])
      /\ \A i \in 1..Len(queue[p]) : queue[p][i] \in Tasks
  BY LenProperties, ElementOfSeq DEF TypeOK
<1>2. place \in Bijection(1..Len(queue[p]), InQueue(p))
  <2>1. place \in [1..Len(queue[p]) -> InQueue(p)]
    BY <1>1 DEF InQueue
  <2>2. \A i, j \in 1..Len(queue[p]) : place[i] = place[j] => i = j
    BY <1>1 DEF OnePlace
  <2>3. \A t \in InQueue(p) : \E i \in 1..Len(queue[p]) : place[i] = t
    BY <1>1 DEF InQueue
  <2> HIDE DEF place
  <2>4. QED
    BY <2>1, <2>2, <2>3, Fun_IsBij
<1>3. IsFiniteSet(InQueue(p))
  BY PoolAssumption, FS_Subset DEF InQueue
<1>4. QED
  BY <1>1, <1>2, <1>3, Fun_ExistsBij, FS_CountingElements

\* Total is the number of the tasks in the queues.
LEMMA TotalCounts ==
    ASSUME TypeOK, OnePlace
    PROVE  Cardinality(Waiting) = Total
<1>1. Low \in Priorities /\ Medium \in Priorities /\ High \in Priorities
  BY DEF Priorities
<1>2. Low # Medium /\ Low # High /\ Medium # High
  BY DEF Low, Medium, High
<1>3. Waiting = (InQueue(Low) \union InQueue(Medium)) \union InQueue(High)
  BY DEF Waiting, Queued, InQueue, Priorities
<1>4. \A p, q \in Priorities : p # q => InQueue(p) \intersect InQueue(q) = {}
  BY DEF InQueue, OnePlace
<1>5. \A p \in Priorities : /\ IsFiniteSet(InQueue(p))
                            /\ Cardinality(InQueue(p)) = Len(queue[p]) /\ Len(queue[p]) \in Nat
  BY QueueLength, LenProperties DEF TypeOK
<1>6. \A S, T : IsFiniteSet(S) /\ IsFiniteSet(T) /\ S \intersect T = {} =>
        /\ IsFiniteSet(S \union T)
        /\ Cardinality(S \union T) = Cardinality(S) + Cardinality(T) - 0
  BY FS_Union, FS_EmptySet
<1> DEFINE Upper == InQueue(Low) \union InQueue(Medium)
<1>7. IsFiniteSet(Upper) /\ Cardinality(Upper) = Len(queue[Low]) + Len(queue[Medium]) - 0
  <2>1. InQueue(Low) \intersect InQueue(Medium) = {}
    BY <1>1, <1>2, <1>4
  <2>2. IsFiniteSet(InQueue(Low)) /\ IsFiniteSet(InQueue(Medium))
    BY <1>1, <1>5
  <2>3. /\ IsFiniteSet(Upper)
        /\ Cardinality(Upper) = Cardinality(InQueue(Low)) + Cardinality(InQueue(Medium)) - 0
    BY <1>6, <2>1, <2>2
  <2>4. QED
    BY <1>1, <1>5, <2>3
<1>8. Upper \intersect InQueue(High) = {}
  BY <1>1, <1>2, <1>4
<1>9. Waiting = Upper \union InQueue(High)
  BY <1>3
<1> HIDE DEF Upper
<1>10. Cardinality(Waiting) = Cardinality(Upper) + Len(queue[High]) - 0
  BY <1>1, <1>5, <1>6, <1>7, <1>8, <1>9
<1>11. QED
  BY <1>1, <1>5, <1>7, <1>10 DEF Total

\* The sets that are counted are finite.
LEMMA CountedFinite ==
    /\ IsFiniteSet(Waiting) /\ IsFiniteSet(Uncounted) /\ IsFiniteSet(Lost)
    /\ IsFiniteSet(At("took"))
    /\ Cardinality(Waiting) \in Nat /\ Cardinality(Uncounted) \in Nat
    /\ Cardinality(Lost) \in Nat /\ Cardinality(At("took")) \in Nat
<1>1. /\ Waiting \subseteq Tasks /\ Uncounted \subseteq Tasks /\ Lost \subseteq Tasks
      /\ At("took") \subseteq Workers
  BY DEF Waiting, Uncounted, Lost, At
<1>2. QED
  BY <1>1, PoolAssumption, FS_Subset, FS_CardinalityType

\* Every step keeps the counter in agreement.
LEMMA StepCounter ==
    TypeInv /\ TasksInv /\ CounterAgrees /\ [Next]_poolVars => CounterAgrees'
<1> SUFFICES ASSUME TypeInv, TasksInv, CounterAgrees, [Next]_poolVars
             PROVE  queueSize' + Cardinality(Uncounted')
                      = Total' + Cardinality(At("took")') + Cardinality(Lost')
  BY DEF CounterAgrees, Uncounted, Lost
<1> DEFINE Goal == queueSize' + Cardinality(Uncounted')
                     = Total' + Cardinality(At("took")') + Cardinality(Lost')
<1>a. TypeOK /\ TypeOK' /\ TasksInv' /\ Total \in Nat /\ queueSize \in Int
  BY StepTypes, StepTasks, TotalType DEF TypeInv, TypeOK
<1>b. queueSize + Cardinality(Uncounted) = Total + Cardinality(At("took")) + Cardinality(Lost)
  BY DEF CounterAgrees, Uncounted, Lost
<1>c. \A t \in Tasks : t \in Lost <=> tpc[t] \in TakenIn /\ ~Queued(t) /\ ~Held(t) /\ t \notin started
  BY <1>a, StatusAt DEF Lost
<1>d. \A t \in Tasks : t \in Lost' <=> tpc'[t] \in TakenIn /\ ~Queued(t)' /\ ~Held(t)' /\ t \notin started'
  <2>1. ASSUME NEW t \in Tasks
        PROVE  Status(t)' = "discarded"
                 <=> tpc'[t] \in TakenIn /\ ~Queued(t)' /\ ~Held(t)' /\ t \notin started'
    <3>1. Queued(t)' \/ Held(t)' \/ t \in started' => tpc'[t] \in TakenIn
      BY <1>a DEF TasksInv
    <3>2. tpc'[t] \in {"new", "checked", "appended", "signalled", "accepted", "rejected",
                       "inlined"}
      BY <1>a DEF TypeOK
    <3>3. QED
      BY <3>1, <3>2 DEF Status, TakenIn
  <2>2. QED
    BY <2>1 DEF Lost
<1>1. ASSUME NEW w \in Workers, WorkerTake(w) PROVE Goal
  <2> PICK t \in Tasks :
        /\ UNCHANGED <<tpc, started, queueSize>>
        /\ wpc' = [wpc EXCEPT ![w] = "took"]
        /\ Queued(t)
        /\ \A u \in Tasks : Queued(u)' <=> Queued(u) /\ u # t
        /\ \A u \in Tasks : Held(u)' <=> Held(u) \/ u = t
    BY <1>1, <1>a, TakeMoves
  <2>1. Total' = Total - 1 /\ Uncounted' = Uncounted
    BY <1>1, <1>a, TakePops DEF Uncounted
  <2>2. Lost' = Lost
    BY <1>c, <1>d DEF Lost
  <2>3. At("took")' = At("took") \union {w} /\ w \notin At("took")
    BY <1>1, <1>a DEF WorkerTake, At, TypeOK
  <2>4. Cardinality(At("took")') = Cardinality(At("took")) + 1
    BY <2>3, CountedFinite, FS_AddElement
  <2>5. QED
    BY <1>a, <1>b, <2>1, <2>2, <2>4, CountedFinite
<1>2. ASSUME NEW w \in Workers, WorkerRun(w) PROVE Goal
  <2>1. /\ UNCHANGED <<queue, wtask, tpc>> /\ Held(wtask[w])
        /\ started' = started \union {wtask[w]} /\ queueSize' = queueSize - 1
    BY <1>2, <1>a DEF WorkerRun, TypeOK, Held
  <2>2. \A t \in Tasks : (Queued(t)' <=> Queued(t)) /\ (Held(t)' <=> Held(t))
    BY <2>1 DEF Queued, Held
  <2>3. Lost' = Lost
    BY <1>c, <1>d, <2>1, <2>2 DEF Lost
  <2>4. Total' = Total /\ Uncounted' = Uncounted
    BY <2>1 DEF Total, Uncounted
  <2>5. At("took")' = At("took") \ {w} /\ w \in At("took")
    BY <1>2, <1>a DEF WorkerRun, At, TypeOK
  <2>6. Cardinality(At("took")') = Cardinality(At("took")) - 1
    BY <2>5, CountedFinite, FS_RemoveElement
  <2>7. QED
    BY <1>a, <1>b, <2>1, <2>3, <2>4, <2>6, CountedFinite
<1>3. ASSUME NEW w \in Workers, WorkerFinish(w) PROVE Goal
  <2>1. /\ UNCHANGED <<queue, tpc, started, queueSize>> /\ wtask[w] \in started
        /\ wtask' = [wtask EXCEPT ![w] = NoTask]
    BY <1>3 DEF WorkerFinish, TasksInv
  <2>2. \A t \in Tasks : (Queued(t)' <=> Queued(t)) /\ (t # wtask[w] => (Held(t)' <=> Held(t)))
    BY <1>a, <2>1, PoolAssumption DEF Queued, Held, TypeOK
  <2>3. Lost' = Lost
    BY <1>c, <1>d, <2>1, <2>2 DEF Lost
  <2>4. Total' = Total /\ Uncounted' = Uncounted /\ At("took")' = At("took")
    BY <1>3, <1>a, <2>1 DEF WorkerFinish, Total, Uncounted, At, TypeOK
  <2>5. QED
    BY <1>b, <2>1, <2>3, <2>4
<1>4. ASSUME NEW t \in Tasks, Refuses(t) PROVE Goal
  <2>1. /\ UNCHANGED <<queue, wpc, wtask, started, queueSize>>
        /\ \A u \in Tasks :
             \/ tpc'[u] = tpc[u]
             \/ tpc[u] \in {"new", "checked"} /\ tpc'[u] \in {"rejected", "inlined"}
    BY <1>4, <1>a DEF Refuses, TypeOK
  <2>2. \A u \in Tasks : (Queued(u)' <=> Queued(u)) /\ (Held(u)' <=> Held(u))
    BY <2>1 DEF Queued, Held
  <2>3. Lost' = Lost
    BY <1>c, <1>d, <2>1, <2>2 DEF Lost, TakenIn
  <2>4. Total' = Total /\ Uncounted' = Uncounted /\ At("took")' = At("took")
    BY <2>1 DEF Total, Uncounted, At
  <2>5. QED
    BY <1>b, <2>1, <2>3, <2>4
<1>5. ASSUME NEW t \in Tasks, EnqueueAppend(t) PROVE Goal
  <2>1. /\ UNCHANGED <<wpc, wtask, started, queueSize>>
        /\ tpc[t] = "checked" /\ tpc' = [tpc EXCEPT ![t] = "appended"]
    BY <1>5 DEF EnqueueAppend
  <2>2. \A u \in Tasks : (Queued(u)' <=> Queued(u) \/ u = t) /\ (Held(u)' <=> Held(u))
    BY <1>5, <1>a, <2>1, AppendMoves DEF Held
  <2>3. Lost' = Lost
    BY <1>a, <1>c, <1>d, <2>1, <2>2 DEF Lost, TakenIn, TypeOK
  <2>4. Total' = Total + 1 /\ At("took")' = At("took")
    BY <1>5, <1>a, <2>1, PushTotal DEF EnqueueAppend, At
  <2>5. Uncounted' = Uncounted \union {t} /\ t \notin Uncounted
    BY <1>a, <2>1 DEF Uncounted, TypeOK
  <2>6. Cardinality(Uncounted') = Cardinality(Uncounted) + 1
    BY <2>5, CountedFinite, FS_AddElement
  <2>7. QED
    BY <1>a, <1>b, <2>1, <2>3, <2>4, <2>6, CountedFinite
<1>6. ASSUME NEW t \in Tasks, EnqueueCount(t) PROVE Goal
  <2>1. /\ UNCHANGED <<queue, wpc, wtask, started>> /\ queueSize' = queueSize + 1
        /\ tpc[t] = "signalled" /\ tpc' = [tpc EXCEPT ![t] = "accepted"]
    BY <1>6 DEF EnqueueCount
  <2>2. \A u \in Tasks : (Queued(u)' <=> Queued(u)) /\ (Held(u)' <=> Held(u))
    BY <2>1 DEF Queued, Held
  <2>3. Lost' = Lost
    BY <1>a, <1>c, <1>d, <2>1, <2>2 DEF Lost, TakenIn, TypeOK
  <2>4. Total' = Total /\ At("took")' = At("took")
    BY <2>1 DEF Total, At
  <2>5. Uncounted' = Uncounted \ {t} /\ t \in Uncounted
    BY <1>a, <2>1 DEF Uncounted, TypeOK
  <2>6. Cardinality(Uncounted') = Cardinality(Uncounted) - 1
    BY <2>5, CountedFinite, FS_RemoveElement
  <2>7. QED
    BY <1>a, <1>b, <2>1, <2>3, <2>4, <2>6, CountedFinite
<1>7. CASE StopDiscard
  <2>1. /\ UNCHANGED <<tpc, wtask, started, queueSize>>
        /\ \A p \in Priorities : DOMAIN queue'[p] = {}
        /\ \A w \in Workers : wpc'[w] = "took" <=> wpc[w] = "took"
    BY <1>7, <1>a DEF StopDiscard, TypeOK
  <2>2. \A t \in Tasks : ~Queued(t)' /\ (Held(t)' <=> Held(t))
    BY <2>1 DEF Queued, Held
  <2>3. \A t \in Tasks : Queued(t) => tpc[t] \in TakenIn /\ ~Held(t) /\ t \notin started
    BY DEF TasksInv
  <2>4. Lost' = Lost \union Waiting /\ Lost \intersect Waiting = {}
    BY <1>c, <1>d, <2>1, <2>2, <2>3 DEF Lost, Waiting
  <2>5. Cardinality(Lost') = Cardinality(Lost) + Total
    <3>1. Cardinality(Lost \union Waiting) = Cardinality(Lost) + Cardinality(Waiting) - 0
      BY <2>4, CountedFinite, FS_Union, FS_EmptySet
    <3>2. QED
      BY <1>a, <2>4, <3>1, CountedFinite, TotalCounts DEF TasksInv
  <2>6. Total' = 0 /\ Uncounted' = Uncounted /\ At("took")' = At("took")
    BY <1>7, <2>1, DiscardTotal DEF Uncounted, At
  <2>7. QED
    BY <1>a, <1>b, <2>1, <2>5, <2>6, CountedFinite
<1>8. CASE MovesNoTask
  <2>1. UNCHANGED <<queue, wtask, started, queueSize>>
    BY <1>8 DEF MovesNoTask
  <2>2. \A u \in Tasks : (Queued(u)' <=> Queued(u)) /\ (Held(u)' <=> Held(u))
    BY <2>1 DEF Queued, Held
  <2>3. Lost' = Lost
    BY <1>8, <1>c, <1>d, <2>1, <2>2 DEF MovesNoTask, Lost, TakenIn
  <2>4. Total' = Total /\ Uncounted' = Uncounted /\ At("took")' = At("took")
    BY <1>8, <2>1 DEF MovesNoTask, Total, Uncounted, At
  <2>5. QED
    BY <1>b, <2>1, <2>3, <2>4
<1>9. QED
  BY <1>1, <1>2, <1>3, <1>4, <1>5, <1>6, <1>7, <1>8, StepKinds

\* The counter that Stop(true) polls agrees with the queues, up to the updates still to
\* come and the tasks that Stop threw away.
THEOREM CounterHolds == Spec => []CounterAgrees
<1>1. Init => CounterAgrees
  <2> SUFFICES ASSUME Init PROVE CounterAgrees
    OBVIOUS
  <2>1. Uncounted = {} /\ At("took") = {}
    BY DEF Init, Uncounted, At
  <2>2. Lost = {}
    BY InitTypes, InitTasks, StatusAt DEF Init, TypeInv, Lost, TakenIn
  <2>3. queueSize = 0 /\ Total = 0
    BY InitTotal DEF Init
  <2>4. Cardinality(Uncounted) = 0 /\ Cardinality(At("took")) = 0 /\ Cardinality(Lost) = 0
    BY <2>1, <2>2, FS_EmptySet
  <2>5. QED
    BY <2>3, <2>4 DEF CounterAgrees, Uncounted, Lost
<1>2. TypeInv /\ TasksInv /\ [Next]_poolVars => TypeInv' /\ TasksInv'
  BY StepTypes, StepTasks
<1>3. QED
  BY <1>1, <1>2, InitTypes, InitTasks, StepCounter, PTL DEF Spec
=============================================================================
