---------------------------- MODULE Timers_proofs ----------------------------
(***************************************************************************)
(* Proofs about timing_wheel.go and context.go.                            *)
(*                                                                         *)
(* Contexts with TimerTasks, for any number of users, objects and timers   *)
(* and any bound on the lives of the wheel: the types, with one holder for *)
(* each object; that CancelTask is final; and that only a timer that was   *)
(* past its check when its context was released cancels another user.      *)
(*                                                                         *)
(* TimingWheel, for any levels, tasks and timeouts: the types; that a task *)
(* has one entry as long as it is wanted; that removal and expiry are      *)
(* final; and how late a task can be.                                      *)
(***************************************************************************)
EXTENDS Contexts, TimingWheel, TLAPS, SequenceTheorems, FiniteSetTheorems,
        WellFoundedInduction

-----------------------------------------------------------------------------
(* The timers.  All that is known of them follows from the steps of        *)
(* TimerTasks, whoever takes them.                                         *)

TimerMove ==
    \/ InitWheel \/ StopWheel \/ StopStep
    \/ \E t \in Timers : AddCheck(t) \/ AddLate(t) \/ AddEnter(t) \/ CancelTask(t)
    \/ \E t \in Timers : TimerStep(t) \/ CallbackReturns(t)
    \/ UNCHANGED timerVars

\* A timer that has an entry has been entered, and one of a one-shot timer is gone
\* when it has fired; a cancelled timer has no entry, and has one late callback at most.
Entry(t) ==
    /\ t \in timerTasks \union cancelled => tpc[t] \notin {"new", "refused", "checked"}
    /\ t \in timerTasks \ Repeated => tpc[t] \in {"entered", "waiting", "ended"}
    /\ t \in cancelled =>
        /\ t \notin timerTasks
        /\ tooLate[t] + (IF tpc[t] = "passed" THEN 1 ELSE 0) <=
             IF t \in Repeated THEN 1 ELSE 0
    /\ t \notin cancelled => tooLate[t] = 0
    /\ tpc[t] = "returned" => t \in Repeated

TimersInv == TimersTypeOK /\ \A t \in Timers : Entry(t)

\* There is no timer at first.
LEMMA InitTimersInv == InitTimers => TimersInv
<1>1. ASSUME InitTimers PROVE TimersTypeOK
  <2>1. 0 \in 0..MaxInits
    BY TimerTasksAssumption
  <2>2. watch \in [Timers -> 0..MaxInits] /\ tooLate \in [Timers -> Nat]
    BY <1>1, <2>1 DEF InitTimers
  <2>3. tpc \in [Timers -> {"new", "refused", "checked", "entered", "waiting", "passed",
                            "callback", "returned", "ended"}]
    BY <1>1 DEF InitTimers
  <2>. QED  BY <1>1, <2>1, <2>2, <2>3 DEF InitTimers, TimersTypeOK
<1>2. InitTimers => \A t \in Timers : Entry(t)
  BY DEF InitTimers, Entry
<1>. QED  BY <1>1, <1>2 DEF TimersInv

\* A step of the wheel or of a timer keeps the types.
LEMMA TimerMoveTypes == TimersTypeOK /\ TimerMove => TimersTypeOK'
<1>. SUFFICES ASSUME TimersTypeOK, TimerMove PROVE TimersTypeOK'
  OBVIOUS
<1>. USE TimerTasksAssumption DEF TimersTypeOK, lifeVars, timerGhosts, GoTimer
<1>1. CASE InitWheel
  <2>1. stopCh' \in 0..MaxInits
    BY <1>1 DEF InitWheel
  <2>. QED  BY <1>1, <2>1 DEF InitWheel
<1>2. CASE StopWheel \/ StopStep
  BY <1>2 DEF StopWheel, StopStep, StopCloses, TickLoopEnds, StopClears
<1>3. ASSUME NEW t \in Timers, AddCheck(t) \/ AddLate(t)
      PROVE  TimersTypeOK'
  BY <1>3 DEF AddCheck, AddLate
<1>4. ASSUME NEW t \in Timers, AddEnter(t)
      PROVE  TimersTypeOK'
  BY <1>4 DEF AddEnter
<1>5. ASSUME NEW t \in Timers, CancelTask(t)
      PROVE  TimersTypeOK'
  BY <1>5 DEF CancelTask
<1>6. ASSUME NEW t \in Timers, TimerWaits(t) \/ TimerStops(t) \/ CallbackReturns(t)
      PROVE  TimersTypeOK'
  <2>1. 0 \in 0..MaxInits /\ watch' \in [Timers -> 0..MaxInits]
    BY <1>6 DEF TimerWaits, TimerStops, CallbackReturns
  <2>2. tpc' \in [Timers -> {"new", "refused", "checked", "entered", "waiting", "passed",
                             "callback", "returned", "ended"}]
    BY <1>6 DEF TimerWaits, TimerStops, CallbackReturns
  <2>. QED  BY <1>6, <2>1, <2>2 DEF TimerWaits, TimerStops, CallbackReturns
<1>7. ASSUME NEW t \in Timers, TimerFires(t)
      PROVE  TimersTypeOK'
  BY <1>7 DEF TimerFires
<1>8. ASSUME NEW t \in Timers, CallbackBegins(t)
      PROVE  TimersTypeOK'
  <2>1. tooLate' \in [Timers -> Nat]
    BY <1>8 DEF CallbackBegins
  <2>. QED  BY <1>8, <2>1 DEF CallbackBegins
<1>9. CASE UNCHANGED timerVars
  BY <1>9 DEF timerVars
<1>. QED
  BY <1>1, <1>2, <1>3, <1>4, <1>5, <1>6, <1>7, <1>8, <1>9 DEF TimerMove, TimerStep

\* A step of one timer leaves the entries of the others as they are.
LEMMA OtherEntries ==
    ASSUME TimersInv, NEW t \in Timers, Entry(t)',
           \A v \in Timers : v # t =>
             /\ tpc'[v] = tpc[v] /\ tooLate'[v] = tooLate[v]
             /\ (v \in timerTasks' <=> v \in timerTasks)
             /\ (v \in cancelled' <=> v \in cancelled)
    PROVE  \A v \in Timers : Entry(v)'
BY DEF TimersInv, Entry

\* A step of the wheel or of a timer keeps what is known of the entries.
LEMMA TimerMoveKeeps == TimersInv /\ TimerMove => TimersInv'
<1>. SUFFICES ASSUME TimersInv, TimerMove PROVE \A v \in Timers : Entry(v)'
  BY TimerMoveTypes DEF TimersInv
<1>. USE DEF TimersTypeOK, lifeVars, timerGhosts, GoTimer
<1>1. CASE InitWheel \/ StopWheel \/ StopStep \/ UNCHANGED timerVars
  <2>1. timerTasks' \in {timerTasks, {}} /\ UNCHANGED <<tpc, timerGhosts>>
    BY <1>1 DEF InitWheel, StopWheel, StopStep, StopCloses, TickLoopEnds, StopClears, timerVars
  <2>. QED  BY <2>1 DEF TimersInv, Entry
<1>2. ASSUME NEW t \in Timers, AddCheck(t) \/ AddLate(t) \/ AddEnter(t) \/ CancelTask(t)
      PROVE  \A v \in Timers : Entry(v)'
  <2>1. Entry(t)'
    BY <1>2 DEF AddCheck, AddLate, AddEnter, CancelTask, TimersInv, Entry
  <2>. QED  BY <1>2, <2>1, OtherEntries DEF AddCheck, AddLate, AddEnter, CancelTask, TimersInv
<1>3. ASSUME NEW t \in Timers, TimerStep(t) \/ CallbackReturns(t)
      PROVE  \A v \in Timers : Entry(v)'
  <2>1. Entry(t)'
    BY <1>3 DEF TimerStep, TimerWaits, TimerFires, TimerStops, CallbackBegins,
                CallbackReturns, TimersInv, Entry
  <2>. QED
    BY <1>3, <2>1, OtherEntries DEF TimerStep, TimerWaits, TimerFires, TimerStops,
       CallbackBegins, CallbackReturns, TimersInv
<1>. QED  BY <1>1, <1>2, <1>3 DEF TimerMove

-----------------------------------------------------------------------------
(* The contexts.  Their types are inductive with the uniqueness of holders *)
(* that TypeOK states.                                                     *)

CtxTypes ==
    /\ upc \in [Users -> {"new", "made", "registered", "adding", "active", "cancelled",
                          "resetting", "released"}]
    /\ obj \in [Users -> Objects \union {NoObject}]
    /\ wpc \in [Users -> {"none", "locking", "waiting", "woken", "returned"}]
    /\ pool \in Seq(Objects)
    /\ err \in [Objects -> {"none", "canceled", "deadline"}]
    /\ callbacks \in [Objects -> SUBSET Users]
    /\ timerId \in [Objects -> Users \union {NoUser}]
    /\ calls \in [Users -> Nat]
    /\ by \in [Objects -> Users \union {NoUser}]
    /\ hit \subseteq Users
    /\ escaped \subseteq Users

Owned ==
    /\ \A i, j \in DOMAIN pool : pool[i] = pool[j] => i = j
    /\ \A u \in Holding : ~Pooled(obj[u]) /\ \A v \in Holding : obj[u] = obj[v] => u = v
    /\ \A u \in Users : upc[u] # "new" => obj[u] \in Objects

CtxInv == CtxTypes /\ Owned

\* No context exists at first.
LEMMA InitCtx == Init => CtxInv
<1>. SUFFICES ASSUME Init PROVE CtxInv
  OBVIOUS
<1>1. CtxTypes
  <2>1. pool \in Seq(Objects)
    BY EmptySeq DEF Init
  <2>. QED  BY <2>1 DEF Init, CtxTypes
<1>2. Owned
  BY LenProperties DEF Init, Owned, Holding, Pooled
<1>. QED  BY <1>1, <1>2 DEF CtxInv

\* There is an object that is neither pooled nor held when the pool is empty and a
\* user has none yet: the other users hold fewer than there are.
LEMMA NewObjectIsFree ==
    ASSUME CtxInv, NEW u \in Users, upc[u] = "new", pool = <<>>
    PROVE  NewObject \in Objects /\ ~Pooled(NewObject) /\ \A v \in Holding : obj[v] # NewObject
<1>1. \A o \in Objects : ~Pooled(o)
  BY LenProperties DEF Pooled
<1>2. \E o \in Objects : \A v \in Holding : obj[v] # o
  <2>. SUFFICES ASSUME \A o \in Objects : \E v \in Holding : obj[v] = o PROVE FALSE
    OBVIOUS
  <2>. DEFINE holder == [o \in Objects |-> CHOOSE v \in Holding : obj[v] = o]
  <2>1. \A o \in Objects : holder[o] \in Holding /\ obj[holder[o]] = o
    OBVIOUS
  <2>2. holder \in [Objects -> Users \ {u}]
    BY <2>1 DEF Holding
  <2>3. /\ IsFiniteSet(Users \ {u})
        /\ Cardinality(Users \ {u}) = Cardinality(Users) - 1
    BY ContextsAssumption, FS_RemoveElement
  <2>4. Cardinality(Users \ {u}) < Cardinality(Objects)
    BY <2>3, ContextsAssumption, FS_CardinalityType
  <2>5. \E a, b \in Objects : a # b /\ holder[a] = holder[b]
    <3>. HIDE DEF holder
    <3>. QED  BY <2>2, <2>3, <2>4, ContextsAssumption, FS_PigeonHole
  <2>. QED  BY <2>1, <2>5
<1>. QED  BY <1>1, <1>2 DEF NewObject

\* What the pool hands out was neither held nor is pooled any more.
LEMMA MakeTakes ==
    ASSUME CtxInv, NEW u \in Users, Make(u)
    PROVE  /\ obj'[u] \in Objects /\ obj' = [obj EXCEPT ![u] = obj'[u]]
           /\ \A v \in Holding : obj[v] # obj'[u]
           /\ pool' \in Seq(Objects)
           /\ \A i, j \in DOMAIN pool' : pool'[i] = pool'[j] => i = j
           /\ \A i \in DOMAIN pool' : /\ pool'[i] # obj'[u]
                                      /\ \E j \in DOMAIN pool : pool'[i] = pool[j]
           /\ timerId' = [timerId EXCEPT ![obj'[u]] = NoUser]
<1>0. PICK o \in Objects :
        /\ IF pool = <<>>
           THEN o = NewObject /\ UNCHANGED pool
           ELSE o = pool[Len(pool)] /\ pool' = SubSeq(pool, 1, Len(pool) - 1)
        /\ obj' = [obj EXCEPT ![u] = o]
        /\ timerId' = [timerId EXCEPT ![o] = NoUser]
  BY DEF Make
<1>1. /\ obj'[u] = o /\ upc[u] = "new" /\ pool \in Seq(Objects)
      /\ obj' = [obj EXCEPT ![u] = o] /\ timerId' = [timerId EXCEPT ![o] = NoUser]
  BY <1>0 DEF Make, CtxInv, CtxTypes
<1>2. CASE pool = <<>>
  <2>1. o = NewObject /\ pool' = pool
    BY <1>0, <1>2
  <2>. QED  BY <1>1, <1>2, <2>1, NewObjectIsFree, LenProperties DEF CtxInv, Owned, Pooled
<1>3. CASE pool # <<>>
  <2>. DEFINE n == Len(pool)
  <2>1. n \in Nat /\ n > 0 /\ DOMAIN pool = 1..n /\ \A i \in 1..n : pool[i] \in Objects
    BY <1>1, <1>3, LenProperties, ElementOfSeq, EmptySeq
  <2>2. o = pool[n] /\ pool' = SubSeq(pool, 1, n - 1)
    BY <1>0, <1>3
  <2>3. /\ pool' \in Seq(Objects) /\ Len(pool') = n - 1
        /\ \A i \in 1..(n - 1) : pool'[i] = pool[i]
    BY <2>1, <2>2, SubSeqProperties
  <2>4. DOMAIN pool' = 1..(n - 1)
    BY <2>3, LenProperties
  <2>5. Pooled(o)
    BY <2>1, <2>2 DEF Pooled
  <2>. QED  BY <1>1, <2>1, <2>2, <2>3, <2>4, <2>5 DEF CtxInv, Owned
<1>. QED  BY <1>2, <1>3

\* What a call of Cancel does to object o.
LEMMA CancelEffects ==
    ASSUME CtxInv, NEW o \in Objects, NEW why \in {"canceled", "deadline"}, NEW who \in Users,
           CancelContext(o, why, who)
    PROVE  /\ err' \in [Objects -> {"none", "canceled", "deadline"}]
           /\ wpc' \in [Users -> {"none", "locking", "waiting", "woken", "returned"}]
           /\ callbacks' \in [Objects -> SUBSET Users]
           /\ calls' \in [Users -> Nat]
           /\ by' \in [Objects -> Users \union {NoUser}]
           /\ hit' \subseteq Users
           /\ \A q \in Objects : by'[q] = by[q] \/ (q = o /\ by'[q] = who)
           /\ \A q \in Objects : callbacks'[q] = callbacks[q] \/ (q = o /\ callbacks'[q] = {})
           /\ \A u \in Users :
                \/ calls'[u] = calls[u]
                \/ u \in callbacks[o] /\ calls'[u] = calls[u] + 1 /\ callbacks'[o] = {}
<1>1. CASE err[o] # "none"
  BY <1>1 DEF CancelContext, CtxInv, CtxTypes
<1>2. CASE err[o] = "none"
  <2>. DEFINE woken(u) == wpc[u] = "waiting" /\ obj[u] = o
  <2>0. /\ err' = [err EXCEPT ![o] = why]
        /\ callbacks' = [callbacks EXCEPT ![o] = {}]
        /\ wpc' = [u \in Users |-> IF woken(u) THEN "woken" ELSE wpc[u]]
        /\ calls' = [u \in Users |-> IF u \in callbacks[o] THEN calls[u] + 1 ELSE calls[u]]
    BY <1>2 DEF CancelContext
  <2>1. /\ err' \in [Objects -> {"none", "canceled", "deadline"}]
        /\ callbacks' \in [Objects -> SUBSET Users]
    BY <2>0 DEF CtxInv, CtxTypes
  <2>2. calls' \in [Users -> Nat]
    BY <2>0 DEF CtxInv, CtxTypes
  <2>4. wpc' \in [Users -> {"none", "locking", "waiting", "woken", "returned"}]
    <3>. HIDE DEF woken
    <3>. QED  BY <2>0 DEF CtxInv, CtxTypes
  <2>3. by' \in [Objects -> Users \union {NoUser}] /\ hit' \subseteq Users
    BY <1>2 DEF CancelContext, CtxInv, CtxTypes, Holding
  <2>. QED  BY <1>2, <2>1, <2>2, <2>3, <2>4 DEF CancelContext, CtxInv, CtxTypes
<1>. QED  BY <1>1, <1>2

\* Steps that leave the pool and the objects of the users alone keep the holders.
LEMMA OwnedFrame ==
    ASSUME Owned, UNCHANGED <<pool, obj>>, Holding' \subseteq Holding,
           \A u \in Users : upc'[u] # "new" => upc[u] # "new"
    PROVE  Owned'
BY DEF Owned, Pooled

\* How far a user is and how far its timer: the timer is added on the way from
\* registered to active, the context then knows its number as long as the timer has
\* not fired, and the release cancels it or finds it past its check.
LinkedFor(u) ==
    /\ upc[u] \in {"new", "made", "registered"} => tpc[u] = "new"
    /\ upc[u] = "adding" <=> tpc[u] = "checked"
    /\ upc[u] \in {"active", "cancelled"} /\ tpc[u] \in {"entered", "waiting"} =>
        timerId[obj[u]] = u
    /\ upc[u] \in {"resetting", "released"} =>
        /\ tpc[u] \in {"entered", "waiting"} => u \notin timerTasks
        /\ tpc[u] \in {"passed", "callback"} => u \in escaped

Linked == \A u \in Users : LinkedFor(u)

\* An object passes from the pool to one user and back.
LEMMA StepCtx == CtxInv /\ Linked /\ [Next]_vars => CtxInv'
<1>. SUFFICES ASSUME CtxInv, Linked, [Next]_vars PROVE CtxInv'
  OBVIOUS
<1>. USE ContextsAssumption DEF useVars, objectVars, ctxGhosts, GoUser
<1>0. CtxTypes /\ Owned
  BY DEF CtxInv
<1>1. ASSUME NEW u \in Users, Make(u) PROVE CtxInv'
  <2>. DEFINE o == obj'[u]
  <2>1. /\ o \in Objects /\ obj' = [obj EXCEPT ![u] = o]
        /\ \A v \in Holding : obj[v] # o
        /\ pool' \in Seq(Objects)
        /\ \A i, j \in DOMAIN pool' : pool'[i] = pool'[j] => i = j
        /\ \A i \in DOMAIN pool' : pool'[i] # o /\ \E j \in DOMAIN pool : pool'[i] = pool[j]
        /\ timerId' = [timerId EXCEPT ![o] = NoUser]
    BY <1>1, MakeTakes
  <2>. HIDE DEF o
  <2>2. CtxTypes'
    <3>1. hit' \subseteq Users
      BY <1>0, <1>1 DEF Make, CtxTypes
    <3>. QED  BY <1>0, <1>1, <2>1, <3>1 DEF Make, CtxTypes
  <2>3. upc' = [upc EXCEPT ![u] = "made"] /\ Holding' = Holding \union {u} /\ u \notin Holding
    BY <1>0, <1>1 DEF Make, CtxTypes, Holding
  <2>4. \A v \in Users : obj'[v] = IF v = u THEN o ELSE obj[v]
    BY <1>0, <2>1 DEF CtxTypes
  <2>5. Holding \subseteq Users
    BY DEF Holding
  <2>6. \A v \in Holding' : ~Pooled(obj[v])' /\ \A t \in Holding' : obj'[v] = obj'[t] => v = t
    BY <1>0, <2>1, <2>3, <2>4, <2>5 DEF Owned, Pooled
  <2>7. \A v \in Users : upc'[v] # "new" => obj'[v] \in Objects
    BY <1>0, <2>1, <2>3, <2>4 DEF Owned, CtxTypes
  <2>. QED  BY <2>1, <2>2, <2>6, <2>7 DEF CtxInv, Owned
<1>2. ASSUME NEW u \in Users, Release(u) PROVE CtxInv'
  <2>. DEFINE o == obj[u]
              n == Len(pool)
  <2>1. /\ o \in Objects /\ pool \in Seq(Objects) /\ obj' = obj
        /\ Holding' = Holding \ {u} /\ u \in Holding /\ Holding \subseteq Users
        /\ upc' = [upc EXCEPT ![u] = "released"] /\ upc[u] = "resetting"
    BY <1>0, <1>2 DEF Release, CtxTypes, Owned, Holding
  <2>2. /\ n \in Nat /\ DOMAIN pool = 1..n
        /\ DOMAIN pool' = 1..(n + 1) /\ pool' \in Seq(Objects)
        /\ \A i \in 1..n : pool'[i] = pool[i]
        /\ pool'[n + 1] = o
    BY <1>2, <2>1, AppendProperties, LenProperties DEF Release
  <2>3. CtxTypes'
    BY <1>0, <1>2, <2>1, <2>2 DEF Release, CtxTypes
  <2>4. ~Pooled(o) /\ \A v \in Holding : obj[v] = o => v = u
    BY <1>0, <2>1 DEF Owned
  <2>5. \A i, j \in DOMAIN pool' : pool'[i] = pool'[j] => i = j
    BY <1>0, <2>2, <2>4 DEF Owned, Pooled
  <2>6. \A v \in Holding' : ~Pooled(obj[v])' /\ \A t \in Holding' : obj'[v] = obj'[t] => v = t
    BY <1>0, <2>1, <2>2, <2>4 DEF Owned, Pooled
  <2>7. \A v \in Users : upc'[v] # "new" => obj'[v] \in Objects
    BY <1>0, <2>1 DEF Owned, CtxTypes
  <2>. QED  BY <2>3, <2>5, <2>6, <2>7 DEF CtxInv, Owned
<1>3. ASSUME NEW u \in Users,
             \/ RegisterCallback(u) \/ ActivateDone(u) \/ ActivateTooLate(u) \/ ActivateAdds(u)
             \/ Activated(u) \/ Cancel(u) \/ ReleaseTimer(u)
      PROVE  CtxInv'
  <2>1. obj[u] \in Objects
    BY <1>0, <1>3 DEF RegisterCallback, ActivateDone, ActivateTooLate, ActivateAdds,
       Activated, Cancel, ReleaseTimer, Owned
  <2>0. /\ UNCHANGED <<pool, obj>>
        /\ upc[u] \in {"made", "registered", "adding", "active", "cancelled"}
        /\ \E s \in {"registered", "adding", "active", "cancelled", "resetting"} :
             upc' = [upc EXCEPT ![u] = s]
    BY <1>3 DEF RegisterCallback, ActivateDone, ActivateTooLate, ActivateAdds,
       Activated, Cancel, ReleaseTimer
  <2>2. /\ UNCHANGED <<pool, obj>>
        /\ upc' \in [Users -> {"new", "made", "registered", "adding", "active", "cancelled",
                               "resetting", "released"}]
        /\ upc[u] \notin {"new", "resetting", "released"} /\ upc'[u] \notin {"new", "released"}
        /\ \A v \in Users : v # u => upc'[v] = upc[v]
    BY <1>0, <2>0 DEF CtxTypes
  <2>3. Owned'
    BY <1>0, <2>2, OwnedFrame DEF Holding
  <2>4. CtxTypes'
    <3>1. CASE ActivateTooLate(u) \/ Cancel(u)
      BY <1>0, <2>1, <2>2, <3>1, CancelEffects DEF ActivateTooLate, Cancel, CtxTypes
    <3>2. CASE RegisterCallback(u)
      BY <1>0, <2>1, <2>2, <3>2 DEF RegisterCallback, CtxTypes
    <3>3. CASE ActivateDone(u) \/ ActivateAdds(u) \/ Activated(u)
      BY <1>0, <2>1, <2>2, <3>3 DEF ActivateDone, ActivateAdds, Activated, CtxTypes
    <3>4. CASE ReleaseTimer(u)
      BY <1>0, <2>1, <2>2, <3>4 DEF ReleaseTimer, CtxTypes
    <3>. QED  BY <1>3, <3>1, <3>2, <3>3, <3>4
  <2>. QED  BY <2>3, <2>4 DEF CtxInv
<1>4. ASSUME NEW u \in Users, WaitBegins(u) \/ WaitLooks(u) PROVE CtxInv'
  <2>1. UNCHANGED <<pool, obj, upc>>
    BY <1>4 DEF WaitBegins, WaitLooks
  <2>2. CtxTypes'
    BY <1>0, <1>4, ZenonT(60) DEF WaitBegins, WaitLooks, CtxTypes
  <2>. QED  BY <1>0, <2>1, <2>2, OwnedFrame DEF CtxInv, Holding
<1>5. ASSUME NEW u \in Users, TimerCancels(u), upc[u] # "new" PROVE CtxInv'
  <2>1. obj[u] \in Objects /\ UNCHANGED <<pool, obj, upc>>
    BY <1>0, <1>5 DEF TimerCancels, Owned
  <2>2. CtxTypes'
    BY <1>0, <1>5, <2>1, CancelEffects DEF TimerCancels, CtxTypes
  <2>. QED  BY <1>0, <2>1, <2>2, OwnedFrame DEF CtxInv, Holding
<1>6. CASE UNCHANGED ctxVars
  <2>1. UNCHANGED <<pool, obj, upc>> /\ CtxTypes'
    BY <1>0, <1>6 DEF ctxVars, CtxTypes
  <2>. QED  BY <1>0, <2>1, OwnedFrame DEF CtxInv, Holding
<1>7. ASSUME NEW u \in Users, TimerCancels(u) PROVE upc[u] # "new"
  BY <1>7 DEF TimerCancels, Linked, LinkedFor
<1>. QED  BY <1>1, <1>2, <1>3, <1>4, <1>5, <1>6, <1>7 DEF Next, User, vars

\* Every step of Contexts is one step of the timers, or none.
LEMMA StepMovesTimers == CtxInv /\ [Next]_vars => TimerMove
<1>. SUFFICES ASSUME CtxInv, [Next]_vars PROVE TimerMove
  OBVIOUS
<1>. USE ContextsAssumption DEF vars, TimerMove
<1>1. ASSUME NEW u \in Users,
             \/ Make(u) \/ RegisterCallback(u) \/ ActivateDone(u) \/ ActivateTooLate(u)
             \/ Cancel(u) \/ Release(u) \/ WaitBegins(u) \/ WaitLooks(u)
      PROVE  UNCHANGED timerVars
  BY <1>1 DEF Make, RegisterCallback, ActivateDone, ActivateTooLate, Cancel, Release,
     WaitBegins, WaitLooks
<1>2. ASSUME NEW u \in Users, ActivateAdds(u) \/ Activated(u) \/ TimerCancels(u)
      PROVE  AddCheck(u) \/ AddLate(u) \/ AddEnter(u) \/ CallbackReturns(u)
  BY <1>2 DEF ActivateAdds, Activated, TimerCancels
<1>3. ASSUME NEW u \in Users, ReleaseTimer(u)
      PROVE  UNCHANGED timerVars \/ \E t \in Users : CancelTask(t)
  BY <1>3 DEF ReleaseTimer, CtxInv, CtxTypes, Owned
<1>. QED  BY <1>1, <1>2, <1>3 DEF Next, User

\* What a step of user u or of its timer owes: the objects and the timers of the
\* others stay as they are, but for entries that are taken out.
LEMMA LinkedOthers ==
    ASSUME CtxInv, Linked, NEW u \in Users, LinkedFor(u)',
           \A v \in Users : v # u => upc'[v] = upc[v] /\ obj'[v] = obj[v] /\ tpc'[v] = tpc[v],
           \A v \in Holding : v # u => timerId'[obj[v]] = timerId[obj[v]],
           \A v \in Users : v # u /\ v \in timerTasks' => v \in timerTasks,
           escaped \subseteq escaped'
    PROVE  Linked'
BY DEF Linked, LinkedFor, Holding

\* A timer of a user that steps on its own.
LEMMA TimerStepLinked ==
    ASSUME CtxInv, TimersInv, Linked, NEW t \in Timers, TimerStep(t), UNCHANGED ctxVars
    PROVE  Linked'
<1>1. UNCHANGED <<upc, obj, timerId, escaped>>
  BY DEF ctxVars, useVars, objectVars, ctxGhosts
<1>2. /\ \A v \in Timers : v # t => tpc'[v] = tpc[v]
      /\ timerTasks' \subseteq timerTasks
      /\ tpc[t] \in {"entered", "waiting", "passed", "returned"}
      /\ tpc'[t] \in {"waiting", "passed", "ended", "callback"}
      /\ tpc'[t] = "waiting" => tpc[t] \in {"entered", "returned"}
      /\ tpc'[t] = "passed" => t \in timerTasks
      /\ tpc'[t] = "callback" => tpc[t] = "passed"
  BY DEF TimerStep, TimerWaits, TimerFires, TimerStops, CallbackBegins, GoTimer, TimersInv,
     TimersTypeOK
<1>3. CASE t \in Users
  <2>1. tpc[t] # "returned"
    BY <1>3, ContextsAssumption DEF TimersInv, Entry
  <2>2. LinkedFor(t)'
    BY <1>1, <1>2, <1>3, <2>1 DEF Linked, LinkedFor, CtxInv, CtxTypes
  <2>. QED  BY <1>1, <1>2, <1>3, <2>2, LinkedOthers, ContextsAssumption DEF Holding
<1>4. CASE t \notin Users
  BY <1>1, <1>2, <1>4, ContextsAssumption DEF Linked, LinkedFor
<1>. QED  BY <1>3, <1>4

\* No timer is added at first.
LEMMA InitLinked == Init => Linked
BY ContextsAssumption DEF Init, InitTimers, Linked, LinkedFor

\* A user and its timer stay linked.
LEMMA StepLinked == CtxInv /\ TimersInv /\ Linked /\ [Next]_vars => Linked'
<1>. SUFFICES ASSUME CtxInv, TimersInv, Linked, [Next]_vars PROVE Linked'
  OBVIOUS
<1>. USE ContextsAssumption DEF useVars, objectVars, ctxGhosts, GoUser, timerVars
<1>0. CtxTypes /\ Owned /\ TimersTypeOK
  BY DEF CtxInv, TimersInv
<1>1. ASSUME NEW u \in Users, Make(u) PROVE Linked'
  <2>1. /\ obj' = [obj EXCEPT ![u] = obj'[u]] /\ obj'[u] \in Objects
        /\ \A v \in Holding : obj[v] # obj'[u]
        /\ timerId' = [timerId EXCEPT ![obj'[u]] = NoUser]
    BY <1>1, MakeTakes
  <2>2. UNCHANGED <<tpc, timerTasks, escaped>> /\ upc' = [upc EXCEPT ![u] = "made"]
    BY <1>1 DEF Make
  <2>3. LinkedFor(u)'
    BY <1>0, <1>1, <2>2 DEF Make, Linked, LinkedFor, CtxTypes
  <2>4. /\ \A v \in Users : v # u => upc'[v] = upc[v] /\ obj'[v] = obj[v]
        /\ \A v \in Holding : timerId'[obj[v]] = timerId[obj[v]]
    BY <1>0, <2>1, <2>2 DEF CtxTypes, Owned, Holding
  <2>. QED  BY <2>2, <2>3, <2>4, LinkedOthers
<1>2. ASSUME NEW u \in Users,
             \/ RegisterCallback(u) \/ ActivateDone(u) \/ ActivateTooLate(u)
             \/ Cancel(u) \/ Release(u) \/ WaitBegins(u) \/ WaitLooks(u)
      PROVE  Linked'
  <2>1. UNCHANGED <<tpc, timerTasks, escaped, timerId, obj>>
    BY <1>2 DEF RegisterCallback, ActivateDone, ActivateTooLate, Cancel, Release, WaitBegins,
       WaitLooks
  <2>2. \/ upc' = upc
        \/ upc[u] = "made" /\ upc' = [upc EXCEPT ![u] = "registered"]
        \/ upc[u] = "registered" /\ upc' = [upc EXCEPT ![u] = "active"]
        \/ upc[u] = "active" /\ upc' = [upc EXCEPT ![u] = "cancelled"]
        \/ upc[u] = "resetting" /\ upc' = [upc EXCEPT ![u] = "released"]
    BY <1>2 DEF RegisterCallback, ActivateDone, ActivateTooLate, Cancel, Release, WaitBegins,
       WaitLooks
  <2>3. LinkedFor(u)'
    BY <1>0, <2>1, <2>2 DEF Linked, LinkedFor, CtxTypes
  <2>. QED  BY <1>0, <2>1, <2>2, <2>3, LinkedOthers DEF CtxTypes
<1>3. ASSUME NEW u \in Users, ActivateAdds(u) PROVE Linked'
  <2>1. UNCHANGED <<timerTasks, escaped, timerId, obj>>
    BY <1>3 DEF ActivateAdds, AddCheck
  <2>2. \/ upc' = [upc EXCEPT ![u] = "active"] /\ tpc' = [tpc EXCEPT ![u] = "refused"]
        \/ upc' = [upc EXCEPT ![u] = "adding"] /\ tpc' = [tpc EXCEPT ![u] = "checked"]
    BY <1>3 DEF ActivateAdds, AddCheck, GoTimer
  <2>3. LinkedFor(u)'
    BY <1>0, <2>1, <2>2 DEF LinkedFor, CtxTypes, TimersTypeOK
  <2>. QED  BY <1>0, <2>1, <2>2, <2>3, LinkedOthers DEF CtxTypes, TimersTypeOK
<1>4. ASSUME NEW u \in Users, Activated(u) PROVE Linked'
  <2>1. UNCHANGED <<escaped, obj>> /\ upc[u] = "adding" /\ upc' = [upc EXCEPT ![u] = "active"]
    BY <1>4 DEF Activated, AddLate, AddEnter
  <2>2. obj[u] \in Objects
    BY <1>0, <2>1 DEF Owned
  <2>3. \/ /\ timerId' = timerId /\ timerTasks' = timerTasks
           /\ tpc' = [tpc EXCEPT ![u] = "passed"]
        \/ /\ timerId' = [timerId EXCEPT ![obj[u]] = u] /\ timerTasks' = timerTasks \union {u}
           /\ tpc' = [tpc EXCEPT ![u] = "entered"]
    BY <1>4 DEF Activated, AddLate, AddEnter, GoTimer
  <2>4. LinkedFor(u)'
    BY <1>0, <2>1, <2>2, <2>3 DEF LinkedFor, CtxTypes, TimersTypeOK
  <2>5. \A v \in Holding : v # u => timerId'[obj[v]] = timerId[obj[v]]
    BY <1>0, <2>1, <2>2, <2>3 DEF Owned, Holding, CtxTypes
  <2>. QED  BY <1>0, <2>1, <2>3, <2>4, <2>5, LinkedOthers DEF CtxTypes, TimersTypeOK
<1>5. ASSUME NEW u \in Users, ReleaseTimer(u) PROVE Linked'
  <2>1. /\ UNCHANGED <<tpc, obj>>
        /\ upc[u] \in {"active", "cancelled"} /\ upc' = [upc EXCEPT ![u] = "resetting"]
        /\ timerId' = [timerId EXCEPT ![obj[u]] = NoUser]
        /\ escaped' = IF tpc[u] \in {"passed", "callback"} THEN escaped \union {u} ELSE escaped
    BY <1>5 DEF ReleaseTimer, CancelTask
  <2>2. timerTasks' = timerTasks \ {timerId[obj[u]]} \/ timerTasks' = timerTasks
    BY <1>5 DEF ReleaseTimer, CancelTask
  <2>3. tpc[u] \in {"entered", "waiting"} => u \notin timerTasks'
    <3>. SUFFICES ASSUME tpc[u] \in {"entered", "waiting"} PROVE u \notin timerTasks'
      OBVIOUS
    <3>1. timerId[obj[u]] = u
      BY <2>1 DEF Linked, LinkedFor
    <3>. QED  BY <1>5, <3>1 DEF ReleaseTimer, CancelTask
  <2>4. obj[u] \in Objects
    BY <1>0, <2>1 DEF Owned
  <2>5. LinkedFor(u)'
    BY <1>0, <2>1, <2>3 DEF Linked, LinkedFor, CtxTypes
  <2>6. \A v \in Holding : v # u => timerId'[obj[v]] = timerId[obj[v]]
    BY <1>0, <2>1, <2>4 DEF Owned, Holding, CtxTypes
  <2>. QED  BY <1>0, <2>1, <2>2, <2>5, <2>6, LinkedOthers DEF CtxTypes
<1>6. ASSUME NEW u \in Users, TimerCancels(u) PROVE Linked'
  <2>1. UNCHANGED <<upc, obj, timerId, escaped, timerTasks>>
    BY <1>6 DEF TimerCancels, CallbackReturns
  <2>2. tpc[u] = "callback" /\ tpc' = [tpc EXCEPT ![u] = "ended"]
    BY <1>6 DEF TimerCancels, CallbackReturns, GoTimer
  <2>3. LinkedFor(u)'
    BY <1>0, <2>1, <2>2 DEF Linked, LinkedFor, TimersTypeOK
  <2>. QED  BY <1>0, <2>1, <2>2, <2>3, LinkedOthers DEF TimersTypeOK
<1>7. ASSUME InitWheel \/ StopWheel \/ StopStep \/ UNCHANGED timerVars, UNCHANGED ctxVars
      PROVE  Linked'
  <2>1. UNCHANGED <<tpc, upc, obj, timerId, escaped>> /\ timerTasks' \in {timerTasks, {}}
    BY <1>7 DEF InitWheel, StopWheel, StopStep, StopCloses, TickLoopEnds, StopClears, ctxVars
  <2>. QED  BY <2>1 DEF Linked, LinkedFor
<1>. QED
  BY <1>1, <1>2, <1>3, <1>4, <1>5, <1>6, <1>7, TimerStepLinked DEF Next, User, vars

-----------------------------------------------------------------------------
\* The users, their contexts and their timers together.

IInv == CtxInv /\ TimersInv /\ Linked

\* It holds at first and is kept by every step.
LEMMA Inductive == /\ Init => IInv
                   /\ IInv /\ [Next]_vars => IInv'
BY InitCtx, InitTimersInv, InitLinked, StepCtx, StepMovesTimers, TimerMoveKeeps, StepLinked
   DEF IInv, Init

\* In every reachable state the variables keep their types, a context in use has one
\* user, and the pool holds an object at most once.
THEOREM TypeCorrect == Spec => []TypeOK
<1>1. IInv => TypeOK
  BY DEF IInv, CtxInv, CtxTypes, Owned, TimersInv, TypeOK
<1>. QED  BY <1>1, Inductive, PTL DEF Spec

\* After CancelTask has returned true a one-shot callback never begins, and that of a
\* repeated timer at most once.
THEOREM CancelIsFinalHolds == Spec => []CancelIsFinal
<1>1. IInv => CancelIsFinal
  BY DEF IInv, TimersInv, TimersTypeOK, Entry, CancelIsFinal
<1>. QED  BY <1>1, Inductive, PTL DEF Spec

-----------------------------------------------------------------------------
(* Stray cancels.  An object is cancelled by its user, or by a timer that  *)
(* has escaped; and a callback is with the object of its user only, once.  *)

Cancelling ==
    \A o \in Objects :
        \/ by[o] \in {NoUser} \union escaped
        \/ by[o] \in Holding /\ obj[by[o]] = o

CallingFor(u) ==
    /\ calls[u] <= 1
    /\ upc[u] \in {"new", "made"} => calls[u] = 0 /\ \A o \in Objects : u \notin callbacks[o]
    /\ \A o \in Objects : u \in callbacks[o] => calls[u] = 0 /\ obj[u] = o

Calling == \A u \in Users : CallingFor(u)

\* Nobody has cancelled anything at first.
LEMMA InitCancelling == Init => Cancelling /\ Calling
BY DEF Init, Cancelling, Calling, CallingFor

\* Who cancels an object holds it or has escaped: past its check, a timer belongs to
\* a user that has been at least activated.
LEMMA CancelKeeps ==
    ASSUME IInv, Cancelling, Calling, NEW u \in Users, NEW why \in {"canceled", "deadline"},
           upc[u] \notin {"new", "made"}, u \in Holding \/ u \in escaped,
           CancelContext(obj[u], why, u), UNCHANGED <<obj, escaped>>,
           \A v \in Users : upc'[v] = upc[v] \/ (v = u /\ upc'[v] \in {"active", "cancelled"})
    PROVE  Cancelling' /\ Calling'
<1>. DEFINE o == obj[u]
<1>1. o \in Objects
  BY DEF IInv, CtxInv, Owned
<1>2. /\ \A q \in Objects : by'[q] = by[q] \/ (q = o /\ by'[q] = u)
      /\ \A q \in Objects : callbacks'[q] = callbacks[q] \/ (q = o /\ callbacks'[q] = {})
      /\ \A v \in Users :
           \/ calls'[v] = calls[v]
           \/ v \in callbacks[o] /\ calls'[v] = calls[v] + 1 /\ callbacks'[o] = {}
  BY <1>1, CancelEffects DEF IInv
<1>3. Holding \subseteq Holding'
  BY DEF Holding
<1>4. Cancelling'
  BY <1>2, <1>3 DEF Cancelling
<1>5. ASSUME NEW v \in Users PROVE CallingFor(v)'
  <2>1. CallingFor(v) /\ calls[v] \in Nat /\ obj' = obj
    BY DEF Calling, IInv, CtxInv, CtxTypes
  <2>2. upc'[v] \in {"new", "made"} => upc[v] \in {"new", "made"}
    OBVIOUS
  <2>3. CASE calls'[v] = calls[v]
    BY <1>2, <2>1, <2>2, <2>3 DEF CallingFor
  <2>4. CASE v \in callbacks[o] /\ calls'[v] = calls[v] + 1 /\ callbacks'[o] = {}
    BY <1>1, <1>2, <2>1, <2>2, <2>4 DEF CallingFor
  <2>. QED  BY <1>2, <2>3, <2>4
<1>. QED  BY <1>4, <1>5 DEF Calling

\* Every step of the users and of their timers keeps both.
LEMMA StepCancelling ==
    IInv /\ Cancelling /\ Calling /\ [Next]_vars => Cancelling' /\ Calling'
<1>. SUFFICES ASSUME IInv, Cancelling, Calling, [Next]_vars PROVE Cancelling' /\ Calling'
  OBVIOUS
<1>. USE ContextsAssumption DEF useVars, objectVars, ctxGhosts, GoUser
<1>0. CtxInv /\ CtxTypes /\ Owned /\ Linked
  BY DEF IInv, CtxInv
<1>1. ASSUME NEW u \in Users, Make(u) PROVE Cancelling' /\ Calling'
  <2>1. obj' = [obj EXCEPT ![u] = obj'[u]]
    BY <1>0, <1>1, MakeTakes
  <2>2. UNCHANGED <<by, calls, callbacks, escaped>> /\ upc' = [upc EXCEPT ![u] = "made"]
        /\ upc[u] = "new"
    BY <1>1 DEF Make
  <2>3. Cancelling'
    BY <1>0, <2>1, <2>2 DEF Cancelling, Holding, CtxTypes
  <2>4. Calling'
    BY <1>0, <2>1, <2>2 DEF Calling, CallingFor, CtxTypes
  <2>. QED  BY <2>3, <2>4
<1>2. ASSUME NEW u \in Users, RegisterCallback(u) PROVE Cancelling' /\ Calling'
  <2>1. /\ UNCHANGED <<obj, by, calls, escaped>> /\ obj[u] \in Objects
        /\ callbacks' = [callbacks EXCEPT ![obj[u]] = @ \union {u}]
        /\ upc' = [upc EXCEPT ![u] = "registered"] /\ upc[u] = "made"
    BY <1>0, <1>2 DEF RegisterCallback, Owned
  <2>2. Cancelling'
    BY <1>0, <2>1 DEF Cancelling, Holding, CtxTypes
  <2>3. Calling'
    BY <1>0, <2>1 DEF Calling, CallingFor, CtxTypes
  <2>. QED  BY <2>2, <2>3
<1>3. ASSUME NEW u \in Users, ActivateTooLate(u) \/ Cancel(u) PROVE Cancelling' /\ Calling'
  <2>1. /\ UNCHANGED <<obj, escaped>>
        /\ upc[u] \in {"registered", "active"}
        /\ \A v \in Users : upc'[v] = upc[v] \/ (v = u /\ upc'[v] \in {"active", "cancelled"})
    BY <1>0, <1>3 DEF ActivateTooLate, Cancel, CtxTypes
  <2>2. CancelContext(obj[u], "deadline", u) \/ CancelContext(obj[u], "canceled", u)
    BY <1>3 DEF ActivateTooLate, Cancel
  <2>3. u \in Holding
    BY <2>1 DEF Holding
  <2>. QED  BY <2>1, <2>2, <2>3, CancelKeeps
<1>4. ASSUME NEW u \in Users,
             \/ ActivateDone(u) \/ ActivateAdds(u) \/ Activated(u) \/ ReleaseTimer(u)
             \/ WaitBegins(u) \/ WaitLooks(u)
      PROVE  Cancelling' /\ Calling'
  <2>1. UNCHANGED <<obj, by, calls, callbacks>> /\ escaped \subseteq escaped'
    BY <1>4 DEF ActivateDone, ActivateAdds, Activated, ReleaseTimer, WaitBegins, WaitLooks
  <2>2. \/ upc' = upc
        \/ /\ upc[u] \in {"registered", "adding", "active", "cancelled"}
           /\ \E s \in {"adding", "active", "resetting"} : upc' = [upc EXCEPT ![u] = s]
    BY <1>4 DEF ActivateDone, ActivateAdds, Activated, ReleaseTimer, WaitBegins, WaitLooks
  <2>3. Cancelling'
    BY <1>0, <2>1, <2>2 DEF Cancelling, Holding, CtxTypes
  <2>4. Calling'
    BY <1>0, <2>1, <2>2 DEF Calling, CallingFor, CtxTypes
  <2>. QED  BY <2>3, <2>4
<1>5. ASSUME NEW u \in Users, Release(u) PROVE Cancelling' /\ Calling'
  <2>1. /\ UNCHANGED <<obj, calls, escaped>> /\ obj[u] \in Objects
        /\ callbacks' = [callbacks EXCEPT ![obj[u]] = {}]
        /\ by' = [by EXCEPT ![obj[u]] = NoUser]
        /\ upc' = [upc EXCEPT ![u] = "released"] /\ upc[u] = "resetting"
    BY <1>0, <1>5 DEF Release, Owned
  <2>2. Cancelling'
    BY <1>0, <2>1 DEF Cancelling, Holding, CtxTypes, Owned
  <2>3. Calling'
    BY <1>0, <2>1 DEF Calling, CallingFor, CtxTypes
  <2>. QED  BY <2>2, <2>3
<1>6. ASSUME NEW u \in Users, TimerCancels(u) PROVE Cancelling' /\ Calling'
  <2>1. /\ UNCHANGED <<obj, escaped, upc>> /\ CancelContext(obj[u], "deadline", u)
        /\ tpc[u] = "callback"
    BY <1>6 DEF TimerCancels
  <2>2. upc[u] \notin {"new", "made"} /\ (u \in Holding \/ u \in escaped)
    BY <1>0, <2>1 DEF Linked, LinkedFor, Holding, CtxTypes
  <2>. QED  BY <2>1, <2>2, CancelKeeps
<1>7. CASE UNCHANGED ctxVars
  BY <1>7 DEF ctxVars, Cancelling, Calling, CallingFor, Holding
<1>. QED  BY <1>1, <1>2, <1>3, <1>4, <1>5, <1>6, <1>7 DEF Next, User, vars

\* Only a timer that was past its check when its context was released cancels the
\* context of another user, and no callback is taken twice.
THEOREM StrayCancelHolds == Spec => []StrayCancelIsLate
<1>1. IInv /\ Cancelling /\ Calling => StrayCancelIsLate
  <2>. SUFFICES ASSUME IInv, Cancelling, Calling PROVE StrayCancelIsLate
    OBVIOUS
  <2>1. \A u \in Holding : u \in Users /\ obj[u] \in Objects
    BY DEF Holding, IInv, CtxInv, Owned
  <2>2. \A u \in Holding : by[obj[u]] \in {NoUser, u} \union escaped
    BY <2>1 DEF Cancelling, IInv, CtxInv, Owned
  <2>. QED  BY <2>2 DEF Calling, CallingFor, StrayCancelIsLate
<1>. QED  BY <1>1, InitCancelling, Inductive, StepCancelling, PTL DEF Spec

-----------------------------------------------------------------------------
(* The levels.  What the recursive functions MaxRange and Period say is an  *)
(* induction over the levels, done here with the least level at which it    *)
(* could fail.                                                              *)

\* A set that has 1 and, with each number below n, the next one, has all of them.
LEMMA UpTo ==
    ASSUME NEW n \in Nat, NEW T, n >= 1 => 1 \in T, \A i \in 1..(n - 1) : i \in T => i + 1 \in T
    PROVE  \A i \in 1..n : i \in T
<1>. DEFINE M == {i \in 1..n : i \notin T}
<1>. SUFFICES ASSUME M # {} PROVE FALSE
  OBVIOUS
<1>1. M \subseteq Nat
  OBVIOUS
<1>2. PICK x \in M : \A y \in M : ~ (<<y, x>> \in OpToRel(<, Nat))
  BY <1>1, WFMin, NatLessThanWellFounded
<1>3. x \in 1..n /\ x \notin T
  BY <1>2
<1>4. x # 1 /\ x - 1 \in 1..(n - 1) /\ (x - 1) + 1 = x
  BY <1>3
<1>5. x - 1 \notin T
  BY <1>3, <1>4
<1>6. x - 1 \in M /\ x - 1 \in Nat /\ x \in Nat /\ x - 1 < x
  BY <1>3, <1>4, <1>5
<1>7. <<x - 1, x>> \in OpToRel(<, Nat)
  BY <1>6 DEF OpToRel
<1>. QED  BY <1>2, <1>6, <1>7

\* g starts with a and follows the functions G[1], G[2], ...
Chain(g, n, S, a, G) ==
    /\ g \in [1..n -> S]
    /\ g[1] = a
    /\ \A i \in 1..(n - 1) : g[i + 1] = G[i][g[i]]

\* Functions can be applied one after the other, from any start.
LEMMA Iterate ==
    ASSUME NEW n \in Nat, n # 0, NEW S, NEW a \in S, NEW F,
           \A i \in 1..n : \A x \in S : F[i][x] \in S
    PROVE  \E g : Chain(g, n, S, a, F)
<1>. DEFINE Good(g, k) == Chain(g, k, S, a, F)
            T == {k \in 1..n : \E g : Good(g, k)}
<1>1. 1 \in T
  <2>. DEFINE h == [i \in 1..1 |-> a]
  <2>1. h \in [1..1 -> S] /\ h[1] = a /\ 1 \in 1..n
    OBVIOUS
  <2>. HIDE DEF h
  <2>2. Good(h, 1)
    BY <2>1 DEF Chain
  <2>. QED  BY <2>1, <2>2
<1>2. ASSUME NEW k \in 1..(n - 1), k \in T PROVE k + 1 \in T
  <2>1. PICK g : Good(g, k)
    BY <1>2
  <2>. DEFINE s == F[k][g[k]]
              h == [i \in 1..(k + 1) |-> IF i = k + 1 THEN s ELSE g[i]]
  <2>2. k \in 1..n /\ k \in 1..k /\ g[k] \in S /\ s \in S
    BY <2>1 DEF Chain
  <2>3. h \in [1..(k + 1) -> S] /\ h[1] = a
    BY <2>1, <2>2 DEF Chain
  <2>4. ASSUME NEW i \in 1..((k + 1) - 1) PROVE h[i + 1] = F[i][h[i]]
    <3>1. i \in 1..k /\ i \in 1..(k + 1) /\ i + 1 \in 1..(k + 1) /\ i # k + 1 /\ h[i] = g[i]
      OBVIOUS
    <3>2. CASE i = k
      BY <3>1, <3>2
    <3>3. CASE i # k
      <4>1. i \in 1..(k - 1) /\ i + 1 # k + 1
        BY <3>1, <3>3
      <4>. QED  BY <2>1, <3>1, <4>1 DEF Chain
    <3>. QED  BY <3>2, <3>3
  <2>. HIDE DEF h
  <2>5. Good(h, k + 1)
    BY <2>3, <2>4 DEF Chain
  <2>6. k + 1 \in 1..n
    OBVIOUS
  <2>. QED  BY <2>5, <2>6
<1>3. n \in T
  <2>. HIDE DEF T
  <2>1. \A i \in 1..n : i \in T
    BY <1>1, <1>2, UpTo
  <2>. QED  BY <2>1
<1>. QED  BY <1>3

\* What the configuration says of a level.
LEMMA Sizes ==
    /\ Last \in Nat \ {0}
    /\ Levels = 1..Last
    /\ \A i \in Levels : TickInterval[i] \in Nat \ {0} /\ SlotCount[i] \in Nat \ {0}
<1>1. TickInterval \in Seq(Nat \ {0}) /\ SlotCount \in Seq(Nat \ {0}) /\ Len(TickInterval) = Len(SlotCount)
      /\ Len(TickInterval) > 0
  BY TimingWheelAssumption
<1>2. Len(TickInterval) \in Nat /\ DOMAIN TickInterval = 1..Len(TickInterval) /\ DOMAIN SlotCount = 1..Len(SlotCount)
  BY <1>1
<1>3. \A i \in 1..Len(TickInterval) : TickInterval[i] \in Nat \ {0} /\ SlotCount[i] \in Nat \ {0}
  BY <1>1
<1>. QED  BY <1>1, <1>2, <1>3 DEF Last, Levels

\* A level moves once per turn of the level below.
LEMMA Periods ==
    /\ \A i \in Levels : Period[i] \in Nat \ {0}
    /\ Period[1] = TickInterval[1]
    /\ \A i \in 1..(Last - 1) : Period[i + 1] = Period[i] * SlotCount[i]
<1>. DEFINE Rec(f) == f = [i \in Levels |->
                             IF i = 1 THEN TickInterval[1] ELSE f[i - 1] * SlotCount[i - 1]]
            F == [i \in 1..Last |-> [x \in Nat \ {0} |-> x * SlotCount[i]]]
<1>1. Period = CHOOSE f : Rec(f)
  BY DEF Period
<1>2. \E f : Rec(f)
  <2>0. /\ Last \in Nat \ {0} /\ Levels = 1..Last
        /\ TickInterval[1] \in Nat \ {0}
        /\ \A i \in 1..Last : SlotCount[i] \in Nat \ {0}
    BY Sizes
  <2>1. \A i \in 1..Last : \A x \in Nat \ {0} : x * SlotCount[i] \in Nat \ {0}
    BY <2>0
  <2>2. \A i \in 1..Last : \A x \in Nat \ {0} : F[i][x] \in Nat \ {0}
    BY <2>1
  <2>3. PICK g : Chain(g, Last, Nat \ {0}, TickInterval[1], F)
    <3>1. Last \in Nat /\ Last # 0 /\ TickInterval[1] \in Nat \ {0}
      BY <2>0
    <3>. HIDE DEF F, Rec
    <3>. QED  BY <2>2, <3>1, Iterate
  <2>4. ASSUME NEW i \in 1..Last
        PROVE  g[i] = IF i = 1 THEN TickInterval[1] ELSE g[i - 1] * SlotCount[i - 1]
    <3>1. CASE i = 1
      BY <2>3, <3>1 DEF Chain
    <3>2. CASE i # 1
      <4>1. i - 1 \in 1..(Last - 1) /\ i - 1 \in 1..Last /\ (i - 1) + 1 = i
        BY <2>0, <3>2
      <4>2. g[i] = F[i - 1][g[i - 1]] /\ g[i - 1] \in Nat \ {0}
        BY <2>3, <4>1 DEF Chain
      <4>. QED  BY <3>2, <4>1, <4>2
    <3>. QED  BY <3>1, <3>2
  <2>5. g = [i \in 1..Last |-> g[i]]
    BY <2>3 DEF Chain
  <2>6. Rec(g)
    BY <2>0, <2>4, <2>5
  <2>. QED  BY <2>6
<1>3. Rec(Period)
  BY <1>1, <1>2
<1>. HIDE DEF F
<1>4. Period[1] = TickInterval[1]
  BY <1>3, Sizes
<1>5. ASSUME NEW i \in 1..(Last - 1) PROVE Period[i + 1] = Period[i] * SlotCount[i]
  <2>1. i + 1 \in Levels /\ i + 1 # 1 /\ (i + 1) - 1 = i
    BY Sizes
  <2>. QED  BY <1>3, <2>1
<1>6. \A i \in 1..Last : Period[i] \in Nat \ {0}
  <2>. DEFINE T == {i \in 1..Last : Period[i] \in Nat \ {0}}
  <2>1. 1 \in T
    BY <1>4, Sizes
  <2>2. ASSUME NEW i \in 1..(Last - 1), i \in T PROVE i + 1 \in T
    <3>1. i \in Levels /\ i + 1 \in 1..Last /\ Period[i] \in Nat \ {0} /\ SlotCount[i] \in Nat \ {0}
      BY <2>2, Sizes
    <3>2. Period[i] * SlotCount[i] \in Nat \ {0}
      BY <3>1
    <3>. QED  BY <1>5, <3>1, <3>2
  <2>3. \A i \in 1..Last : i \in T
    <3>. HIDE DEF T
    <3>. QED  BY <2>1, <2>2, Sizes, UpTo
  <2>. QED  BY <2>3
<1>. QED  BY <1>4, <1>5, <1>6, Sizes

\* The ranges of the levels are numbers.
LEMMA Ranges == \A i \in 0..Last : MaxRange[i] \in Nat
<1>. DEFINE Rec(f) == f = [i \in 0..Last |->
                             IF i = 0 THEN 0 ELSE f[i - 1] + TickInterval[i] * SlotCount[i]]
            n == Last + 1
<1>1. MaxRange = CHOOSE f : Rec(f)
  BY DEF MaxRange
<1>0. /\ Last \in Nat \ {0} /\ Levels = 1..Last
      /\ \A i \in 1..Last : TickInterval[i] * SlotCount[i] \in Nat
  <2>1. \A i \in 1..Last : TickInterval[i] \in Nat /\ SlotCount[i] \in Nat
    BY Sizes
  <2>2. \A i \in 1..Last : TickInterval[i] * SlotCount[i] \in Nat
    BY <2>1
  <2>. QED  BY <2>2, Sizes
<1>. DEFINE Size == [i \in 1..n |-> IF i \in 1..Last THEN TickInterval[i] * SlotCount[i] ELSE 0]
            G == [i \in 1..n |-> [x \in Nat |-> x + Size[i]]]
<1>2. \E f : Rec(f)
  <2>1. \A i \in 1..n : Size[i] \in Nat
    BY <1>0
  <2>2. \A i \in 1..n : \A x \in Nat : G[i][x] \in Nat
    <3>. HIDE DEF Size
    <3>. QED  BY <2>1
  <2>3. PICK g : Chain(g, n, Nat, 0, G)
    <3>1. n \in Nat /\ n # 0 /\ 0 \in Nat
      BY <1>0
    <3>. HIDE DEF n, G, Rec
    <3>. QED  BY <2>2, <3>1, Iterate
  <2>. DEFINE h == [i \in 0..Last |-> g[i + 1]]
  <2>4. ASSUME NEW i \in 0..Last
        PROVE  h[i] = IF i = 0 THEN 0 ELSE h[i - 1] + TickInterval[i] * SlotCount[i]
    <3>1. CASE i = 0
      BY <2>3, <3>1 DEF Chain
    <3>2. CASE i # 0
      <4>1. i \in 1..(n - 1) /\ i \in 1..n /\ i \in 1..Last /\ i - 1 \in 0..Last /\ (i - 1) + 1 = i
        BY <1>0, <3>2
      <4>2. g[i + 1] = G[i][g[i]] /\ g[i] \in Nat
        <5>. HIDE DEF G, h
        <5>. QED  BY <2>3, <4>1 DEF Chain
      <4>3. Size[i] = TickInterval[i] * SlotCount[i]
        BY <4>1
      <4>4. G[i][g[i]] = g[i] + Size[i]
        <5>. HIDE DEF Size
        <5>. QED  BY <4>1, <4>2
      <4>5. h[i] = g[i + 1] /\ h[i - 1] = g[i]
        BY <4>1
      <4>. HIDE DEF Size, G, h
      <4>. QED  BY <3>2, <4>2, <4>3, <4>4, <4>5
    <3>. QED  BY <3>1, <3>2
  <2>5. h = [i \in 0..Last |-> h[i]]
    OBVIOUS
  <2>. HIDE DEF h
  <2>6. Rec(h)
    BY <2>4, <2>5
  <2>. QED  BY <2>6
<1>3. Rec(MaxRange)
  <2>. HIDE DEF Rec
  <2>. QED  BY <1>1, <1>2
<1>. DEFINE T == {i \in 1..n : MaxRange[i - 1] \in Nat}
<1>4. 1 \in T
  BY <1>0, <1>3
<1>5. ASSUME NEW i \in 1..(n - 1), i \in T PROVE i + 1 \in T
  <2>1. /\ i \in 0..Last /\ i # 0 /\ i \in 1..Last /\ i + 1 \in 1..n /\ (i + 1) - 1 = i
        /\ MaxRange[i - 1] \in Nat
    BY <1>0, <1>5
  <2>2. MaxRange[i] = MaxRange[i - 1] + TickInterval[i] * SlotCount[i]
    BY <1>3, <2>1
  <2>3. TickInterval[i] * SlotCount[i] \in Nat
    BY <1>0, <2>1
  <2>4. MaxRange[i] \in Nat
    BY <2>1, <2>2, <2>3
  <2>. QED  BY <2>1, <2>4
<1>6. \A i \in 1..n : i \in T
  <2>1. n \in Nat
    BY <1>0
  <2>. HIDE DEF T, n
  <2>. QED  BY <1>4, <1>5, <2>1, UpTo
<1>7. ASSUME NEW i \in 0..Last PROVE MaxRange[i] \in Nat
  <2>1. i + 1 \in 1..n /\ (i + 1) - 1 = i
    BY <1>0
  <2>. QED  BY <1>6, <2>1
<1>. QED  BY <1>7

\* selectLevel yields a level, whatever the timeout.
LEMMA Selected == \A timeout \in Int : SelectLevel(timeout) \in Levels
<1>. SUFFICES ASSUME NEW timeout \in Int PROVE SelectLevel(timeout) \in Levels
  OBVIOUS
<1>. DEFINE Fits(i) == /\ timeout <= MaxRange[i] \/ i = Last
                       /\ timeout > MaxRange[i - 1] \/ i = 1
<1>1. \E i \in Levels : Fits(i)
  <2>. SUFFICES ASSUME \A i \in Levels : ~ Fits(i) PROVE FALSE
    OBVIOUS
  <2>. DEFINE T == {i \in Levels : timeout > MaxRange[i] /\ i # Last}
  <2>0. Last \in Nat /\ Last >= 1 /\ Levels = 1..Last
    BY Sizes
  <2>1. \A i \in Levels : MaxRange[i] \in Nat
    BY <2>0, Ranges
  <2>2. 1 \in T
    BY <2>0, <2>1
  <2>3. ASSUME NEW i \in 1..(Last - 1), i \in T PROVE i + 1 \in T
    <3>1. i + 1 \in Levels /\ (i + 1) - 1 = i
      BY <2>0
    <3>2. timeout > MaxRange[i] /\ MaxRange[i + 1] \in Nat
      BY <2>1, <2>3, <3>1
    <3>. QED  BY <3>1, <3>2
  <2>4. Last \in T
    <3>. HIDE DEF T
    <3>1. \A i \in 1..Last : i \in T
      BY <2>0, <2>2, <2>3, UpTo
    <3>2. Last \in 1..Last
      BY <2>0
    <3>. QED  BY <3>1, <3>2
  <2>. QED  BY <2>4
<1>. QED  BY <1>1 DEF SelectLevel

-----------------------------------------------------------------------------
(* Where a task is filed.                                                   *)

\* How many steps a level takes from slot c to slot s, at least one.
Ahead(s, c, n) == IF s > c THEN s - c ELSE (s - c) + n

\* One step of a level of n slots.
LEMMA Step ==
    ASSUME NEW n \in Nat \ {0}, NEW c \in 0..(n - 1)
    PROVE  (c + 1) % n = IF c + 1 = n THEN 0 ELSE c + 1
<1>1. CASE c + 1 = n
  BY <1>1
<1>2. CASE c + 1 # n
  <2>1. c + 1 \in Nat /\ c + 1 < n
    BY <1>2
  <2>. QED  BY <2>1
<1>. QED  BY <1>1, <1>2

\* A remainder is known by its division.
LEMMA Remainder ==
    ASSUME NEW n \in Nat \ {0}, NEW q \in Int, NEW r \in 0..(n - 1), NEW x \in Int, x = (n * q) + r
    PROVE  x % n = r
OBVIOUS

\* It takes a level a steps, modulo n, to the slot a steps ahead.
LEMMA Reached ==
    ASSUME NEW n \in Nat \ {0}, NEW c \in 0..(n - 1), NEW a \in Nat
    PROVE  Ahead((c + a) % n, c, n) = IF a % n = 0 THEN n ELSE a % n
<1>1. PICK q \in Int, r \in 0..(n - 1) : q = a \div n /\ r = a % n /\ a = (n * q) + r
  OBVIOUS
<1>2. PICK x \in Int, m \in Int : x = c + a /\ m = n * q
  OBVIOUS
<1>3. CASE c + r < n
  <2>1. PICK s \in 0..(n - 1) : s = c + r
    BY <1>3
  <2>2. x = (n * q) + s
    BY <1>1, <1>2, <2>1
  <2>3. x % n = s
    BY <2>2, Remainder
  <2>. QED  BY <1>1, <1>2, <1>3, <2>1, <2>3 DEF Ahead
<1>4. CASE c + r >= n
  <2>1. PICK s \in 0..(n - 1), q1 \in Int : s = (c + r) - n /\ q1 = q + 1
    BY <1>4
  <2>2. n * q1 = (n * q) + n
    BY <2>1
  <2>3. x = (n * q1) + s
    BY <1>1, <1>2, <2>1, <2>2
  <2>4. x % n = s
    BY <2>3, Remainder
  <2>. QED  BY <1>1, <1>2, <1>4, <2>1, <2>4 DEF Ahead
<1>. QED  BY <1>1, <1>3, <1>4

\* The current slots are slots.
Slots(at) == at \in [Levels -> Nat] /\ \A i \in Levels : at[i] < SlotCount[i]

\* A task that is filed again differs in its level and slot only.
LEMMA FiledTypes ==
    ASSUME NEW e \in TaskEntry, e.left >= 0, NEW at, Slots(at)
    PROVE  /\ Filed(e, at) \in TaskEntry
           /\ Filed(e, at).uuid = e.uuid
           /\ Filed(e, at).timeout = e.timeout
           /\ Filed(e, at).left = e.left
           /\ Filed(e, at).level = SelectLevel(e.left)
           /\ Filed(e, at).slot = CalculateSlot(at, SelectLevel(e.left), e.left)
           /\ Filed(e, at).slot < SlotCount[Filed(e, at).level]
<1>1. PICK i \in Levels : i = SelectLevel(e.left)
  BY Selected DEF TaskEntry
<1>2. /\ TickInterval[i] \in Nat \ {0} /\ SlotCount[i] \in Nat \ {0}
      /\ at[i] \in Nat /\ e.left \in Int
  BY Sizes DEF Slots, TaskEntry
<1>3. (e.left + TickInterval[i] - 1) \div TickInterval[i] \in Int
  BY <1>2
<1>4. PICK s : s = CalculateSlot(at, i, e.left)
  OBVIOUS
<1>5. s \in Nat /\ s < SlotCount[i]
  BY <1>2, <1>3, <1>4 DEF CalculateSlot
<1>6. Filed(e, at) = [e EXCEPT !.level = i, !.slot = s]
  BY <1>1, <1>4 DEF Filed
<1>. QED  BY <1>1, <1>4, <1>5, <1>6 DEF TaskEntry

-----------------------------------------------------------------------------
(* Types, and that nothing is lost.                                         *)

\* A wheel that is off has no entries and does not tick; a pending tick has not
\* begun; and what has an entry was added.
WheelInv ==
    /\ WheelTypeOK
    /\ wheel = "off" => ticksAt = 0 /\ entries = {}
    /\ NothingLost
    /\ \A e \in entries : life[e.uuid] \notin {"new", "refused", "checked", "panicked"}

\* What processExpiredTasks leaves of the slot it has taken out.
LEMMA Processed ==
    ASSUME NEW slot, NEW at, ProcessExpired(slot, at)
    PROVE  /\ \A x \in entries' :
                \/ x \in entries \ slot
                \/ \E e \in slot : e.uuid \in taskLocation /\ e.left > 0 /\ x = Filed(e, at)
           /\ \A e \in entries \ slot : e \in entries'
           /\ \A e \in slot : e.uuid \in taskLocation /\ e.left > 0 => Filed(e, at) \in entries'
           /\ \A u : u \in taskLocation' <=>
                /\ u \in taskLocation
                /\ ~ \E e \in slot : e.uuid = u /\ u \in taskLocation /\ ~(e.left > 0)
           /\ life' = [u \in Uuids |->
                        IF \E e \in slot : e.uuid = u /\ u \in taskLocation /\ ~(e.left > 0)
                        THEN "expired" ELSE life[u]]
BY DEF ProcessExpired

LEMMA WheelInitInv == WheelInit => WheelInv
<1>. SUFFICES ASSUME WheelInit PROVE WheelInv
  OBVIOUS
<1>1. TickInterval[1] \in Nat \ {0} /\ Last \in Nat
  BY Sizes
<1>2. \A i \in Levels : 0 < SlotCount[i]
  BY Sizes
<1>3. WheelTypeOK
  <2>1. 0 \in 0..Last /\ 0 \in 0..(TickInterval[1] - 1)
    BY <1>1
  <2>2. cur \in [Levels -> Nat] /\ \A i \in Levels : cur[i] < SlotCount[i]
    BY <1>2 DEF WheelInit
  <2>. QED  BY <2>1, <2>2 DEF WheelInit, WheelTypeOK
<1>. QED  BY <1>3 DEF WheelInit, WheelInv, NothingLost

\* The tick of a level.
LEMMA TickLevelWheelInv ==
    ASSUME WheelInv, TickLevel PROVE WheelInv'
<1>. DEFINE i == ticksAt
            at == [cur EXCEPT ![i] = (@ + 1) % SlotCount[i]]
            slot == {e \in entries : e.level = i /\ e.slot = at[i]}
<1>1. /\ i \in Levels /\ cur' = at
      /\ ProcessExpired(slot, at)
      /\ ticksAt' = NextLevel(i, at)
      /\ wheel' = wheel /\ wheel # "off" /\ phase' = phase /\ due' = due
  BY Sizes DEF TickLevel, WheelInv, WheelTypeOK, clock
<1>2. Slots(at)
  <2>1. /\ SlotCount[i] \in Nat \ {0} /\ cur[i] \in Nat
        /\ cur \in [Levels -> Nat] /\ \A k \in Levels : cur[k] < SlotCount[k]
    BY <1>1, Sizes DEF WheelInv, WheelTypeOK
  <2>2. PICK c : c = (cur[i] + 1) % SlotCount[i]
    OBVIOUS
  <2>3. c \in Nat /\ c < SlotCount[i]
    BY <2>1, <2>2
  <2>4. at = [cur EXCEPT ![i] = c]
    BY <2>2
  <2>. QED  BY <1>1, <2>1, <2>3, <2>4 DEF Slots
<1>. HIDE DEF at, i
<1>3. slot \subseteq entries /\ entries \subseteq TaskEntry
  BY DEF WheelInv, WheelTypeOK
<1>. HIDE DEF slot
<1>4. \A e \in slot : e.left > 0 =>
        /\ Filed(e, at) \in TaskEntry
        /\ Filed(e, at).uuid = e.uuid
        /\ Filed(e, at).slot < SlotCount[Filed(e, at).level]
  <2>. SUFFICES ASSUME NEW e \in slot, e.left > 0
                PROVE  /\ Filed(e, at) \in TaskEntry
                       /\ Filed(e, at).uuid = e.uuid
                       /\ Filed(e, at).slot < SlotCount[Filed(e, at).level]
    OBVIOUS
  <2>1. e \in TaskEntry /\ e.left >= 0
    BY <1>3 DEF TaskEntry
  <2>. QED  BY <1>2, <2>1, FiledTypes
<1>5. PICK over : \A u : u \in over <=> \E e \in slot : e.uuid = u /\ u \in taskLocation /\ ~(e.left > 0)
  <2>1. \A u : u \in {w \in taskLocation : \E e \in slot : e.uuid = w /\ ~(e.left > 0)}
          <=> \E e \in slot : e.uuid = u /\ u \in taskLocation /\ ~(e.left > 0)
    OBVIOUS
  <2>. QED  BY <2>1
<1>6. /\ \A x \in entries' :
           \/ x \in entries \ slot
           \/ \E e \in slot : e.uuid \in taskLocation /\ e.left > 0 /\ x = Filed(e, at)
      /\ \A e \in entries \ slot : e \in entries'
      /\ \A e \in slot : e.uuid \in taskLocation /\ e.left > 0 => Filed(e, at) \in entries'
      /\ \A u : u \in taskLocation' <=> u \in taskLocation /\ u \notin over
      /\ life' = [u \in Uuids |-> IF u \in over THEN "expired" ELSE life[u]]
  BY <1>1, <1>5, Processed
<1>7. over \subseteq taskLocation /\ taskLocation \subseteq Uuids
  BY <1>5 DEF WheelInv, WheelTypeOK
<1>8. WheelTypeOK'
  <2>1. entries' \subseteq TaskEntry /\ \A e \in entries' : e.slot < SlotCount[e.level]
    <3>1. \A e \in entries : e.slot < SlotCount[e.level]
      BY DEF WheelInv, WheelTypeOK
    <3>. QED  BY <1>3, <1>4, <1>6, <3>1
  <2>2. taskLocation' \subseteq Uuids
    BY <1>6, <1>7
  <2>3. life' \in [Uuids -> {"new", "refused", "checked", "panicked", "added",
                             "removed", "expired", "cleared"}]
    BY <1>6 DEF WheelInv, WheelTypeOK
  <2>4. ticksAt' \in 0..Last
    BY <1>1, Sizes DEF NextLevel
  <2>5. cur' \in [Levels -> Nat] /\ \A k \in Levels : cur'[k] < SlotCount[k]
    BY <1>1, <1>2 DEF Slots
  <2>6. wheel' \in {"off", "running", "stopping"} /\ phase' \in 0..(TickInterval[1] - 1) /\ due' \in BOOLEAN
    BY <1>1 DEF WheelInv, WheelTypeOK
  <2>. QED  BY <2>1, <2>2, <2>3, <2>4, <2>5, <2>6 DEF WheelTypeOK
<1>9. wheel' # "off"
  BY <1>1
<1>10. \A u \in Uuids : life'[u] = "added" <=> u \in taskLocation'
  BY <1>6, <1>7 DEF WheelInv, NothingLost
<1>11. ASSUME NEW u \in taskLocation' PROVE \E e \in entries' : e.uuid = u
  <2>1. u \in taskLocation /\ u \notin over
    BY <1>6
  <2>2. PICK e \in entries : e.uuid = u
    BY <2>1 DEF WheelInv, NothingLost
  <2>3. CASE e \in slot
    <3>1. e.left > 0
      BY <1>5, <2>1, <2>2, <2>3
    <3>. QED  BY <1>4, <1>6, <2>1, <2>2, <2>3, <3>1
  <2>. QED  BY <1>6, <2>2, <2>3
<1>12. \A x \in entries' : \E e \in entries : e.uuid = x.uuid /\ (x = e \/ (e \in slot /\ x = Filed(e, at)))
                            /\ (x = e => e \notin slot \/ x = Filed(e, at))
  BY <1>3, <1>4, <1>6
<1>13. ASSUME NEW x \in entries', NEW y \in entries', x.uuid = y.uuid PROVE x = y
  <2>1. PICK d \in entries : d.uuid = x.uuid /\ (x = d \/ (d \in slot /\ x = Filed(d, at)))
                              /\ (x = d => d \notin slot \/ x = Filed(d, at))
    BY <1>12
  <2>2. PICK e \in entries : e.uuid = y.uuid /\ (y = e \/ (e \in slot /\ y = Filed(e, at)))
                              /\ (y = e => e \notin slot \/ y = Filed(e, at))
    BY <1>12
  <2>3. d = e
    BY <1>13, <2>1, <2>2 DEF WheelInv, NothingLost
  <2>. QED  BY <2>1, <2>2, <2>3
<1>14. \A e \in entries' : life'[e.uuid] \notin {"new", "refused", "checked", "panicked"}
  <2>1. \A e \in entries : e.uuid \in Uuids /\ life[e.uuid] \notin {"new", "refused", "checked", "panicked"}
    BY <1>3 DEF WheelInv, TaskEntry
  <2>. QED  BY <1>6, <1>12, <2>1
<1>15. NothingLost'
  BY <1>10, <1>11, <1>13 DEF NothingLost
<1>. QED  BY <1>8, <1>9, <1>14, <1>15 DEF WheelInv

LEMMA WheelStepInv == WheelInv /\ [WheelNext]_wheelVars => WheelInv'
<1>. SUFFICES ASSUME WheelInv, [WheelNext]_wheelVars PROVE WheelInv'
  OBVIOUS
<1>0. WheelTypeOK /\ NothingLost
  BY DEF WheelInv
<1>1. ASSUME Start PROVE WheelInv'
  <2>1. \A i \in Levels : 0 < SlotCount[i] /\ 0 \in 0..(TickInterval[1] - 1)
    BY Sizes
  <2>2. WheelTypeOK'
    <3>1. 0 \in 0..(TickInterval[1] - 1)
      BY Sizes
    <3>. QED  BY <1>0, <1>1, <2>1, <3>1 DEF Start, WheelTypeOK, tasks
  <2>. QED  BY <1>1, <2>2 DEF Start, WheelInv, NothingLost, tasks
<1>2. ASSUME StopBegins PROVE WheelInv'
  BY <1>0, <1>2 DEF StopBegins, WheelInv, NothingLost, WheelTypeOK, tasks, clock
<1>3. ASSUME StopEnds PROVE WheelInv'
  <2>1. WheelTypeOK'
    BY <1>0, <1>3 DEF StopEnds, WheelTypeOK, clock
  <2>. QED  BY <1>0, <1>3, <2>1 DEF StopEnds, WheelInv, NothingLost, WheelTypeOK
<1>4. ASSUME PassTime PROVE WheelInv'
  <2>. DEFINE aged(e) == [e EXCEPT !.left = IF @ > -MaxLate THEN @ - 1 ELSE @]
  <2>1. MaxLate \in Nat
    BY TimingWheelAssumption
  <2>2. \A e \in TaskEntry : /\ aged(e) \in TaskEntry /\ aged(e).uuid = e.uuid
                             /\ aged(e).level = e.level /\ aged(e).slot = e.slot
    BY <2>1 DEF TaskEntry
  <2>3. entries' = {aged(e) : e \in entries} /\ entries \subseteq TaskEntry
    BY <1>0, <1>4 DEF PassTime, WheelTypeOK
  <2>. HIDE DEF aged
  <2>4. WheelTypeOK'
    <3>1. phase' \in 0..(TickInterval[1] - 1) /\ due' \in BOOLEAN
      <4>1. TickInterval[1] \in Nat \ {0} /\ phase \in Int
        BY <1>0, Sizes DEF WheelTypeOK
      <4>. QED  BY <1>4, <4>1 DEF PassTime
    <3>2. entries' \subseteq TaskEntry /\ \A e \in entries' : e.slot < SlotCount[e.level]
      BY <1>0, <2>2, <2>3 DEF WheelTypeOK
    <3>. QED  BY <1>0, <1>4, <3>1, <3>2 DEF PassTime, WheelTypeOK
  <2>5. NothingLost'
    <3>1. \A u \in Uuids : life'[u] = "added" <=> u \in taskLocation'
      BY <1>0, <1>4 DEF PassTime, NothingLost
    <3>2. \A u \in taskLocation' : \E e \in entries' : e.uuid = u
      BY <1>0, <1>4, <2>2, <2>3 DEF PassTime, NothingLost
    <3>3. \A d, e \in entries' : d.uuid = e.uuid => d = e
      BY <1>0, <2>2, <2>3 DEF NothingLost
    <3>. QED  BY <3>1, <3>2, <3>3 DEF NothingLost
  <2>6. \A e \in entries' : life'[e.uuid] \notin {"new", "refused", "checked", "panicked"}
    BY <1>4, <2>2, <2>3 DEF PassTime, WheelInv
  <2>. QED  BY <1>4, <2>4, <2>5, <2>6 DEF PassTime, WheelInv
<1>5. ASSUME TickBegins PROVE WheelInv'
  <2>1. 1 \in 0..Last
    BY Sizes
  <2>. QED  BY <1>0, <1>5, <2>1 DEF TickBegins, WheelInv, NothingLost, WheelTypeOK, tasks
<1>6. ASSUME TickLevel PROVE WheelInv'
  BY <1>6, TickLevelWheelInv
<1>7. ASSUME NEW u \in Uuids, CheckStopped(u) PROVE WheelInv'
  BY <1>0, <1>7 DEF CheckStopped, WheelInv, NothingLost, WheelTypeOK, tasks, clock
<1>8. ASSUME NEW u \in Uuids, NEW timeout \in Timeouts, AddTask(u, timeout) PROVE WheelInv'
  <2>. DEFINE new == [uuid |-> u, timeout |-> timeout, left |-> timeout, level |-> 1, slot |-> 0]
              e == Filed(new, cur)
  <2>1. new \in TaskEntry /\ new.left >= 0 /\ new.uuid = u
    <3>1. timeout \in Nat /\ 1 \in Levels
      BY Sizes, TimingWheelAssumption
    <3>. QED  BY <3>1 DEF TaskEntry
  <2>2. Slots(cur)
    BY <1>0 DEF Slots, WheelTypeOK
  <2>. HIDE DEF new
  <2>3. e \in TaskEntry /\ e.uuid = u /\ e.slot < SlotCount[e.level]
    BY <2>1, <2>2, FiledTypes
  <2>4. /\ entries' = entries \union {e} /\ taskLocation' = taskLocation \union {u}
        /\ life' = [life EXCEPT ![u] = "added"] /\ life[u] = "checked"
        /\ wheel # "off" /\ wheel' = wheel /\ cur' = cur /\ ticksAt' = ticksAt
        /\ phase' = phase /\ due' = due
    BY <1>8 DEF AddTask, clock, new
  <2>. HIDE DEF e
  <2>5. WheelTypeOK'
    BY <1>0, <2>3, <2>4 DEF WheelTypeOK
  <2>6. \A d \in entries : d.uuid # u
    BY <2>4 DEF WheelInv
  <2>7. NothingLost'
    BY <1>0, <2>3, <2>4, <2>6 DEF NothingLost, WheelTypeOK
  <2>8. \A d \in entries' : life'[d.uuid] \notin {"new", "refused", "checked", "panicked"}
    BY <1>0, <2>3, <2>4, <2>6 DEF WheelInv, WheelTypeOK
  <2>. QED  BY <2>4, <2>5, <2>7, <2>8 DEF WheelInv
<1>9. ASSUME NEW u \in Uuids, AddTaskPanics(u) PROVE WheelInv'
  BY <1>0, <1>9 DEF AddTaskPanics, WheelInv, NothingLost, WheelTypeOK, tasks, clock
<1>10. ASSUME NEW u \in Uuids, RemoveTask(u) PROVE WheelInv'
  BY <1>0, <1>10 DEF RemoveTask, WheelInv, NothingLost, WheelTypeOK, clock
<1>11. ASSUME UNCHANGED wheelVars PROVE WheelInv'
  BY <1>0, <1>11 DEF wheelVars, WheelInv, NothingLost, WheelTypeOK
<1>. QED
  BY <1>1, <1>2, <1>3, <1>4, <1>5, <1>6, <1>7, <1>8, <1>9, <1>10, <1>11 DEF WheelNext, Tick

\* In every reachable state the variables of the wheel keep their types.
THEOREM WheelTypeCorrect == WheelSpec => []WheelTypeOK
<1>1. WheelInv => WheelTypeOK
  BY DEF WheelInv
<1>. QED  BY <1>1, WheelInitInv, WheelStepInv, PTL DEF WheelSpec

\* In every reachable state a task that is wanted has one entry.
THEOREM NothingLostHolds == WheelSpec => []NothingLost
<1>1. WheelInv => NothingLost
  BY DEF WheelInv
<1>. QED  BY <1>1, WheelInitInv, WheelStepInv, PTL DEF WheelSpec

\* What has been removed or has expired stays so.
THEOREM FinalHolds == WheelSpec => FinalMeansFinal
<1>1. WheelInv /\ [WheelNext]_wheelVars =>
        [\A u \in Uuids : life[u] \in {"removed", "expired"} => life'[u] = life[u]]_life
  <2>. SUFFICES ASSUME WheelInv, [WheelNext]_wheelVars, NEW u \in Uuids, life[u] \in {"removed", "expired"}
                PROVE  life'[u] = life[u]
    OBVIOUS
  <2>0. life \in [Uuids -> {"new", "refused", "checked", "panicked", "added",
                            "removed", "expired", "cleared"}]
    BY DEF WheelInv, WheelTypeOK
  <2>1. u \notin taskLocation
    BY DEF WheelInv, NothingLost
  <2>2. CASE TickLevel
    <3>1. PICK slot, at : ProcessExpired(slot, at)
      BY <2>2 DEF TickLevel
    <3>. QED  BY <2>0, <2>1, <3>1, Processed
  <2>. QED
    BY <2>0, <2>2 DEF WheelNext, Tick, Start, StopBegins, StopEnds, PassTime, TickBegins, CheckStopped,
                      AddTask, AddTaskPanics, RemoveTask, wheelVars
<1>. QED  BY <1>1, WheelInitInv, WheelStepInv, PTL DEF WheelSpec, FinalMeansFinal

-----------------------------------------------------------------------------
(* How late a task can be.  The clock of a level is the time since it last  *)
(* moved: what is pending below is a whole period.  From it follows when    *)
(* the tick comes to each slot, and an entry was filed in a slot from which *)
(* that is no later than LongestWait says.                                  *)

Clock(past) ==
    /\ past \in [Levels -> Nat]
    /\ \A k \in Levels : past[k] <= Period[k]
    /\ past[1] = IF due \/ ticksAt = 1 THEN Period[1] ELSE phase
    /\ \A k \in 1..(Last - 1) : ticksAt # k + 1 => past[k + 1] = past[k] + (Period[k] * cur[k])
    /\ ticksAt # 0 => /\ past[ticksAt] = Period[ticksAt]
                      /\ \A k \in 1..(ticksAt - 1) : past[k] = 0 /\ cur[k] = 0
    /\ due => ticksAt = 0
    /\ due \/ ticksAt # 0 => phase = 0

\* The time until the tick comes to entry e, when the current slots are at.
Until(e, past, at) ==
    (Period[e.level] * Ahead(e.slot, at[e.level], SlotCount[e.level])) - past[e.level]

\* What a task added with a timeout may have left when it is filed.
Spans(timeout) == IF timeout = 0 THEN {0} ELSE 1..timeout

\* Entry e will be found no later than the wait it was filed for.
Timely(e, past, at) ==
    /\ e.left <= e.timeout
    /\ \E t \in Spans(e.timeout) : Until(e, past, at) - e.left <= LongestWait(t) - t

AllTimely(past) == \A e \in entries : e.uuid \in taskLocation => Timely(e, past, cur)

\* A level that has moved c times has not come to the end of its turn.
LEMMA Turn ==
    ASSUME NEW p \in Nat, NEW n \in Nat, NEW c \in Nat, c < n
    PROVE  /\ p * c \in Nat /\ p * n \in Nat
           /\ (p * c) + p <= p * n
           /\ p * (c + 1) = (p * c) + p
<1>1. PICK d \in Nat : n = c + 1 + d
  <2>1. n - (c + 1) \in Nat /\ n = c + 1 + (n - (c + 1))
    OBVIOUS
  <2>. QED  BY <2>1
<1>2. p * n = (p * c) + p + (p * d)
  BY <1>1
<1>3. p * d \in Nat /\ p * c \in Nat /\ p * n \in Nat
  OBVIOUS
<1>4. p * (c + 1) = (p * c) + p
  OBVIOUS
<1>. QED  BY <1>2, <1>3, <1>4

\* What is known of the period of a level and of the next.
LEMMA PeriodTypes ==
    /\ \A k \in Levels : Period[k] \in Nat /\ Period[k] > 0 /\ SlotCount[k] \in Nat /\ SlotCount[k] > 0
    /\ \A k \in 1..(Last - 1) : k \in Levels /\ k + 1 \in Levels /\ Period[k + 1] = Period[k] * SlotCount[k]
    /\ Period[1] = TickInterval[1]
    /\ Last \in Nat /\ 1 \in Levels /\ Levels = 1..Last
BY Periods, Sizes

\* The waits are numbers.
LEMMA LongestWaitTypes == \A t \in Nat : LongestWait(t) \in Nat
<1>. SUFFICES ASSUME NEW t \in Nat PROVE LongestWait(t) \in Nat
  OBVIOUS
<1>1. PICK i \in Levels : i = SelectLevel(t)
  BY Selected
<1>2. TickInterval[i] \in Nat \ {0} /\ SlotCount[i] \in Nat \ {0} /\ Period[i] \in Nat
  BY Sizes, PeriodTypes
<1>3. PICK a \in Nat : a = (t + TickInterval[i] - 1) \div TickInterval[i]
  BY <1>2
<1>4. PICK d \in Nat : d = IF a % SlotCount[i] = 0 THEN SlotCount[i] ELSE a % SlotCount[i]
  BY <1>2
<1>5. LongestWait(t) = Period[i] * d
  BY <1>1, <1>3, <1>4 DEF LongestWait
<1>6. Period[i] * d \in Nat
  BY <1>2
<1>. QED  BY <1>5, <1>6

\* An entry is a whole number of periods, at least one, away.
LEMMA UntilTypes ==
    ASSUME WheelInv, NEW e \in entries
    PROVE  /\ Ahead(e.slot, cur[e.level], SlotCount[e.level]) \in Nat \ {0}
           /\ Period[e.level] * Ahead(e.slot, cur[e.level], SlotCount[e.level]) \in Int
           /\ Period[e.level] * Ahead(e.slot, cur[e.level], SlotCount[e.level]) >= Period[e.level]
<1>1. /\ e.level \in Levels /\ e.slot \in Nat /\ e.slot < SlotCount[e.level]
      /\ cur[e.level] \in Nat /\ cur[e.level] < SlotCount[e.level]
  BY DEF WheelInv, WheelTypeOK, TaskEntry
<1>2. SlotCount[e.level] \in Nat /\ Period[e.level] \in Nat
  BY <1>1, PeriodTypes
<1>3. PICK a \in Nat \ {0} : a = Ahead(e.slot, cur[e.level], SlotCount[e.level])
  BY <1>1, <1>2 DEF Ahead
<1>4. PICK p \in Nat : p = Period[e.level]
  BY <1>2
<1>5. p * a \in Int /\ p * a >= p
  <2>1. PICK b \in Nat : a = b + 1
    <3>1. a - 1 \in Nat /\ a = (a - 1) + 1
      OBVIOUS
    <3>. QED  BY <3>1
  <2>2. p * a = (p * b) + p /\ p * b \in Nat
    BY <2>1
  <2>. QED  BY <2>2
<1>. QED  BY <1>3, <1>4, <1>5

\* Between two ticks no level is at the end of its period.
LEMMA NotYet ==
    ASSUME WheelInv, NEW past, Clock(past), ~due, ticksAt = 0
    PROVE  \A k \in Levels : past[k] < Period[k]
<1>. DEFINE T == {k \in Levels : past[k] < Period[k]}
<1>1. 1 \in T
  <2>1. past[1] = phase /\ phase < TickInterval[1]
    <3>1. TickInterval[1] \in Nat
      BY Sizes
    <3>. QED  BY <3>1 DEF Clock, WheelInv, WheelTypeOK
  <2>. QED  BY <2>1, PeriodTypes
<1>2. ASSUME NEW k \in 1..(Last - 1), k \in T PROVE k + 1 \in T
  <2>1. /\ past[k + 1] = past[k] + (Period[k] * cur[k])
        /\ past[k] < Period[k] /\ past[k] \in Nat /\ past[k + 1] \in Nat
    <3>1. k \in Levels /\ k + 1 \in Levels /\ ticksAt # k + 1
      BY PeriodTypes
    <3>. QED  BY <1>2, <3>1 DEF Clock
  <2>2. /\ cur[k] \in Nat /\ cur[k] < SlotCount[k] /\ SlotCount[k] \in Nat /\ Period[k] \in Nat
        /\ k + 1 \in Levels /\ Period[k + 1] = Period[k] * SlotCount[k]
    BY PeriodTypes DEF WheelInv, WheelTypeOK
  <2>3. /\ Period[k] * cur[k] \in Nat /\ Period[k] * SlotCount[k] \in Nat
        /\ (Period[k] * cur[k]) + Period[k] <= Period[k] * SlotCount[k]
    BY <2>2, Turn
  <2>4. past[k + 1] < Period[k + 1]
    BY <2>1, <2>2, <2>3
  <2>. QED  BY <2>2, <2>4
<1>. HIDE DEF T
<1>3. \A k \in 1..Last : k \in T
  BY <1>1, <1>2, PeriodTypes, UpTo
<1>. QED  BY <1>3, PeriodTypes DEF T

\* A task is filed where the tick comes in time.
LEMMA FiledTimely ==
    ASSUME NEW e \in TaskEntry, NEW at, Slots(at), NEW past \in [Levels -> Nat],
           e.left \in Spans(e.timeout), e.left <= e.timeout, e.left >= 0
    PROVE  Timely(Filed(e, at), past, at)
<1>1. PICK i \in Levels : i = SelectLevel(e.left)
  BY Selected DEF TaskEntry
<1>2. PICK f : f = Filed(e, at)
  OBVIOUS
<1>3. /\ f.left = e.left /\ f.timeout = e.timeout /\ f.level = i
      /\ f.slot = CalculateSlot(at, i, e.left)
  BY <1>1, <1>2, FiledTypes
<1>4. /\ TickInterval[i] \in Nat \ {0} /\ SlotCount[i] \in Nat \ {0}
      /\ Period[i] \in Nat /\ past[i] \in Nat
      /\ at[i] \in 0..(SlotCount[i] - 1) /\ e.left \in Int
  <2>1. TickInterval[i] \in Nat \ {0} /\ SlotCount[i] \in Nat \ {0}
    BY Sizes
  <2>2. Period[i] \in Nat
    BY PeriodTypes
  <2>3. past[i] \in Nat
    OBVIOUS
  <2>4. at[i] \in 0..(SlotCount[i] - 1)
    <3>1. at[i] \in Nat /\ at[i] < SlotCount[i]
      BY DEF Slots
    <3>. QED  BY <2>1, <3>1
  <2>5. e.left \in Int
    BY DEF TaskEntry
  <2>. QED  BY <2>1, <2>2, <2>3, <2>4, <2>5
<1>5. PICK a \in Nat : a = (e.left + TickInterval[i] - 1) \div TickInterval[i]
  BY <1>4
<1>6. PICK d \in Nat : d = IF a % SlotCount[i] = 0 THEN SlotCount[i] ELSE a % SlotCount[i]
  BY <1>4
<1>7. f.slot = (at[i] + a) % SlotCount[i]
  BY <1>3, <1>5 DEF CalculateSlot
<1>8. Ahead(f.slot, at[i], SlotCount[i]) = d
  <2>0. PICK n \in Nat \ {0} : n = SlotCount[i]
    BY <1>4
  <2>1. PICK c \in 0..(n - 1) : c = at[i]
    BY <1>4, <2>0
  <2>2. Ahead((c + a) % n, c, n) = IF a % n = 0 THEN n ELSE a % n
    BY Reached
  <2>. QED  BY <1>6, <1>7, <2>0, <2>1, <2>2
<1>9. LongestWait(e.left) = Period[i] * d
  BY <1>1, <1>5, <1>6 DEF LongestWait
<1>10. Until(f, past, at) = (Period[i] * d) - past[i]
  BY <1>3, <1>8 DEF Until
<1>11. PICK w \in Nat : w = Period[i] * d
  BY <1>4
<1>12. Until(f, past, at) - f.left <= LongestWait(e.left) - e.left
  BY <1>3, <1>4, <1>9, <1>10, <1>11
<1>. QED  BY <1>2, <1>3, <1>12 DEF Timely

\* The unit of time that passes is the same for all levels.
LEMMA PassTimeTimely ==
    ASSUME WheelInv, NEW past, Clock(past), AllTimely(past), PassTime
    PROVE  \E q : Clock(q)' /\ AllTimely(q)'
<1>. DEFINE q == [k \in Levels |-> past[k] + 1]
            aged(e) == [e EXCEPT !.left = IF @ > -MaxLate THEN @ - 1 ELSE @]
<1>1. /\ ~due /\ ticksAt = 0 /\ ticksAt' = 0 /\ cur' = cur /\ taskLocation' = taskLocation
      /\ phase' = (phase + 1) % TickInterval[1]
      /\ due' = (phase' = 0)
      /\ entries' = {aged(e) : e \in entries}
  BY DEF PassTime
<1>2. \A k \in Levels : past[k] < Period[k] /\ past[k] \in Nat /\ q[k] = past[k] + 1
  BY <1>1, NotYet DEF Clock
<1>3. \A k \in Levels : q[k] <= Period[k] /\ q[k] \in Nat
  BY <1>2, PeriodTypes
<1>4. q \in [Levels -> Nat]
  BY <1>2
<1>. HIDE DEF q
<1>5. q[1] = IF due' \/ ticksAt' = 1 THEN Period[1] ELSE phase'
  <2>1. phase' = IF phase + 1 = TickInterval[1] THEN 0 ELSE phase + 1
    <3>1. TickInterval[1] \in Nat \ {0} /\ phase \in 0..(TickInterval[1] - 1)
      BY Sizes DEF WheelInv, WheelTypeOK
    <3>. QED  BY <1>1, <3>1, Step
  <2>2. q[1] = phase + 1 /\ phase \in Nat
    <3>1. past[1] = phase
      BY <1>1 DEF Clock
    <3>. QED  BY <1>2, <3>1, PeriodTypes
  <2>3. CASE phase + 1 = TickInterval[1]
    <3>1. phase' = 0 /\ due'
      BY <1>1, <2>1, <2>3
    <3>. QED  BY <2>2, <2>3, <3>1, PeriodTypes
  <2>4. CASE phase + 1 # TickInterval[1]
    <3>1. phase' = phase + 1 /\ phase' # 0
      BY <2>1, <2>2, <2>4
    <3>2. ticksAt' # 1
      BY <1>1
    <3>3. ~due'
      <4>1. due' = (phase' = 0)
        BY <1>1
      <4>. QED  BY <3>1, <4>1, Zenon
    <3>. QED  BY <2>2, <3>1, <3>2, <3>3
  <2>. QED  BY <2>3, <2>4
<1>6. ASSUME NEW k \in 1..(Last - 1) PROVE q[k + 1] = q[k] + (Period[k] * cur'[k])
  <2>1. k \in Levels /\ k + 1 \in Levels /\ ticksAt # k + 1
    BY <1>1, PeriodTypes
  <2>2. PICK w \in Int : w = Period[k] * cur[k]
    <3>1. Period[k] \in Nat /\ cur[k] \in Nat
      BY <2>1, PeriodTypes DEF WheelInv, WheelTypeOK
    <3>. QED  BY <3>1
  <2>3. past[k + 1] = past[k] + w
    BY <2>1, <2>2 DEF Clock
  <2>. QED  BY <1>1, <1>2, <2>1, <2>2, <2>3
<1>7. Clock(q)'
  BY <1>1, <1>3, <1>4, <1>5, <1>6 DEF Clock
<1>8. ASSUME NEW x \in entries', x.uuid \in taskLocation' PROVE Timely(x, q, cur')
  <2>1. PICK e \in entries : x = aged(e)
    BY <1>1
  <2>2. e \in TaskEntry /\ MaxLate \in Nat
    BY TimingWheelAssumption DEF WheelInv, WheelTypeOK
  <2>3. /\ x.uuid = e.uuid /\ x.timeout = e.timeout /\ x.level = e.level /\ x.slot = e.slot
        /\ x.left \in Int /\ e.left \in Int /\ e.timeout \in Nat
        /\ x.left = e.left \/ x.left = e.left - 1
        /\ e.level \in Levels
    BY <2>1, <2>2, TimingWheelAssumption DEF TaskEntry
  <2>4. Timely(e, past, cur)
    BY <1>1, <1>8, <2>3 DEF AllTimely
  <2>5. PICK t \in Spans(e.timeout) : Until(e, past, cur) - e.left <= LongestWait(t) - t
    BY <2>4 DEF Timely
  <2>6. PICK w \in Int : w = Period[e.level] * Ahead(e.slot, cur[e.level], SlotCount[e.level])
    BY <2>2, UntilTypes
  <2>7. Until(e, past, cur) = w - past[e.level] /\ Until(x, q, cur') = w - q[e.level]
    BY <1>1, <2>3, <2>6 DEF Until
  <2>8. Until(x, q, cur') = Until(e, past, cur) - 1
    BY <1>2, <2>3, <2>7
  <2>9. PICK v \in Int : v = LongestWait(t) - t
    BY <2>3, LongestWaitTypes DEF Spans
  <2>10. Until(x, q, cur') - x.left <= v
    BY <1>2, <2>3, <2>5, <2>7, <2>8, <2>9
  <2>11. x.left <= x.timeout
    BY <2>3, <2>4 DEF Timely
  <2>. QED  BY <2>3, <2>5, <2>9, <2>10, <2>11 DEF Timely
<1>9. AllTimely(q)'
  BY <1>8 DEF AllTimely
<1>. QED  BY <1>7, <1>9

\* The level that moves is at the end of its period and begins a new one; if it
\* comes round, the next level is at the end of its own.
LEMMA TickLevelClock ==
    ASSUME WheelInv, NEW past, Clock(past), NEW i \in Levels, i = ticksAt,
           cur' = [cur EXCEPT ![i] = (@ + 1) % SlotCount[i]],
           ticksAt' = NextLevel(i, cur'),
           phase' = phase, due' = due
    PROVE  Clock([past EXCEPT ![i] = 0])'
<1>1. PICK q : q = [past EXCEPT ![i] = 0]
  OBVIOUS
<1>2. past \in [Levels -> Nat] /\ \A k \in Levels : past[k] <= Period[k]
  BY DEF Clock
<1>3. /\ q \in [Levels -> Nat] /\ q[i] = 0
      /\ \A k \in Levels \ {i} : q[k] = past[k]
  BY <1>1, <1>2
<1>4. ASSUME NEW k \in Levels PROVE q[k] <= Period[k]
  <2>1. CASE k = i
    BY <1>3, <2>1, PeriodTypes
  <2>2. CASE k # i
    BY <1>2, <1>3, <2>2
  <2>. QED  BY <2>1, <2>2
<1>5. /\ i \in 1..Last /\ i \in Nat /\ Last \in Nat
      /\ past[i] = Period[i] /\ phase = 0 /\ ~due
      /\ \A k \in 1..(i - 1) : past[k] = 0 /\ cur[k] = 0
  BY PeriodTypes DEF Clock
<1>6. PICK c \in Nat : c = cur[i] /\ c < SlotCount[i]
  BY DEF WheelInv, WheelTypeOK
<1>7. /\ cur'[i] = IF c + 1 = SlotCount[i] THEN 0 ELSE c + 1
      /\ \A k \in Levels \ {i} : cur'[k] = cur[k]
  <2>1. cur \in [Levels -> Nat] /\ SlotCount[i] \in Nat \ {0}
    BY Sizes DEF WheelInv, WheelTypeOK
  <2>2. PICK n \in Nat \ {0} : n = SlotCount[i]
    BY <2>1
  <2>3. c \in 0..(n - 1)
    BY <1>6, <2>2
  <2>4. (c + 1) % n = IF c + 1 = n THEN 0 ELSE c + 1
    BY <2>3, Step
  <2>5. cur'[i] = (c + 1) % n
    BY <1>6, <2>1, <2>2
  <2>. QED  BY <2>1, <2>2, <2>4, <2>5
<1>8. PICK p \in Nat : p = Period[i]
  BY PeriodTypes
<1>9. p * c \in Nat /\ p * (c + 1) = (p * c) + p
  BY <1>8, Turn, PeriodTypes, <1>6
<1>10. ticksAt' = IF cur'[i] = 0 /\ i < Last THEN i + 1 ELSE 0
  BY DEF NextLevel
<1>11. q[1] = IF due' \/ ticksAt' = 1 THEN Period[1] ELSE phase'
  <2>1. ticksAt' # 1 /\ ~due' /\ phase' = 0
    BY <1>5, <1>10
  <2>2. q[1] = 0
    <3>1. CASE i = 1
      BY <1>3, <3>1
    <3>2. CASE i # 1
      <4>1. 1 \in 1..(i - 1) /\ 1 \in Levels \ {i}
        BY <1>5, <3>2, PeriodTypes
      <4>. QED  BY <1>3, <1>5, <4>1
    <3>. QED  BY <3>1, <3>2
  <2>. QED  BY <2>1, <2>2
<1>12. ASSUME NEW k \in 1..(Last - 1), ticksAt' # k + 1
       PROVE  q[k + 1] = q[k] + (Period[k] * cur'[k])
  <2>1. /\ k \in Levels /\ k + 1 \in Levels /\ k \in Nat
        /\ Period[k] \in Nat
    BY PeriodTypes
  <2>2. CASE k + 1 < i
    <3>1. k \in 1..(i - 1) /\ k + 1 \in 1..(i - 1) /\ k # i /\ k + 1 # i
      BY <1>5, <2>1, <2>2
    <3>2. q[k + 1] = 0 /\ q[k] = 0 /\ cur'[k] = 0
      BY <1>3, <1>5, <1>7, <2>1, <3>1
    <3>3. Period[k] * 0 = 0
      BY <2>1
    <3>. QED  BY <3>2, <3>3
  <2>3. CASE k + 1 = i
    <3>1. k \in 1..(i - 1) /\ k # i
      BY <1>5, <2>1, <2>3
    <3>2. q[k + 1] = 0 /\ q[k] = 0 /\ cur'[k] = 0
      BY <1>3, <1>5, <1>7, <2>1, <2>3, <3>1
    <3>3. Period[k] * 0 = 0
      BY <2>1
    <3>. QED  BY <3>2, <3>3
  <2>4. CASE k = i
    <3>1. ticksAt # k + 1 /\ k + 1 # i
      BY <2>1, <2>4
    <3>2. past[k + 1] = p + (p * c)
      BY <1>5, <1>6, <1>8, <2>4, <3>1 DEF Clock
    <3>3. cur'[i] = c + 1
      BY <1>5, <1>7, <1>10, <1>12, <2>4
    <3>4. q[k + 1] = p + (p * c) /\ q[k] = 0 /\ Period[k] * cur'[k] = p * (c + 1)
      BY <1>3, <1>8, <2>1, <2>4, <3>1, <3>2, <3>3
    <3>. QED  BY <1>9, <3>4
  <2>5. CASE k > i
    <3>1. ticksAt # k + 1 /\ k # i /\ k + 1 # i
      BY <1>5, <2>1, <2>5
    <3>2. past[k + 1] = past[k] + (Period[k] * cur[k])
      BY <3>1 DEF Clock
    <3>. QED  BY <1>3, <1>7, <2>1, <3>1, <3>2
  <2>. QED  BY <1>5, <2>1, <2>2, <2>3, <2>4, <2>5
<1>13. ASSUME ticksAt' # 0
       PROVE  /\ q[ticksAt'] = Period[ticksAt']
              /\ \A k \in 1..(ticksAt' - 1) : q[k] = 0 /\ cur'[k] = 0
  <2>1. ticksAt' = i + 1 /\ cur'[i] = 0 /\ i < Last
    BY <1>10, <1>13
  <2>2. c + 1 = SlotCount[i]
    BY <1>6, <1>7, <2>1
  <2>3. i \in 1..(Last - 1) /\ i + 1 \in Levels /\ i + 1 # i /\ ticksAt # i + 1
    BY <1>5, <2>1, PeriodTypes
  <2>4. past[i + 1] = p + (p * c) /\ Period[i + 1] = p * (c + 1)
    BY <1>5, <1>6, <1>8, <2>2, <2>3, PeriodTypes DEF Clock
  <2>5. q[ticksAt'] = Period[ticksAt']
    BY <1>3, <1>9, <2>1, <2>3, <2>4
  <2>6. ASSUME NEW k \in 1..(ticksAt' - 1) PROVE q[k] = 0 /\ cur'[k] = 0
    <3>1. k \in Levels /\ k \in 1..i
      BY <1>5, <2>1, PeriodTypes
    <3>2. CASE k = i
      BY <1>3, <2>1, <3>2
    <3>3. CASE k # i
      <4>1. k \in 1..(i - 1)
        BY <1>5, <3>1, <3>3
      <4>. QED  BY <1>3, <1>5, <1>7, <3>1, <3>3, <4>1
    <3>. QED  BY <3>2, <3>3
  <2>. QED  BY <2>5, <2>6
<1>14. (due' => ticksAt' = 0) /\ phase' = 0
  BY <1>5
<1>15. Clock(q)'
  BY <1>3, <1>4, <1>11, <1>12, <1>13, <1>14 DEF Clock
<1>. QED  BY <1>1, <1>15

\* What is processed is filed again in time, what stays comes a period nearer.
LEMMA TickLevelTimely ==
    ASSUME WheelInv, NEW past, Clock(past), AllTimely(past), TickLevel
    PROVE  \E q : Clock(q)' /\ AllTimely(q)'
<1>1. PICK i \in Levels : i = ticksAt
  BY PeriodTypes DEF TickLevel, WheelInv, WheelTypeOK
<1>2. PICK at : at = [cur EXCEPT ![i] = (@ + 1) % SlotCount[i]]
  OBVIOUS
<1>3. PICK slot : slot = {e \in entries : e.level = i /\ e.slot = at[i]}
  OBVIOUS
<1>4. /\ cur' = at /\ ProcessExpired(slot, at) /\ ticksAt' = NextLevel(i, at)
      /\ phase' = phase /\ due' = due
  BY <1>1, <1>2, <1>3 DEF TickLevel, clock
<1>5. PICK q : q = [past EXCEPT ![i] = 0]
  OBVIOUS
<1>6. Clock(q)'
  <2>1. Clock([past EXCEPT ![i] = 0])'
    BY <1>1, <1>2, <1>4, TickLevelClock
  <2>. QED  BY <1>5, <2>1
<1>7. past \in [Levels -> Nat] /\ q \in [Levels -> Nat]
  BY <1>5 DEF Clock
<1>8. Slots(at)
  BY <1>4, WheelStepInv, PeriodTypes, TickLevelWheelInv DEF WheelInv, WheelTypeOK, Slots
<1>9. \A e \in entries : e.uuid \in taskLocation => Timely(e, past, cur)
  BY DEF AllTimely
<1>10. ASSUME NEW e \in entries, e.uuid \in taskLocation, e \notin slot
       PROVE  Timely(e, q, at)
  <2>1. /\ e.level \in Levels /\ e.slot \in Nat /\ e.slot < SlotCount[e.level]
        /\ e.left \in Int /\ e.timeout \in Nat
    BY TimingWheelAssumption DEF WheelInv, WheelTypeOK, TaskEntry
  <2>2. PICK p \in Nat : p = Period[e.level]
    BY <2>1, PeriodTypes
  <2>3. PICK a \in Nat : a = Ahead(e.slot, cur[e.level], SlotCount[e.level])
    BY UntilTypes
  <2>4. Until(e, past, cur) = (p * a) - past[e.level]
    BY <2>2, <2>3 DEF Until
  <2>5. CASE e.level # i
    <3>1. at[e.level] = cur[e.level] /\ q[e.level] = past[e.level]
      BY <1>2, <1>5, <1>7, <2>1, <2>5 DEF WheelInv, WheelTypeOK
    <3>2. Until(e, q, at) = Until(e, past, cur)
      BY <3>1 DEF Until
    <3>. QED  BY <1>9, <1>10, <3>2 DEF Timely
  <2>6. CASE e.level = i
    <3>1. e.slot # at[i] /\ past[i] = p /\ q[i] = 0
      BY <1>1, <1>3, <1>5, <1>7, <1>10, <2>1, <2>2, <2>6, PeriodTypes DEF Clock
    <3>2. PICK n \in Nat \ {0} : n = SlotCount[i]
      BY Sizes
    <3>3. PICK c \in 0..(n - 1) : c = cur[i]
      BY <3>2 DEF WheelInv, WheelTypeOK
    <3>4. at[i] = IF c + 1 = n THEN 0 ELSE c + 1
      <4>1. at[i] = (c + 1) % n
        BY <1>2, <3>2, <3>3 DEF WheelInv, WheelTypeOK
      <4>2. (c + 1) % n = IF c + 1 = n THEN 0 ELSE c + 1
        BY Step
      <4>. QED  BY <4>1, <4>2
    <3>5. PICK s \in Nat : s = e.slot /\ s < n
      BY <2>1, <2>6, <3>2
    <3>6. a = Ahead(s, c, n)
      BY <2>3, <2>6, <3>2, <3>3, <3>5
    <3>7. PICK b \in Nat : b = Ahead(s, at[i], n) /\ a = b + 1
      BY <3>1, <3>4, <3>5, <3>6 DEF Ahead
    <3>8. Until(e, q, at) = p * b
      <4>1. Until(e, q, at) = (p * b) - q[i]
        BY <2>2, <2>6, <3>2, <3>5, <3>7 DEF Until
      <4>2. PICK w \in Nat : w = p * b
        OBVIOUS
      <4>. QED  BY <3>1, <4>1, <4>2
    <3>9. Until(e, past, cur) = (p * (b + 1)) - p
      BY <2>4, <2>6, <3>1, <3>7
    <3>10. p * (b + 1) = (p * b) + p /\ p * b \in Nat
      OBVIOUS
    <3>11. Until(e, q, at) = Until(e, past, cur)
      BY <3>8, <3>9, <3>10
    <3>. QED  BY <1>9, <1>10, <3>11 DEF Timely
  <2>. QED  BY <2>5, <2>6
<1>11. ASSUME NEW e \in slot, e.uuid \in taskLocation, e.left > 0
       PROVE  Timely(Filed(e, at), q, at)
  <2>1. e \in entries /\ e \in TaskEntry
    BY <1>3 DEF WheelInv, WheelTypeOK
  <2>2. e.left \in Int /\ e.timeout \in Nat /\ e.left <= e.timeout
    <3>1. Timely(e, past, cur)
      BY <1>9, <1>11, <2>1
    <3>. QED  BY <2>1, <3>1, TimingWheelAssumption DEF TaskEntry, Timely
  <2>3. e.left \in Spans(e.timeout) /\ e.left >= 0
    BY <1>11, <2>2 DEF Spans
  <2>. QED  BY <1>7, <1>8, <2>1, <2>2, <2>3, FiledTimely
<1>12. ASSUME NEW x \in entries', x.uuid \in taskLocation' PROVE Timely(x, q, cur')
  <2>1. \/ x \in entries \ slot
        \/ \E e \in slot : e.uuid \in taskLocation /\ e.left > 0 /\ x = Filed(e, at)
    BY <1>4, Processed
  <2>2. x.uuid \in taskLocation
    BY <1>4, <1>12, Processed
  <2>3. Timely(x, q, at)
    BY <1>10, <1>11, <2>1, <2>2
  <2>. QED  BY <1>4, <2>3
<1>13. AllTimely(q)'
  BY <1>12 DEF AllTimely
<1>. QED  BY <1>6, <1>13

\* There is a clock by which every wanted entry is in time.
OnTime == \E past : Clock(past) /\ AllTimely(past)

\* A wheel without entries, whose levels are at slot 0.
AtRest == /\ phase = 0 /\ ~due /\ ticksAt = 0
          /\ entries = {} /\ cur = [i \in Levels |-> 0]

LEMMA AtRestOnTime == AtRest => OnTime
<1>. SUFFICES ASSUME AtRest PROVE OnTime
  OBVIOUS
<1>. USE DEF AtRest
<1>. DEFINE past == [k \in Levels |-> 0]
<1>1. \A k \in Levels : past[k] = 0 /\ cur[k] = 0 /\ 0 <= Period[k]
  BY PeriodTypes
<1>2. past \in [Levels -> Nat]
  OBVIOUS
<1>. HIDE DEF past
<1>3. ASSUME NEW k \in 1..(Last - 1) PROVE past[k + 1] = past[k] + (Period[k] * cur[k])
  <2>1. k \in Levels /\ k + 1 \in Levels /\ Period[k] \in Nat
    BY PeriodTypes
  <2>2. Period[k] * 0 = 0
    BY <2>1
  <2>. QED  BY <1>1, <2>1, <2>2
<1>4. past[1] = 0 /\ ticksAt # 1
  BY <1>1, PeriodTypes
<1>5. Clock(past)
  BY <1>1, <1>2, <1>3, <1>4 DEF Clock
<1>. QED  BY <1>5 DEF AllTimely, OnTime

\* The steps that leave the clock alone and add no entry to those in the slots.
LEMMA SameClock ==
    ASSUME OnTime, cur' = cur, ticksAt' = ticksAt, phase' = phase, due' = due,
           entries' \subseteq entries, taskLocation' \subseteq taskLocation
    PROVE  OnTime'
<1>1. PICK past : Clock(past) /\ AllTimely(past)
  BY DEF OnTime
<1>2. Clock(past)'
  BY <1>1 DEF Clock
<1>3. AllTimely(past)'
  BY <1>1 DEF AllTimely, Timely, Until
<1>. QED  BY <1>2, <1>3 DEF OnTime

\* Every step leaves the wanted entries in time.
LEMMA StepOnTime == WheelInv /\ OnTime /\ [WheelNext]_wheelVars => OnTime'
<1>. SUFFICES ASSUME WheelInv, OnTime, [WheelNext]_wheelVars PROVE OnTime'
  OBVIOUS
<1>0. PICK past : Clock(past) /\ AllTimely(past)
  BY DEF OnTime
<1>1. ASSUME Start PROVE OnTime'
  <2>1. AtRest'
    BY <1>1 DEF Start, WheelInv, tasks, AtRest
  <2>2. (AtRest => OnTime)'
    BY AtRestOnTime, PTL
  <2>. QED  BY <2>1, <2>2
<1>2. ASSUME StopBegins PROVE OnTime'
  BY <1>2, SameClock DEF StopBegins, tasks, clock
<1>3. ASSUME StopEnds PROVE OnTime'
  BY <1>3, SameClock DEF StopEnds, clock
<1>4. ASSUME PassTime PROVE OnTime'
  BY <1>0, <1>4, PassTimeTimely DEF OnTime
<1>5. ASSUME TickBegins PROVE OnTime'
  <2>1. /\ due /\ ~due' /\ ticksAt = 0 /\ ticksAt' = 1 /\ phase' = phase /\ cur' = cur
        /\ entries' = entries /\ taskLocation' = taskLocation /\ phase = 0
    BY <1>0, <1>5 DEF TickBegins, tasks, Clock
  <2>2. past[1] = Period[1]
    BY <1>0, <2>1 DEF Clock
  <2>3. Clock(past)'
    <3>1. \A k \in 1..(Last - 1) : past[k + 1] = past[k] + (Period[k] * cur[k])
      <4>1. \A k \in 1..(Last - 1) : ticksAt # k + 1
        BY <2>1
      <4>. QED  BY <1>0, <4>1 DEF Clock
    <3>2. past \in [Levels -> Nat] /\ \A k \in Levels : past[k] <= Period[k]
      BY <1>0 DEF Clock
    <3>. QED  BY <2>1, <2>2, <3>1, <3>2 DEF Clock
  <2>4. AllTimely(past)'
    BY <1>0, <2>1 DEF AllTimely, Timely, Until
  <2>. QED  BY <2>3, <2>4 DEF OnTime
<1>6. ASSUME TickLevel PROVE OnTime'
  BY <1>0, <1>6, TickLevelTimely DEF OnTime
<1>7. ASSUME NEW u \in Uuids, CheckStopped(u) PROVE OnTime'
  BY <1>7, SameClock DEF CheckStopped, tasks, clock
<1>8. ASSUME NEW u \in Uuids, NEW timeout \in Timeouts, AddTask(u, timeout) PROVE OnTime'
  <2>1. PICK new : new = [uuid |-> u, timeout |-> timeout, left |-> timeout,
                          level |-> 1, slot |-> 0]
    OBVIOUS
  <2>2. PICK e : e = Filed(new, cur)
    OBVIOUS
  <2>3. timeout \in Nat /\ 1 \in Levels
    BY PeriodTypes, TimingWheelAssumption
  <2>4. new \in TaskEntry /\ new.uuid = u /\ new.left = timeout /\ new.timeout = timeout
    BY <2>1, <2>3 DEF TaskEntry
  <2>5. Slots(cur)
    BY DEF Slots, WheelInv, WheelTypeOK
  <2>6. new.left \in Spans(new.timeout) /\ new.left <= new.timeout /\ new.left >= 0
    BY <2>3, <2>4 DEF Spans
  <2>7. past \in [Levels -> Nat]
    BY <1>0 DEF Clock
  <2>8. Timely(e, past, cur)
    BY <2>2, <2>4, <2>5, <2>6, <2>7, FiledTimely
  <2>9. e.uuid = u
    BY <2>2, <2>4, <2>5, <2>6, FiledTypes
  <2>10. /\ entries' = entries \union {e} /\ taskLocation' = taskLocation \union {u}
         /\ cur' = cur /\ ticksAt' = ticksAt /\ phase' = phase /\ due' = due
         /\ life[u] = "checked"
    BY <1>8, <2>1, <2>2 DEF AddTask, clock
  <2>11. \A d \in entries : d.uuid # u
    BY <2>10 DEF WheelInv
  <2>12. Clock(past)'
    BY <1>0, <2>10 DEF Clock
  <2>13. \A x \in entries' : x.uuid \in taskLocation' => Timely(x, past, cur)
    BY <1>0, <2>8, <2>10, <2>11 DEF AllTimely
  <2>14. AllTimely(past)'
    BY <2>10, <2>13 DEF AllTimely
  <2>. QED  BY <2>12, <2>14 DEF OnTime
<1>9. ASSUME NEW u \in Uuids, AddTaskPanics(u) PROVE OnTime'
  BY <1>9, SameClock DEF AddTaskPanics, tasks, clock
<1>10. ASSUME NEW u \in Uuids, RemoveTask(u) PROVE OnTime'
  BY <1>10, SameClock DEF RemoveTask, clock
<1>11. ASSUME UNCHANGED wheelVars PROVE OnTime'
  BY <1>11, SameClock DEF wheelVars
<1>. QED
  BY <1>1, <1>2, <1>3, <1>4, <1>5, <1>6, <1>7, <1>8, <1>9, <1>10, <1>11 DEF WheelNext, Tick

\* No wanted task is later than the wait for its slot exceeds what it had left.
THEOREM LatenessHolds == WheelSpec => []LatenessBounded
<1>1. WheelInit => OnTime
  BY AtRestOnTime DEF WheelInit, AtRest
<1>2. WheelInv /\ OnTime => LatenessBounded
  <2>. SUFFICES ASSUME WheelInv, NEW past, Clock(past), AllTimely(past),
                       NEW e \in entries, e.uuid \in taskLocation
                PROVE  \E t \in (IF e.timeout = 0 THEN {0} ELSE 1..e.timeout) :
                          -e.left <= LongestWait(t) - t
    BY DEF OnTime, LatenessBounded
  <2>1. PICK t \in Spans(e.timeout) : Until(e, past, cur) - e.left <= LongestWait(t) - t
    BY DEF AllTimely, Timely
  <2>2. e.left \in Int /\ e.level \in Levels /\ e.timeout \in Nat
    BY TimingWheelAssumption DEF WheelInv, WheelTypeOK, TaskEntry
  <2>3. PICK v \in Int : v = LongestWait(t) - t
    BY <2>2, LongestWaitTypes DEF Spans
  <2>4. past[e.level] \in Nat /\ past[e.level] <= Period[e.level] /\ Period[e.level] \in Nat
    BY <2>2, PeriodTypes DEF Clock
  <2>5. PICK w \in Int : /\ w = Period[e.level] * Ahead(e.slot, cur[e.level], SlotCount[e.level])
                         /\ w >= Period[e.level]
    BY UntilTypes
  <2>6. Until(e, past, cur) = w - past[e.level]
    BY <2>5 DEF Until
  <2>7. -e.left <= v
    BY <2>1, <2>2, <2>3, <2>4, <2>5, <2>6
  <2>. QED  BY <2>3, <2>7 DEF Spans
<1>. QED  BY <1>1, <1>2, WheelInitInv, WheelStepInv, StepOnTime, PTL DEF WheelSpec
=============================================================================
