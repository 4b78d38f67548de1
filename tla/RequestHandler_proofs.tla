------------------------ MODULE RequestHandler_proofs ------------------------
(***************************************************************************)
(* Proofs about RequestHandler, for any number of workers, requests and    *)
(* response objects: the types, that a response has one holder, that the   *)
(* reason of a context is final, that only a late timer can answer for     *)
(* another request, and that without late timers every request is          *)
(* answered once.                                                          *)
(***************************************************************************)
EXTENDS RequestHandler, TLAPS, SequenceTheorems, FiniteSetTheorems

Sending == {"swap", "guard", "transmit"}

-----------------------------------------------------------------------------
(* Type correctness.  TypeOK is inductive with the remark which steps a    *)
(* worker and a timer goroutine can be at, that a worker that sends has a  *)
(* step to return to, and that a timer goroutine refers to a response.     *)

Places ==
    /\ \A w \in Workers : pc[w] \notin {"armed", "fired"}
    /\ \A w \in Workers : pc[w] \in Sending => ret[w] # "idle"
    /\ \A r \in Requests : pc[r] \in Sending \union {"idle", "armed", "fired"}
    /\ \A r \in Requests : pc[r] # "idle" => obj[r] \in Objects

TypeInv == TypeOK /\ Places

\* TypeInv in three parts, which the proof of a step takes one by one: the shared
\* variables, those of the goroutines, and how the latter fit together.
Data ==
    /\ sync \subseteq Requests /\ todo \subseteq Requests
    /\ pool \in Seq(Objects)
    /\ filled \in [Objects -> Requests \union {NoRequest}]
    /\ isSend \in [Objects -> BOOLEAN]
    /\ err \in [Requests -> {"none", "canceled", "deadline"}]
    /\ callbacks \subseteq Requests /\ timerTasks \subseteq Requests
    /\ stopped \in BOOLEAN
    /\ answers \in [Requests -> [Requests -> Nat]]
    /\ failed \subseteq Requests /\ late \subseteq Requests

Control ==
    /\ pc \in [Procs -> Steps]
    /\ ret \in [Procs -> {"idle", "dispatch", "check", "cancel", "release"}]
    /\ req \in [Procs -> Requests \union {NoRequest}]
    /\ obj \in [Procs -> Objects \union {NoObject}]

Couplings ==
    /\ \A w \in Workers : (pc[w] = "idle") <=> (req[w] = NoRequest)
    /\ \A w \in Workers : (pc[w] = "idle") <=> (obj[w] = NoObject)
    /\ \A r \in Requests : req[r] = r
    /\ Places

\* The three parts make up the whole.
LEMMA TypeParts ==
    /\ TypeInv <=> Data /\ Control /\ Couplings
    /\ TypeInv' <=> Data' /\ Control' /\ Couplings'
BY DEF TypeInv, TypeOK, Data, Control, Couplings

\* A goroutine under way refers to a response.
LEMMA RefersToObject ==
    ASSUME TypeInv, NEW p \in Procs, pc[p] # "idle"
    PROVE  obj[p] \in Objects
BY DEF TypeInv, TypeOK, Places, Procs

\* A worker under way has a request, which is not itself a worker.
LEMMA HasRequest ==
    ASSUME TypeInv, NEW w \in Workers, pc[w] # "idle"
    PROVE  req[w] \in Requests /\ req[w] \in Procs /\ req[w] # w /\ req[w] \notin Workers
BY RequestHandlerAssumption DEF TypeInv, TypeOK, Procs

\* The pool of responses is empty, no context and no timer exists.
LEMMA InitTypes == Init => TypeInv
<1>. SUFFICES ASSUME Init PROVE TypeInv
  OBVIOUS
<1>1. pool \in Seq(Objects)
  BY EmptySeq DEF Init
<1>2. /\ pc \in [Procs -> Steps]
      /\ ret \in [Procs -> {"idle", "dispatch", "check", "cancel", "release"}]
      /\ req \in [Procs -> Requests \union {NoRequest}]
      /\ obj \in [Procs -> Objects \union {NoObject}]
  BY DEF Init, Steps
<1>3. /\ \A w \in Workers : pc[w] = "idle" /\ req[w] = NoRequest /\ obj[w] = NoObject
      /\ \A r \in Requests : pc[r] = "idle" /\ req[r] = r
  BY RequestHandlerAssumption DEF Init, Procs
<1>4. /\ filled \in [Objects -> Requests \union {NoRequest}]
      /\ isSend \in [Objects -> BOOLEAN]
      /\ err \in [Requests -> {"none", "canceled", "deadline"}]
      /\ answers \in [Requests -> [Requests -> Nat]]
  BY DEF Init
<1>5. /\ sync \subseteq Requests /\ todo \subseteq Requests /\ callbacks \subseteq Requests
      /\ timerTasks \subseteq Requests /\ failed \subseteq Requests /\ late \subseteq Requests
      /\ stopped \in BOOLEAN
  BY DEF Init
<1>. QED  BY <1>1, <1>2, <1>3, <1>4, <1>5 DEF TypeInv, TypeOK, Places, Sending

\* Popping and pushing leave a stack of responses.
LEMMA AcquireTypes ==
    ASSUME TypeOK, NEW o \in Objects, NEW r \in Requests, Acquire(o, r)
    PROVE  /\ pool' \in Seq(Objects)
           /\ filled' \in [Objects -> Requests \union {NoRequest}]
           /\ isSend' \in [Objects -> BOOLEAN]
<1>1. CASE pool = <<>>
  BY <1>1 DEF Acquire, TypeOK
<1>2. CASE pool # <<>>
  <2>1. /\ Len(pool) \in Nat
        /\ \A i \in 1..(Len(pool) - 1) : pool[i] \in Objects
    BY LenProperties, ElementOfSeq DEF TypeOK
  <2>2. SubSeq(pool, 1, Len(pool) - 1) \in Seq(Objects)
    BY <2>1, SubSeqProperties
  <2>. QED  BY <1>2, <2>2 DEF Acquire, TypeOK
<1>. QED  BY <1>1, <1>2

\* Where Return leaves a goroutine that was sending.
LEMMA ReturnTypes ==
    ASSUME TypeInv, NEW p \in Procs, pc[p] \in Sending, Return(p)
    PROVE  /\ pc' \in [Procs -> Steps]
           /\ ret' \in [Procs -> {"idle", "dispatch", "check", "cancel", "release"}]
           /\ obj' \in [Procs -> Objects \union {NoObject}]
           /\ \A q \in Procs : q # p => pc'[q] = pc[q] /\ ret'[q] = ret[q] /\ obj'[q] = obj[q]
           /\ p \in Workers => /\ pc'[p] \in {"dispatch", "check", "cancel", "release"}
                               /\ obj'[p] = obj[p]
           /\ p \notin Workers => pc'[p] = "idle" /\ obj'[p] = NoObject
<1>1. CASE p \in Workers
  <2>1. pc' = [pc EXCEPT ![p] = ret[p]] /\ obj' = obj /\ ret' = [ret EXCEPT ![p] = "idle"]
    BY <1>1 DEF Return, Go
  <2>2. ret[p] \in {"dispatch", "check", "cancel", "release"}
    BY <1>1 DEF TypeInv, TypeOK, Places
  <2>. QED  BY <1>1, <2>1, <2>2 DEF TypeInv, TypeOK, Steps
<1>2. CASE p \notin Workers
  <2>1. /\ pc' = [pc EXCEPT ![p] = "idle"]
        /\ obj' = [obj EXCEPT ![p] = NoObject]
        /\ ret' = [ret EXCEPT ![p] = "idle"]
    BY <1>2 DEF Return, EndTimer, Go
  <2>. QED  BY <1>2, <2>1 DEF TypeInv, TypeOK, Steps
<1>. QED  BY <1>1, <1>2

\* Every step of handlers, timers and Send keeps the types.
LEMMA StepTypes == TypeInv /\ [Next]_vars => TypeInv'
<1>. SUFFICES ASSUME TypeInv, [Next]_vars PROVE TypeInv'
  OBVIOUS
<1>. USE RequestHandlerAssumption
     DEF Procs, Steps, Sending, objectVars, contextVars, timerVars, ghostVars
<1>0. Data /\ Control /\ Couplings
  BY TypeParts
<1>1. ASSUME NEW w \in Workers, NEW r \in Requests, Start(w, r) PROVE TypeInv'
  <2>. PICK o \in Objects : Acquire(o, r) /\ obj' = [obj EXCEPT ![w] = o]
    BY <1>1 DEF Start
  <2>1. /\ pool' \in Seq(Objects)
        /\ filled' \in [Objects -> Requests \union {NoRequest}]
        /\ isSend' \in [Objects -> BOOLEAN]
    BY AcquireTypes DEF TypeInv
  <2>2. Data'
    BY <1>0, <1>1, <2>1 DEF Start, Data
  <2>3. Control'
    BY <1>0, <1>1 DEF Start, Go, Control
  <2>4. Couplings'
    BY <1>0, <1>1 DEF Start, Go, Control, Couplings, Places
  <2>. QED  BY <2>2, <2>3, <2>4, TypeParts
<1>2. ASSUME NEW w \in Workers, ActivateTooLate(w) PROVE TypeInv'
  <2>2. Data'
    BY <1>0, <1>2 DEF ActivateTooLate, CancelContext, CallSend, Go, Data
  <2>3. Control'
    BY <1>0, <1>2 DEF ActivateTooLate, CancelContext, CallSend, Go, Control
  <2>4. Couplings'
    BY <1>0, <1>2 DEF ActivateTooLate, CancelContext, CallSend, Go, Control, Couplings, Places
  <2>. QED  BY <2>2, <2>3, <2>4, TypeParts
<1>3. ASSUME NEW w \in Workers, ActivateArms(w) PROVE TypeInv'
  <2>2. Data'
    BY <1>0, <1>3, HasRequest DEF ActivateArms, Data
  <2>3. Control'
    BY <1>0, <1>3, HasRequest DEF ActivateArms, Control
  <2>4. Couplings'
    BY <1>0, <1>3, HasRequest DEF ActivateArms, Control, Couplings, Places
  <2>. QED  BY <2>2, <2>3, <2>4, TypeParts
<1>4. ASSUME NEW w \in Workers, ActivateRuns(w) PROVE TypeInv'
  <2>2. Data'
    BY <1>0, <1>4, HasRequest DEF ActivateRuns, Data
  <2>3. Control'
    BY <1>0, <1>4, HasRequest DEF ActivateRuns, Control
  <2>4. Couplings'
    BY <1>0, <1>4, HasRequest DEF ActivateRuns, Control, Couplings, Places
  <2>. QED  BY <2>2, <2>3, <2>4, TypeParts
<1>5. ASSUME NEW w \in Workers, ActivateStopped(w) PROVE TypeInv'
  <2>2. Data'
    BY <1>0, <1>5 DEF ActivateStopped, Go, Data
  <2>3. Control'
    BY <1>0, <1>5 DEF ActivateStopped, Go, Control
  <2>4. Couplings'
    BY <1>0, <1>5 DEF ActivateStopped, Go, Control, Couplings, Places
  <2>. QED  BY <2>2, <2>3, <2>4, TypeParts
<1>6. ASSUME NEW w \in Workers, DispatchReturns(w) PROVE TypeInv'
  <2>2. Data'
    BY <1>0, <1>6 DEF DispatchReturns, Go, Data
  <2>3. Control'
    BY <1>0, <1>6 DEF DispatchReturns, Go, Control
  <2>4. Couplings'
    BY <1>0, <1>6 DEF DispatchReturns, Go, Control, Couplings, Places
  <2>. QED  BY <2>2, <2>3, <2>4, TypeParts
<1>7. ASSUME NEW w \in Workers, DispatchSends(w) PROVE TypeInv'
  <2>2. Data'
    BY <1>0, <1>7 DEF DispatchSends, CallSend, Data
  <2>3. Control'
    BY <1>0, <1>7 DEF DispatchSends, CallSend, Control
  <2>4. Couplings'
    BY <1>0, <1>7 DEF DispatchSends, CallSend, Control, Couplings, Places
  <2>. QED  BY <2>2, <2>3, <2>4, TypeParts
<1>8. ASSUME NEW w \in Workers, DispatchPanics(w) PROVE TypeInv'
  <2>2. Data'
    BY <1>0, <1>8 DEF DispatchPanics, Go, Data
  <2>3. Control'
    BY <1>0, <1>8 DEF DispatchPanics, Go, Control
  <2>4. Couplings'
    BY <1>0, <1>8 DEF DispatchPanics, Go, Control, Couplings, Places
  <2>. QED  BY <2>2, <2>3, <2>4, TypeParts
<1>9. ASSUME NEW w \in Workers, CheckSent(w) PROVE TypeInv'
  <2>2. Data'
    BY <1>0, <1>9 DEF CheckSent, Go, Data
  <2>3. Control'
    BY <1>0, <1>9 DEF CheckSent, Go, Control
  <2>4. Couplings'
    BY <1>0, <1>9 DEF CheckSent, Go, Control, Couplings, Places
  <2>. QED  BY <2>2, <2>3, <2>4, TypeParts
<1>10. ASSUME NEW w \in Workers, Unregister(w) PROVE TypeInv'
  <2>2. Data'
    BY <1>0, <1>10 DEF Unregister, CallSend, Data
  <2>3. Control'
    BY <1>0, <1>10 DEF Unregister, CallSend, Control
  <2>4. Couplings'
    BY <1>0, <1>10 DEF Unregister, CallSend, Control, Couplings, Places
  <2>. QED  BY <2>2, <2>3, <2>4, TypeParts
<1>11. ASSUME NEW w \in Workers, Cancel(w) PROVE TypeInv'
  <2>2. Data'
    BY <1>0, <1>11 DEF Cancel, CancelContext, CallSend, Go, Data
  <2>3. Control'
    BY <1>0, <1>11 DEF Cancel, CancelContext, CallSend, Go, Control
  <2>4. Couplings'
    BY <1>0, <1>11 DEF Cancel, CancelContext, CallSend, Go, Control, Couplings, Places
  <2>. QED  BY <2>2, <2>3, <2>4, TypeParts
<1>12. ASSUME NEW w \in Workers, Release(w) PROVE TypeInv'
  <2>1. obj[w] \in Objects
    BY <1>12, RefersToObject DEF Release
  <2>2. Data'
    BY <1>0, <1>12, <2>1, AppendProperties DEF Release, Data
  <2>3. Control'
    BY <1>0, <1>12 DEF Release, Go, Control
  <2>4. Couplings'
    BY <1>0, <1>12 DEF Release, Go, Control, Couplings, Places
  <2>. QED  BY <2>2, <2>3, <2>4, TypeParts
<1>13. ASSUME NEW r \in Requests, TimerFires(r) PROVE TypeInv'
  <2>2. Data'
    BY <1>0, <1>13 DEF TimerFires, EndTimer, Go, Data
  <2>3. Control'
    BY <1>0, <1>13 DEF TimerFires, EndTimer, Go, Control
  <2>4. Couplings'
    BY <1>0, <1>13 DEF TimerFires, EndTimer, Go, Control, Couplings, Places
  <2>. QED  BY <2>2, <2>3, <2>4, TypeParts
<1>14. ASSUME NEW r \in Requests, TimerStops(r) PROVE TypeInv'
  <2>2. Data'
    BY <1>0, <1>14 DEF TimerStops, EndTimer, Go, Data
  <2>3. Control'
    BY <1>0, <1>14 DEF TimerStops, EndTimer, Go, Control
  <2>4. Couplings'
    BY <1>0, <1>14 DEF TimerStops, EndTimer, Go, Control, Couplings, Places
  <2>. QED  BY <2>2, <2>3, <2>4, TypeParts
<1>15. ASSUME NEW r \in Requests, TimerCancels(r) PROVE TypeInv'
  <2>1. /\ err' \in {err, [err EXCEPT ![r] = "deadline"]}
        /\ callbacks' \subseteq callbacks
        /\ late' \subseteq late \union {r}
    BY <1>15 DEF TimerCancels, CancelContext
  <2>2. Data'
    BY <1>0, <1>15, <2>1 DEF TimerCancels, Data
  <2>3. Control'
    BY <1>0, <1>15 DEF TimerCancels, CancelContext, CallSend, EndTimer, Go, Control
  <2>4. Couplings'
    BY <1>0, <1>15 DEF TimerCancels, CancelContext, CallSend, EndTimer, Go, Control, Couplings, Places
  <2>. QED  BY <2>2, <2>3, <2>4, TypeParts
<1>16. ASSUME StopWheel PROVE TypeInv'
  BY <1>0, <1>16, TypeParts DEF StopWheel, Data, Control, Couplings, Places
<1>17. ASSUME ClearTimers PROVE TypeInv'
  BY <1>0, <1>17, TypeParts DEF ClearTimers, Data, Control, Couplings, Places
<1>18. ASSUME NEW p \in Procs, Send(p) PROVE TypeInv'
  <2>1. pc[p] \in Sending /\ obj[p] \in Objects
    BY <1>18, RefersToObject DEF Send, Swap, Guard, Transmit, TransmitFails, TransmitPanics
  <2>2. Data'
    <3>1. CASE Swap(p) \/ Guard(p) \/ TransmitPanics(p)
      BY <1>0, <2>1, <3>1 DEF Swap, Guard, TransmitPanics, Data
    <3>2. CASE Transmit(p)
      <4>1. filled[obj[p]] \in Requests /\ req[p] \in Requests
        BY <1>0, <2>1, <3>2 DEF Transmit, Data, Control, Couplings, Places
      <4>2. answers' \in [Requests -> [Requests -> Nat]]
        BY <1>0, <3>2, <4>1, SMTT(30) DEF Transmit, Data
      <4>. QED  BY <1>0, <3>2, <4>2 DEF Transmit, Data
    <3>3. CASE TransmitFails(p)
      <4>1. req[p] \in Requests
        BY <1>0, <2>1 DEF Control, Couplings, Places
      <4>. QED  BY <1>0, <2>1, <3>3, <4>1 DEF TransmitFails, Data
    <3>. QED  BY <1>18, <3>1, <3>2, <3>3 DEF Send
  <2>3. UNCHANGED req
    BY <1>18 DEF Send, Swap, Guard, Transmit, TransmitFails, TransmitPanics
  <2>4. CASE Return(p)
    <3>1. Control'
      BY <1>0, <2>1, <2>3, <2>4, ReturnTypes DEF Control
    <3>2. Couplings'
      BY <1>0, <2>1, <2>3, <2>4, ReturnTypes DEF Couplings, Places
    <3>. QED  BY <2>2, <3>1, <3>2, TypeParts
  <2>5. CASE (Go(p, "guard") \/ Go(p, "transmit")) /\ UNCHANGED <<ret, obj>>
    <3>1. Control'
      BY <1>0, <2>1, <2>3, <2>5 DEF Go, Control
    <3>2. Couplings'
      BY <1>0, <2>1, <2>3, <2>5 DEF Go, Control, Couplings, Places
    <3>. QED  BY <2>2, <3>1, <3>2, TypeParts
  <2>. QED
    BY <1>18, <2>4, <2>5 DEF Send, Swap, Guard, Transmit, TransmitFails, TransmitPanics
<1>19. CASE UNCHANGED vars
  BY <1>19 DEF vars, TypeInv, TypeOK, Places, Pooled, Held
<1>. QED
  BY <1>1, <1>2, <1>3, <1>4, <1>5, <1>6, <1>7, <1>8, <1>9, <1>10, <1>11, <1>12, <1>13, <1>14, <1>15, <1>16, <1>17, <1>18, <1>19
     DEF Next, Worker, Timer, Activate, Dispatch

\* In every reachable state the variables keep their types.
THEOREM TypeCorrect == Spec => []TypeOK
<1>1. TypeInv => TypeOK
  BY DEF TypeInv
<1>. QED  BY <1>1, InitTypes, StepTypes, PTL DEF Spec

-----------------------------------------------------------------------------
(* Holding.  OneHolder is inductive with what a handler holds: the         *)
(* response it has was filled in for its own request, which is nobody      *)
(* else's and no longer to be handled.                                     *)

Holding ==
    /\ OneHolder
    /\ \A w \in Workers : obj[w] # NoObject => filled[obj[w]] = req[w]
    /\ \A v, w \in Workers : req[v] = req[w] /\ req[v] # NoRequest => v = w
    /\ \A w \in Workers : req[w] \notin todo

\* There is a response that is neither pooled nor held when the pool is empty and a
\* worker has none: the other workers hold fewer than there are.
LEMMA NewObjectIsFree ==
    ASSUME TypeInv, NEW w \in Workers, obj[w] = NoObject, pool = <<>>
    PROVE  NewObject \in Objects /\ ~Pooled(NewObject) /\ ~Held(NewObject)
<1>1. \A o \in Objects : ~Pooled(o)
  BY LenProperties DEF Pooled
<1>2. \E o \in Objects : ~Held(o)
  <2>. SUFFICES ASSUME \A o \in Objects : Held(o) PROVE FALSE
    OBVIOUS
  <2>. DEFINE holder == [o \in Objects |-> CHOOSE v \in Workers : obj[v] = o]
  <2>1. \A o \in Objects : holder[o] \in Workers /\ obj[holder[o]] = o
    BY DEF Held
  <2>2. holder \in [Objects -> Workers \ {w}]
    BY <2>1, RequestHandlerAssumption
  <2>3. /\ IsFiniteSet(Workers \ {w})
        /\ Cardinality(Workers \ {w}) = Cardinality(Workers) - 1
    BY RequestHandlerAssumption, FS_RemoveElement
  <2>4. Cardinality(Workers \ {w}) < Cardinality(Objects)
    BY <2>3, RequestHandlerAssumption, FS_CardinalityType
  <2>5. \E a, b \in Objects : a # b /\ holder[a] = holder[b]
    <3>. HIDE DEF holder
    <3>. QED  BY <2>2, <2>3, <2>4, RequestHandlerAssumption, FS_PigeonHole
  <2>. QED  BY <2>1, <2>5
<1>. QED  BY <1>1, <1>2 DEF NewObject

\* What AcquireResponse hands out was neither held nor is pooled any more.
LEMMA AcquireTakes ==
    ASSUME TypeInv, OneHolder, NEW w \in Workers, obj[w] = NoObject,
           NEW o \in Objects, NEW r \in Requests, Acquire(o, r)
    PROVE  /\ ~Held(o)
           /\ \A i, j \in DOMAIN pool' : pool'[i] = pool'[j] => i = j
           /\ \A i \in DOMAIN pool' : pool'[i] # o /\ \E j \in DOMAIN pool : pool'[i] = pool[j]
<1>. pool \in Seq(Objects)
  BY DEF TypeInv, TypeOK
<1>1. CASE pool = <<>>
  <2>1. o = NewObject /\ pool' = pool
    BY <1>1 DEF Acquire
  <2>. QED  BY <1>1, <2>1, NewObjectIsFree, LenProperties DEF OneHolder, Pooled
<1>2. CASE pool # <<>>
  <2>. DEFINE n == Len(pool)
  <2>1. n \in Nat /\ n > 0 /\ DOMAIN pool = 1..n /\ \A i \in 1..n : pool[i] \in Objects
    BY <1>2, LenProperties, ElementOfSeq, EmptySeq
  <2>2. o = pool[n] /\ pool' = SubSeq(pool, 1, n - 1)
    BY <1>2 DEF Acquire
  <2>3. /\ pool' \in Seq(Objects) /\ Len(pool') = n - 1
        /\ \A i \in 1..(n - 1) : pool'[i] = pool[i]
    BY <2>1, <2>2, SubSeqProperties
  <2>4. DOMAIN pool' = 1..(n - 1)
    BY <2>3, LenProperties
  <2>5. Pooled(o)
    BY <2>1, <2>2 DEF Pooled
  <2>. QED  BY <2>1, <2>2, <2>3, <2>4, <2>5 DEF OneHolder
<1>. QED  BY <1>1, <1>2

\* All steps but the first and the last of a handling leave the pool, the filling
\* of the responses and what the workers have alone.
LEMMA HoldFrame ==
    ASSUME TypeInv, [Next]_vars,
           ~\E w \in Workers, r \in Requests : Start(w, r),
           ~\E w \in Workers : Release(w)
    PROVE  /\ UNCHANGED <<pool, filled, todo, req, sync>>
           /\ \A w \in Workers : obj'[w] = obj[w]
<1>. USE RequestHandlerAssumption DEF Procs, objectVars, contextVars, timerVars, ghostVars
<1>. Control
  BY TypeParts
<1>1. ASSUME NEW w \in Workers, Activate(w)
      PROVE  /\ UNCHANGED <<pool, filled, todo, req, sync>>
             /\ \A v \in Workers : obj'[v] = obj[v]
  BY <1>1, HasRequest
     DEF Activate, ActivateTooLate, ActivateArms, ActivateRuns, ActivateStopped, Control
<1>2. ASSUME NEW w \in Workers, Dispatch(w) \/ CheckSent(w) \/ Unregister(w) \/ Cancel(w)
      PROVE  UNCHANGED <<pool, filled, todo, req, sync, obj>>
  BY <1>2 DEF Dispatch, DispatchReturns, DispatchSends, DispatchPanics, CheckSent,
              Unregister, Cancel
<1>3. ASSUME NEW p \in Procs, Send(p)
      PROVE  /\ UNCHANGED <<pool, filled, todo, req, sync>>
             /\ \A v \in Workers : obj'[v] = obj[v]
  <2>1. UNCHANGED <<pool, filled, todo, req, sync>> /\ (Return(p) \/ UNCHANGED obj)
    BY <1>3 DEF Send, Swap, Guard, Transmit, TransmitFails, TransmitPanics
  <2>. QED  BY <2>1 DEF Return, EndTimer, Control
<1>4. ASSUME NEW r \in Requests, TimerFires(r) \/ TimerStops(r) \/ TimerCancels(r)
      PROVE  /\ UNCHANGED <<pool, filled, todo, req, sync>>
             /\ \A v \in Workers : obj'[v] = obj[v]
  <2>1. UNCHANGED <<pool, filled, todo, req, sync>> /\ (EndTimer(r) \/ UNCHANGED obj)
    BY <1>4 DEF TimerFires, TimerStops, TimerCancels, CancelContext
  <2>. QED  BY <2>1 DEF EndTimer, Control
<1>5. ASSUME StopWheel \/ ClearTimers \/ UNCHANGED vars
      PROVE  UNCHANGED <<pool, filled, todo, req, sync, obj>>
  BY <1>5 DEF StopWheel, ClearTimers, vars
<1>. QED  BY <1>1, <1>2, <1>3, <1>4, <1>5 DEF Next, Worker, Timer

\* Nobody holds anything at first.
LEMMA InitHolding == Init => Holding
BY RequestHandlerAssumption, LenProperties
   DEF Init, Holding, OneHolder, Pooled, Held, Procs

\* A response passes from the pool to one handler and back.
LEMMA StepHolding == TypeInv /\ TypeInv' /\ Holding /\ [Next]_vars => Holding'
<1>. SUFFICES ASSUME TypeInv, TypeInv', Holding, [Next]_vars PROVE Holding'
  OBVIOUS
<1>. Data /\ Control /\ Couplings /\ Control'
  BY TypeParts
<1>1. ASSUME NEW w \in Workers, NEW r \in Requests, Start(w, r) PROVE Holding'
  <2>. PICK o \in Objects : Acquire(o, r) /\ obj' = [obj EXCEPT ![w] = o]
    BY <1>1 DEF Start
  <2>1. obj[w] = NoObject
    BY <1>1 DEF Start, Couplings
  <2>2. /\ ~Held(o)
        /\ \A i, j \in DOMAIN pool' : pool'[i] = pool'[j] => i = j
        /\ \A i \in DOMAIN pool' : pool'[i] # o /\ \E j \in DOMAIN pool : pool'[i] = pool[j]
    BY <2>1, AcquireTakes DEF Holding
  <2>3. \A v \in Workers : obj'[v] = IF v = w THEN o ELSE obj[v]
    BY DEF Control, Procs
  <2>4. /\ todo' = todo \ {r} /\ r \in todo
        /\ \A v \in Workers : req'[v] = IF v = w THEN r ELSE req[v]
        /\ \A b \in Objects : filled'[b] = IF b = o THEN r ELSE filled[b]
    BY <1>1 DEF Start, Acquire, Control, Data, Procs
  <2>5. OneHolder'
    BY <2>2, <2>3 DEF Holding, OneHolder, Pooled, Held
  <2>6. \A v \in Workers : obj'[v] # NoObject => filled'[obj'[v]] = req'[v]
    BY <2>2, <2>3, <2>4 DEF Holding, Held, Control, Procs
  <2>. QED  BY <2>4, <2>5, <2>6 DEF Holding
<1>2. ASSUME NEW w \in Workers, Release(w) PROVE Holding'
  <2>. DEFINE o == obj[w]
              n == Len(pool)
  <2>1. o \in Objects /\ pool \in Seq(Objects)
    BY <1>2, RefersToObject DEF Release, Procs, Data
  <2>2. /\ n \in Nat /\ DOMAIN pool = 1..n
        /\ DOMAIN pool' = 1..(n + 1)
        /\ \A i \in 1..n : pool'[i] = pool[i]
        /\ pool'[n + 1] = o
    BY <1>2, <2>1, AppendProperties, LenProperties DEF Release
  <2>3. \A v \in Workers : /\ obj'[v] = IF v = w THEN NoObject ELSE obj[v]
                           /\ req'[v] = IF v = w THEN NoRequest ELSE req[v]
    BY <1>2 DEF Release, Control, Procs
  <2>4. todo' = todo /\ \A b \in Objects : b # o => filled'[b] = filled[b]
    BY <1>2 DEF Release, Data
  <2>5. ~Pooled(o) /\ \A v \in Workers : obj[v] = o => v = w
    BY <2>1, RequestHandlerAssumption DEF Holding, OneHolder, Held
  <2>6. OneHolder'
    <3>1. \A i, j \in DOMAIN pool' : pool'[i] = pool'[j] => i = j
      BY <2>2, <2>5 DEF Holding, OneHolder, Pooled
    <3>2. \A b \in Objects : Pooled(b)' => ~Held(b)'
      BY <2>2, <2>3, <2>5, RequestHandlerAssumption DEF Holding, OneHolder, Pooled, Held
    <3>. QED  BY <2>3, <3>1, <3>2 DEF Holding, OneHolder
  <2>7. \A v \in Workers : obj'[v] # NoObject => filled'[obj'[v]] = req'[v]
    BY <2>3, <2>4, <2>5 DEF Holding, Control, Procs
  <2>8. \A v \in Workers : req'[v] \notin todo'
    BY <2>3, <2>4, RequestHandlerAssumption DEF Holding, Data, Procs
  <2>. QED  BY <2>3, <2>6, <2>7, <2>8 DEF Holding
<1>3. CASE /\ ~\E w \in Workers, r \in Requests : Start(w, r)
           /\ ~\E w \in Workers : Release(w)
  BY <1>3, HoldFrame DEF Holding, OneHolder, Pooled, Held
<1>. QED  BY <1>1, <1>2, <1>3

\* A response is pooled once or held by one handler, in every reachable state.
THEOREM OneHolderHolds == Spec => []OneHolder
<1>1. TypeInv /\ Holding => OneHolder
  BY DEF Holding
<1>. QED  BY <1>1, InitTypes, InitHolding, StepTypes, StepHolding, PTL DEF Spec

-----------------------------------------------------------------------------
(* Cancelling.  The three calls of Cancel are the only steps that write a   *)
(* reason, and all of them look first.                                     *)

\* No step overwrites a reason.
LEMMA StepReasons ==
    ASSUME TypeInv, [Next]_vars
    PROVE  \A q \in Requests : err[q] # "none" => err'[q] = err[q]
<1>. USE DEF objectVars, contextVars, timerVars, ghostVars
<1>. err \in [Requests -> {"none", "canceled", "deadline"}]
  BY DEF TypeInv, TypeOK
<1>1. ASSUME NEW w \in Workers, ActivateTooLate(w) \/ Cancel(w)
      PROVE  \A q \in Requests : err[q] # "none" => err'[q] = err[q]
  BY <1>1 DEF ActivateTooLate, Cancel, CancelContext
<1>2. ASSUME NEW r \in Requests, TimerCancels(r)
      PROVE  \A q \in Requests : err[q] # "none" => err'[q] = err[q]
  BY <1>2 DEF TimerCancels, CancelContext
<1>3. ASSUME NEW w \in Workers, NEW r \in Requests, Start(w, r)
      PROVE  UNCHANGED err
  BY <1>3 DEF Start
<1>4. ASSUME NEW w \in Workers,
             \/ ActivateArms(w) \/ ActivateRuns(w) \/ ActivateStopped(w) \/ Dispatch(w)
             \/ CheckSent(w) \/ Unregister(w) \/ Release(w)
      PROVE  UNCHANGED err
  BY <1>4 DEF ActivateArms, ActivateRuns, ActivateStopped, Dispatch, DispatchReturns,
              DispatchSends, DispatchPanics, CheckSent, Unregister, Release
<1>5. ASSUME NEW p, Send(p)
      PROVE  UNCHANGED err
  BY <1>5 DEF Send, Swap, Guard, Transmit, TransmitFails, TransmitPanics
<1>6. ASSUME NEW r \in Requests, TimerFires(r) \/ TimerStops(r)
      PROVE  UNCHANGED err
  BY <1>6 DEF TimerFires, TimerStops
<1>7. ASSUME StopWheel \/ ClearTimers \/ UNCHANGED vars
      PROVE  UNCHANGED err
  BY <1>7 DEF StopWheel, ClearTimers, vars
<1>. QED
  BY <1>1, <1>2, <1>3, <1>4, <1>5, <1>6, <1>7 DEF Next, Worker, Timer, Activate

\* The first reason given for the end of a context stays.
THEOREM CancelReasonHolds == Spec => CancelReasonFinal
<1>1. TypeInv /\ [Next]_vars =>
        [\A r \in Requests : err[r] # "none" => err'[r] = err[r]]_err
  BY StepReasons
<1>. QED  BY <1>1, InitTypes, StepTypes, PTL DEF Spec, CancelReasonFinal

-----------------------------------------------------------------------------
(* Straying.  StrayAnswersAreLate is inductive with the remark that a      *)
(* timer goroutine sends only after it took the callback: what a handler   *)
(* sends goes where the response it holds points to, its own request.      *)

Straying ==
    /\ StrayAnswersAreLate
    /\ \A r \in Requests : pc[r] \in Sending => r \in late

\* Nobody has answered yet.
LEMMA InitStraying == Init => Straying
BY DEF Init, Straying, StrayAnswersAreLate, Sending, Procs

\* A step that answers nothing and starts no callback keeps Straying.
LEMMA StrayingFrame ==
    ASSUME Straying, UNCHANGED answers, late \subseteq late',
           \A r \in Requests : pc'[r] \in Sending => pc[r] \in Sending \/ r \in late'
    PROVE  Straying'
BY DEF Straying, StrayAnswersAreLate

\* A handler answers its own request; who answers another one is late.
LEMMA StepStraying == TypeInv /\ Holding /\ Straying /\ [Next]_vars => Straying'
<1>. SUFFICES ASSUME TypeInv, Holding, Straying, [Next]_vars PROVE Straying'
  OBVIOUS
<1>. USE RequestHandlerAssumption
     DEF Procs, objectVars, contextVars, timerVars, ghostVars
<1>. Data /\ Control /\ Couplings
  BY TypeParts
<1>1. ASSUME NEW w \in Workers, NEW r \in Requests, Start(w, r) PROVE Straying'
  BY <1>1, StrayingFrame DEF Start, Go, Control
<1>2. ASSUME NEW w \in Workers, Activate(w) PROVE Straying'
  <2>1. UNCHANGED answers /\ UNCHANGED late
    BY <1>2 DEF Activate, ActivateTooLate, ActivateArms, ActivateRuns, ActivateStopped
  <2>2. \A r \in Requests : pc'[r] = pc[r] \/ pc'[r] \in {"armed", "fired"}
    BY <1>2, HasRequest DEF Activate, ActivateTooLate, ActivateArms, ActivateRuns,
       ActivateStopped, CancelContext, CallSend, Go, Control
  <2>. QED  BY <2>1, <2>2, StrayingFrame DEF Sending
<1>3. ASSUME NEW w \in Workers,
             Dispatch(w) \/ CheckSent(w) \/ Unregister(w) \/ Cancel(w) \/ Release(w)
      PROVE  Straying'
  <2>1. UNCHANGED answers /\ UNCHANGED late
    BY <1>3 DEF Dispatch, DispatchReturns, DispatchSends, DispatchPanics, CheckSent,
                Unregister, Cancel, Release
  <2>2. \A r \in Requests : pc'[r] = pc[r]
    BY <1>3 DEF Dispatch, DispatchReturns, DispatchSends, DispatchPanics, CheckSent,
                Unregister, Cancel, CancelContext, Release, CallSend, Go, Control
  <2>. QED  BY <2>1, <2>2, StrayingFrame
<1>4. ASSUME NEW p \in Procs, Send(p) PROVE Straying'
  <2>1. /\ UNCHANGED late
        /\ pc[p] \in Sending
        /\ \A q \in Procs : q # p => pc'[q] = pc[q]
    BY <1>4 DEF Send, Swap, Guard, Transmit, TransmitFails, TransmitPanics, Return,
                EndTimer, Go, Control, Sending
  <2>2. CASE UNCHANGED answers
    BY <2>1, <2>2, StrayingFrame
  <2>3. CASE Transmit(p)
    <3>1. /\ req[p] \in Requests /\ filled[obj[p]] \in Requests
          /\ answers' = [answers EXCEPT ![filled[obj[p]]][req[p]] = @ + 1]
      BY <2>1, <2>3 DEF Transmit, Data, Control, Couplings, Places, Sending
    <3>2. filled[obj[p]] # req[p] => req[p] \in late
      BY <2>1 DEF Holding, Straying, Couplings, Sending
    <3>3. \A to, by \in Requests :
            answers'[to][by] = answers[to][by] \/ (to = filled[obj[p]] /\ by = req[p])
      BY <3>1 DEF Data
    <3>4. StrayAnswersAreLate'
      BY <2>1, <3>2, <3>3 DEF Straying, StrayAnswersAreLate
    <3>. QED  BY <2>1, <3>4 DEF Straying
  <2>. QED
    BY <1>4, <2>2, <2>3 DEF Send, Swap, Guard, TransmitFails, TransmitPanics
<1>5. ASSUME NEW r \in Requests, TimerFires(r) \/ TimerStops(r) \/ TimerCancels(r)
      PROVE  Straying'
  <2>1. UNCHANGED answers /\ late \subseteq late'
    BY <1>5 DEF TimerFires, TimerStops, TimerCancels, CancelContext
  <2>2. /\ \A q \in Requests : q # r => pc'[q] = pc[q]
        /\ pc'[r] \in Sending => r \in late'
    BY <1>5 DEF TimerFires, TimerStops, TimerCancels, CancelContext, CallSend, EndTimer,
                Go, Control, Sending
  <2>. QED  BY <2>1, <2>2, StrayingFrame
<1>6. ASSUME StopWheel \/ ClearTimers \/ UNCHANGED vars PROVE Straying'
  BY <1>6, StrayingFrame DEF StopWheel, ClearTimers, vars
<1>. QED  BY <1>1, <1>2, <1>3, <1>4, <1>5, <1>6 DEF Next, Worker, Timer

\* Only a late callback answers for another request.
THEOREM StrayAnswersHolds == Spec => []StrayAnswersAreLate
<1>1. Straying => StrayAnswersAreLate
  BY DEF Straying
<1>. QED
  BY <1>1, InitTypes, InitHolding, InitStraying, StepTypes, StepHolding, StepStraying, PTL
     DEF Spec

-----------------------------------------------------------------------------
(* Answering.  As long as no timer has taken a callback, the handler alone *)
(* sends.  Until it has sent it keeps a means to: its context is alive     *)
(* with the callback registered, or isSend is set.  isSend then stays set  *)
(* until the release, so that a second call of Send returns at once.       *)

Untouched(r) == pc[r] = "idle" /\ err[r] = "none" /\ answers[r][r] = 0

Progress(w) ==
    /\ pc[w] = "guard" => req[w] \in sync
    /\ pc[w] \in {"guard", "transmit", "release"} => isSend[obj[w]]
    /\ pc[w] \in {"activate", "dispatch", "check", "cancel"} =>
        isSend[obj[w]] \/ (err[req[w]] = "none" /\ req[w] \in callbacks)
    /\ answers[req[w]][req[w]] =
        IF isSend[obj[w]] /\ pc[w] \notin {"guard", "transmit"} THEN 1 ELSE 0

Answered ==
    /\ \A r \in todo : Untouched(r)
    /\ \A w \in Workers : pc[w] # "idle" /\ req[w] \notin failed => Progress(w)
    /\ \A r \in Requests : Handled(r) /\ r \notin failed => answers[r][r] = 1

Answering == late = {} => Answered

\* A step of worker w that concerns request r only.
Concerns(w, r) ==
    /\ r \notin todo' /\ todo' \subseteq todo /\ todo \subseteq todo' \union {r}
    /\ sync' = sync /\ failed \subseteq failed'
    /\ req[w] \in {r, NoRequest} /\ req'[w] \in {r, NoRequest} /\ r \in {req[w], req'[w]}
    /\ \A v \in Workers : v # w => pc'[v] = pc[v] /\ obj'[v] = obj[v] /\ req'[v] = req[v]
    /\ \A q \in Requests : q # r =>
        /\ pc'[q] = pc[q] /\ err'[q] = err[q] /\ (q \in callbacks' <=> q \in callbacks)
        /\ answers'[q][q] = answers[q][q]
    /\ \A o \in Objects : o # obj[w] /\ o # obj'[w] => isSend'[o] = isSend[o]

\* Nothing is answered and everything is still to be handled.
LEMMA InitAnswering == Init => Answering
BY DEF Init, Answering, Answered, Untouched, Handled, Procs

\* What a step of w for its request r owes: the others see none of it, since they
\* handle other requests and hold other responses.
LEMMA OwnStep ==
    ASSUME TypeInv, TypeInv', Holding, Holding', Answered,
           NEW w \in Workers, NEW r \in Requests, Concerns(w, r),
           req'[w] = r /\ r \notin failed' => Progress(w)',
           req'[w] # r /\ r \notin failed' => answers'[r][r] = 1
    PROVE  Answered'
<1>. Couplings /\ Couplings' /\ Control
  BY TypeParts
<1>0. r # NoRequest
  BY RequestHandlerAssumption DEF Procs
<1>1. ASSUME NEW q \in todo' PROVE Untouched(q)'
  BY <1>1 DEF Concerns, Answered, Untouched, TypeInv, TypeOK
<1>2. ASSUME NEW v \in Workers, pc'[v] # "idle", req'[v] \notin failed' PROVE Progress(v)'
  <2>1. CASE v = w
    BY <1>2, <2>1 DEF Concerns, Couplings
  <2>2. CASE v # w
    <3>1. /\ pc'[v] = pc[v] /\ obj'[v] = obj[v] /\ req'[v] = req[v]
          /\ pc[v] # "idle" /\ req[v] \notin failed
      BY <1>2, <2>2 DEF Concerns
    <3>2. req[v] \in Requests /\ req[v] # r /\ obj[v] \in Objects
      BY <1>0, <2>2, <3>1, HasRequest, RefersToObject DEF Concerns, Holding, Procs
    <3>3. obj[v] # obj[w] /\ obj[v] # obj'[w]
      BY <2>2, <3>1, <3>2, RequestHandlerAssumption DEF Holding, OneHolder
    <3>4. Progress(v) /\ sync' = sync /\ isSend'[obj[v]] = isSend[obj[v]]
      BY <3>1, <3>2, <3>3 DEF Concerns, Answered
    <3>5. /\ err'[req[v]] = err[req[v]] /\ (req[v] \in callbacks' <=> req[v] \in callbacks)
          /\ answers'[req[v]][req[v]] = answers[req[v]][req[v]]
      BY <3>2 DEF Concerns
    <3>. QED  BY <3>1, <3>4, <3>5 DEF Progress
  <2>. QED  BY <2>1, <2>2
<1>3. ASSUME NEW q \in Requests, Handled(q)', q \notin failed' PROVE answers'[q][q] = 1
  <2>1. CASE q = r
    BY <1>3, <2>1 DEF Handled
  <2>2. CASE q # r
    <3>1. Handled(q)
      BY <1>3, <2>2, RequestHandlerAssumption DEF Handled, Concerns, Procs
    <3>. QED  BY <1>3, <2>2, <3>1 DEF Answered, Concerns
  <2>. QED  BY <2>1, <2>2
<1>. QED  BY <1>1, <1>2, <1>3 DEF Answered

\* A step that is no handler's, and costs no untaken callback, owes nothing.
LEMMA OthersStep ==
    ASSUME TypeInv, Answered, UNCHANGED <<sync, todo, isSend, req, answers, failed>>,
           \A w \in Workers : pc'[w] = pc[w] /\ obj'[w] = obj[w],
           \A q \in todo : pc'[q] = pc[q] /\ err'[q] = err[q],
           \A q \in Requests : err[q] = "none" /\ q \in callbacks =>
                                   err'[q] = "none" /\ q \in callbacks'
    PROVE  Answered'
<1>1. ASSUME NEW w \in Workers, pc[w] # "idle", Progress(w) PROVE Progress(w)'
  BY <1>1, HasRequest DEF Progress
<1>. QED  BY <1>1 DEF Answered, Untouched, Handled

\* Every step of handlers, timers and Send keeps Answering.
LEMMA StepAnswering ==
    TypeInv /\ TypeInv' /\ Holding /\ Holding' /\ Straying /\ Answering /\ [Next]_vars
    => Answering'
<1>. SUFFICES ASSUME TypeInv, TypeInv', Holding, Holding', Straying, Answering, [Next]_vars,
                     late' = {}
              PROVE  Answered'
  BY DEF Answering
<1>. USE RequestHandlerAssumption
     DEF Procs, objectVars, contextVars, timerVars, ghostVars
<1>. Data /\ Control /\ Couplings /\ Control' /\ Couplings'
  BY TypeParts
<1>1. ASSUME NEW w \in Workers, NEW r \in Requests, Start(w, r) PROVE Answered'
  <2>. PICK o \in Objects : Acquire(o, r) /\ obj' = [obj EXCEPT ![w] = o]
    BY <1>1 DEF Start
  <2>1. Answered
    BY <1>1 DEF Start, Answering
  <2>2. Concerns(w, r)
    BY <1>1 DEF Start, Acquire, Go, Concerns, Data, Control, Couplings
  <2>3. Progress(w)'
    BY <1>1, <2>1 DEF Start, Acquire, Go, Progress, Answered, Untouched, Data, Control
  <2>4. req'[w] = r
    BY <1>1 DEF Start, Control
  <2>. QED  BY <2>1, <2>2, <2>3, <2>4, OwnStep
<1>2. ASSUME NEW w \in Workers, pc[w] # "idle",
             \/ ActivateTooLate(w) \/ ActivateArms(w) \/ ActivateRuns(w) \/ ActivateStopped(w)
             \/ DispatchReturns(w) \/ DispatchSends(w) \/ DispatchPanics(w)
             \/ CheckSent(w) \/ Unregister(w) \/ Cancel(w) \/ Release(w) \/ Send(w)
      PROVE  Answered'
  <2>. DEFINE r == req[w]
  <2>1. /\ r \in Requests /\ r # w /\ r \notin Workers /\ obj[w] \in Objects /\ r \notin todo
        /\ filled[obj[w]] = r
    BY <1>2, HasRequest, RefersToObject DEF Holding
  <2>2. Answered /\ (r \notin failed => Progress(w))
    <3>1. late = {}
      BY <1>2 DEF ActivateTooLate, ActivateArms, ActivateRuns, ActivateStopped,
         DispatchReturns, DispatchSends, DispatchPanics, CheckSent, Unregister, Cancel,
         Release, Send, Swap, Guard, Transmit, TransmitFails, TransmitPanics
    <3>. QED  BY <1>2, <3>1 DEF Answering, Answered
  <2>3. CASE ActivateTooLate(w)
    <3>1. Concerns(w, r)
      BY <2>1, <2>3 DEF ActivateTooLate, CancelContext, CallSend, Go, Concerns, Control, Data
    <3>2. req'[w] = r /\ (r \notin failed' => Progress(w)')
      BY <2>1, <2>2, <2>3
         DEF ActivateTooLate, CancelContext, CallSend, Go, Progress, Control, Data
    <3>. QED  BY <2>1, <2>2, <3>1, <3>2, OwnStep
  <2>4. CASE ActivateArms(w) \/ ActivateRuns(w) \/ ActivateStopped(w)
    <3>1. Concerns(w, r)
      BY <2>1, <2>4
         DEF ActivateArms, ActivateRuns, ActivateStopped, Go, Concerns, Control, Data
    <3>2. req'[w] = r /\ (r \notin failed' => Progress(w)')
      BY <2>1, <2>2, <2>4
         DEF ActivateArms, ActivateRuns, ActivateStopped, Go, Progress, Control, Data
    <3>. QED  BY <2>1, <2>2, <3>1, <3>2, OwnStep
  <2>5. CASE DispatchReturns(w) \/ DispatchSends(w) \/ DispatchPanics(w) \/ CheckSent(w)
    <3>1. Concerns(w, r)
      BY <2>1, <2>5 DEF DispatchReturns, DispatchSends, DispatchPanics, CheckSent, CallSend,
         Go, Concerns, Control, Data
    <3>2. req'[w] = r /\ (r \notin failed' => Progress(w)')
      BY <2>1, <2>2, <2>5 DEF DispatchReturns, DispatchSends, DispatchPanics, CheckSent,
         CallSend, Go, Progress, Control, Data
    <3>. QED  BY <2>1, <2>2, <3>1, <3>2, OwnStep
  <2>6. CASE Unregister(w)
    <3>1. Concerns(w, r)
      BY <2>1, <2>6 DEF Unregister, CallSend, Concerns, Control, Data
    <3>2. req'[w] = r /\ (r \notin failed' => Progress(w)')
      BY <2>1, <2>2, <2>6 DEF Unregister, CallSend, Progress, Control, Data
    <3>. QED  BY <2>1, <2>2, <3>1, <3>2, OwnStep
  <2>7. CASE Cancel(w)
    <3>1. Concerns(w, r)
      BY <2>1, <2>7 DEF Cancel, CancelContext, CallSend, Go, Concerns, Control, Data
    <3>2. req'[w] = r /\ (r \notin failed' => Progress(w)')
      BY <2>1, <2>2, <2>7 DEF Cancel, CancelContext, CallSend, Go, Progress, Control, Data
    <3>. QED  BY <2>1, <2>2, <3>1, <3>2, OwnStep
  <2>8. CASE Release(w)
    <3>1. Concerns(w, r)
      BY <2>1, <2>8 DEF Release, Go, Concerns, Control, Data
    <3>2. req'[w] # r /\ (r \notin failed' => answers'[r][r] = 1)
      BY <2>1, <2>2, <2>8 DEF Release, Go, Progress, Control, Data
    <3>. QED  BY <2>1, <2>2, <3>1, <3>2, OwnStep
  <2>9. CASE Send(w)
    <3>1. UNCHANGED <<sync, todo, pool, filled, err, callbacks, req>>
      BY <2>9 DEF Send, Swap, Guard, Transmit, TransmitFails, TransmitPanics
    <3>2. /\ \A q \in Procs : q # w => pc'[q] = pc[q] /\ obj'[q] = obj[q]
          /\ obj'[w] = obj[w]
          /\ \A o \in Objects : o # obj[w] => isSend'[o] = isSend[o]
          /\ failed \subseteq failed'
      BY <2>9 DEF Send, Swap, Guard, Transmit, TransmitFails, TransmitPanics, Return, Go,
         Control, Data
    <3>3. \A q \in Requests : q # r => answers'[q][q] = answers[q][q]
      BY <2>1, <2>9 DEF Send, Swap, Guard, Transmit, TransmitFails, TransmitPanics, Data
    <3>4. Concerns(w, r)
      BY <2>1, <3>1, <3>2, <3>3 DEF Concerns
    <3>5. ASSUME r \notin failed' PROVE Progress(w)'
      <4>1. Progress(w) /\ r \notin failed
        BY <2>2, <3>2, <3>5
      <4>2. ret[w] \in {"dispatch", "check", "cancel", "release"}
        BY <1>2, <2>9 DEF Send, Swap, Guard, Transmit, TransmitFails, TransmitPanics,
           Control, Couplings, Places, Sending
      <4>3. CASE Swap(w)
        BY <2>1, <3>1, <3>2, <4>1, <4>2, <4>3 DEF Swap, Return, Go, Progress, Control, Data
      <4>4. CASE Guard(w)
        BY <2>1, <3>1, <3>2, <4>1, <4>4 DEF Guard, HandlerSet, Go, Progress, Control, Data
      <4>5. CASE Transmit(w)
        <5>1. answers'[r][r] = 1
          BY <2>1, <4>1, <4>5 DEF Transmit, Progress, Data
        <5>2. /\ pc'[w] \notin {"guard", "transmit", "idle"}
              /\ isSend' = isSend /\ isSend[obj[w]]
          BY <4>1, <4>2, <4>5 DEF Transmit, Return, Go, Progress, Control
        <5>. QED  BY <3>1, <3>2, <5>1, <5>2 DEF Progress
      <4>6. ~TransmitFails(w)
        BY <2>1, <3>5 DEF TransmitFails, Data
      <4>7. ~TransmitPanics(w)
        BY <2>1 DEF TransmitPanics, HandlerSet
      <4>. QED  BY <2>9, <4>3, <4>4, <4>5, <4>6, <4>7 DEF Send
    <3>. QED  BY <2>1, <2>2, <3>1, <3>4, <3>5, OwnStep
  <2>. QED  BY <1>2, <2>3, <2>4, <2>5, <2>6, <2>7, <2>8, <2>9
<1>3. ASSUME NEW r \in Requests, Send(r) PROVE FALSE
  BY <1>3 DEF Send, Swap, Guard, Transmit, TransmitFails, TransmitPanics, Straying, Sending
<1>4. ASSUME NEW r \in Requests, TimerFires(r) \/ TimerStops(r) \/ TimerCancels(r)
      PROVE  Answered'
  <2>1. late = {} /\ Answered
    BY <1>4 DEF TimerFires, TimerStops, TimerCancels, CancelContext, Answering
  <2>2. /\ UNCHANGED <<sync, todo, isSend, req, answers, failed>>
        /\ \A q \in Procs : q # r => pc'[q] = pc[q] /\ obj'[q] = obj[q]
        /\ pc[r] # "idle"
    BY <1>4 DEF TimerFires, TimerStops, TimerCancels, CancelContext, CallSend, EndTimer, Go,
       Control
  <2>3. /\ \A q \in Requests : q # r => err'[q] = err[q]
        /\ \A q \in Requests : err[q] = "none" /\ q \in callbacks =>
                                   err'[q] = "none" /\ q \in callbacks'
    BY <1>4 DEF TimerFires, TimerStops, TimerCancels, CancelContext, Data
  <2>4. r \notin todo
    BY <2>1, <2>2 DEF Answered, Untouched
  <2>. QED  BY <2>1, <2>2, <2>3, <2>4, OthersStep DEF Data
<1>5. ASSUME StopWheel \/ ClearTimers \/ UNCHANGED vars PROVE Answered'
  <2>1. UNCHANGED <<sync, todo, isSend, err, callbacks, pc, req, obj, answers, failed, late>>
    BY <1>5 DEF StopWheel, ClearTimers, vars
  <2>. QED  BY <2>1, OthersStep DEF Answering
<1>6. ASSUME NEW w \in Workers, Worker(w) PROVE Answered'
  <2>1. CASE \E r \in Requests : Start(w, r)
    BY <1>1, <2>1
  <2>2. CASE pc[w] # "idle"
    BY <1>1, <1>2, <1>6, <2>2 DEF Worker, Activate, Dispatch
  <2>3. CASE pc[w] = "idle" /\ ~\E r \in Requests : Start(w, r)
    BY <1>6, <2>3 DEF Worker, Activate, Dispatch, ActivateTooLate, ActivateArms, ActivateRuns,
       ActivateStopped, DispatchReturns, DispatchSends, DispatchPanics, CheckSent, Unregister,
       Cancel, Release, Send, Swap, Guard, Transmit, TransmitFails, TransmitPanics
  <2>. QED  BY <2>1, <2>2, <2>3
<1>. QED  BY <1>3, <1>4, <1>5, <1>6 DEF Next, Timer

\* Without a late callback every request that saw no failure is answered once, by its
\* own handler.
THEOREM AnsweredOnceHolds == Spec => []AnsweredOnce
<1>1. TypeInv /\ Straying /\ Answering => AnsweredOnce
  <2>. SUFFICES ASSUME TypeInv, Straying, Answering, late = {},
                       NEW r \in Requests, Handled(r), r \notin failed
                PROVE  answers[r] = [by \in Requests |-> IF by = r THEN 1 ELSE 0]
    BY DEF AnsweredOnce
  <2>1. answers[r] \in [Requests -> Nat]
    BY DEF TypeInv, TypeOK
  <2>2. answers[r][r] = 1
    BY DEF Answering, Answered
  <2>3. \A by \in Requests : by # r => answers[r][by] = 0
    BY <2>1 DEF Straying, StrayAnswersAreLate
  <2>. QED  BY <2>1, <2>2, <2>3
<1>. QED
  BY <1>1, InitTypes, InitHolding, InitStraying, InitAnswering,
     StepTypes, StepHolding, StepStraying, StepAnswering, PTL DEF Spec
=============================================================================
