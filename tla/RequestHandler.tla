---------------------------- MODULE RequestHandler ----------------------------
(***************************************************************************)
(* The server side of a request: RequestHandler and RequestHandlerAsync    *)
(* (core/data_handler.go), the Response they answer with and its pool      *)
(* (core/response.go), the TimerContext that bounds the handling           *)
(* (component/context.go) and the goroutine that AddTaskAt starts for it   *)
(* (component/timing_wheel.go).                                            *)
(*                                                                         *)
(* A worker handles one request at a time.  The timer goroutine of a       *)
(* request bears the request's name.  Durations are abstracted: a deadline *)
(* may pass at any moment after the context is made.                       *)
(***************************************************************************)
EXTENDS Integers, Sequences, FiniteSets

CONSTANTS
    Requests,
    NoRequest,
    Workers,    \* pool workers
    Objects,    \* Response objects, enough for an allocation to find a new one
    NoObject

Procs == Workers \union Requests

ASSUME RequestHandlerAssumption ==
    /\ Workers \cap Requests = {}
    /\ NoRequest \notin Procs
    /\ NoObject \notin Objects
    /\ IsFiniteSet(Workers)
    /\ IsFiniteSet(Objects)
    /\ Cardinality(Workers) <= Cardinality(Objects)

VARIABLES
    sync,       \* the requests answered with Send, over the client's connection;
                \* the others with SendAsync, to the server AsyncUUID names
    todo,       \* requests decoded and not yet handed to a handler
    pool,       \* responsePool: a stack, the last element goes out first
    filled,     \* the request whose client and UUID each object holds
    isSend,
    err,        \* err of each request's context
    callbacks,  \* the contexts whose timeout callback is registered
    timerTasks, \* the requests whose timer is in tw.timerTasks
    stopped,    \* tw.stopped
    pc, ret,    \* where each goroutine is, and where Send returns to
    req, obj,   \* the request it handles and the response it refers to
    answers,    \* ghost: how often an answer went to a request, by whose code
    failed,     \* ghost: requests that saw a transmission fail
    late        \* ghost: requests whose timer took the callback

vars == <<sync, todo, pool, filled, isSend, err, callbacks, timerTasks, stopped,
          pc, ret, req, obj, answers, failed, late>>

objectVars == <<pool, filled>>
contextVars == <<err, callbacks>>
timerVars == <<timerTasks, stopped>>
ghostVars == <<answers, failed, late>>

Init ==
    /\ sync \in SUBSET Requests
    /\ todo = Requests
    /\ pool = <<>>
    /\ filled = [o \in Objects |-> NoRequest]
    /\ isSend = [o \in Objects |-> FALSE]
    /\ err = [r \in Requests |-> "none"]
    /\ callbacks = {}
    /\ timerTasks = {}
    /\ stopped = FALSE
    /\ pc = [p \in Procs |-> "idle"]
    /\ ret = [p \in Procs |-> "idle"]
    /\ req = [p \in Procs |-> IF p \in Requests THEN p ELSE NoRequest]
    /\ obj = [p \in Procs |-> NoObject]
    /\ answers = [to \in Requests |-> [by \in Requests |-> 0]]
    /\ failed = {}
    /\ late = {}

-----------------------------------------------------------------------------
\* Responses.

Pooled(o) == \E i \in DOMAIN pool : pool[i] = o
Held(o) == \E w \in Workers : obj[w] = o

\* A faulty NewObject, used only to show that the properties below can fail: the
\* pool's zero function returns one object every time.
NewObjectShared == CHOOSE o \in Objects : TRUE

\* A new object: one never made before, for those are pooled or held.
NewObject == CHOOSE o \in Objects : ~Pooled(o) /\ ~Held(o)

\* The top of the stack, or a new object; reset; and filled in for request r.
Acquire(o, r) ==
    /\ IF pool = <<>>
       THEN o = NewObject /\ UNCHANGED pool
       ELSE o = pool[Len(pool)] /\ pool' = SubSeq(pool, 1, Len(pool) - 1)
    /\ filled' = [filled EXCEPT ![o] = r]
    /\ isSend' = [isSend EXCEPT ![o] = FALSE]

Go(p, there) == pc' = [pc EXCEPT ![p] = there]

\* Process p calls Send or SendAsync and goes on at there.
CallSend(p, there) ==
    /\ pc' = [pc EXCEPT ![p] = "swap"]
    /\ ret' = [ret EXCEPT ![p] = there]

\* The timer goroutine of r ends, and its closure with it.
EndTimer(r) ==
    /\ Go(r, "idle")
    /\ obj' = [obj EXCEPT ![r] = NoObject]

\* Send returns: a handler goes on, a timer goroutine ends.
Return(p) ==
    /\ IF p \in Workers THEN Go(p, ret[p]) /\ UNCHANGED obj ELSE EndTimer(p)
    /\ ret' = [ret EXCEPT ![p] = "idle"]

-----------------------------------------------------------------------------
(* Faulty variants of the actions, used only to show that the properties   *)
(* below can fail.  The specification uses none of them.                   *)

CancelContextAgain(r, why, callback, otherwise) ==
    /\ err' = [err EXCEPT ![r] = why]
    /\ callbacks' = callbacks \ {r}
    /\ IF r \in callbacks THEN callback ELSE otherwise

SwapUnchecked(p) ==
    /\ pc[p] = "swap"
    /\ isSend' = [isSend EXCEPT ![obj[p]] = TRUE]
    /\ Go(p, IF req[p] \in sync THEN "guard" ELSE "transmit")
    /\ UNCHANGED <<sync, todo, objectVars, contextVars, timerVars, ret, req, obj,
                   ghostVars>>

ReleaseKeepsObject(w) ==
    /\ pc[w] = "release"
    /\ filled' = [filled EXCEPT ![obj[w]] = NoRequest]
    /\ isSend' = [isSend EXCEPT ![obj[w]] = FALSE]
    /\ pool' = Append(pool, obj[w])
    /\ req' = [req EXCEPT ![w] = NoRequest]
    /\ Go(w, "idle")
    /\ UNCHANGED <<sync, todo, contextVars, timerVars, ret, obj, ghostVars>>

ReleaseTwice(w) ==
    /\ pc[w] = "release"
    /\ filled' = [filled EXCEPT ![obj[w]] = NoRequest]
    /\ isSend' = [isSend EXCEPT ![obj[w]] = FALSE]
    /\ pool' = Append(Append(pool, obj[w]), obj[w])
    /\ obj' = [obj EXCEPT ![w] = NoObject]
    /\ req' = [req EXCEPT ![w] = NoRequest]
    /\ Go(w, "idle")
    /\ UNCHANGED <<sync, todo, contextVars, timerVars, ret, ghostVars>>

-----------------------------------------------------------------------------
\* The context.

(* CancelContext.Cancel: the first call wins; it records the reason and     *)
(* takes the callback out, both under state.mu, and runs it unlocked.      *)
CancelContext(r, why, callback, otherwise) ==
    IF err[r] # "none"
    THEN otherwise /\ UNCHANGED contextVars
    ELSE /\ err' = [err EXCEPT ![r] = why]
         /\ callbacks' = callbacks \ {r}
         /\ IF r \in callbacks THEN callback ELSE otherwise

(* A handler starts: it acquires a response and fills it in, makes a       *)
(* context with a timeout and registers the timeout callback, whose        *)
(* closure keeps the response.                                             *)
Start(w, r) ==
    /\ pc[w] = "idle"
    /\ r \in todo
    /\ todo' = todo \ {r}
    /\ \E o \in Objects :
        /\ Acquire(o, r)
        /\ obj' = [obj EXCEPT ![w] = o]
    /\ req' = [req EXCEPT ![w] = r]
    /\ callbacks' = callbacks \union {r}
    /\ Go(w, "activate")
    /\ UNCHANGED <<sync, err, timerVars, ret, ghostVars>>

-----------------------------------------------------------------------------
\* ActivateTimer.

\* The deadline has passed: Cancel runs the callback here and now.
ActivateTooLate(w) ==
    /\ pc[w] = "activate"
    /\ CancelContext(req[w], "deadline", CallSend(w, "dispatch"),
                     Go(w, "dispatch") /\ UNCHANGED ret)
    /\ UNCHANGED <<sync, todo, objectVars, isSend, timerVars, req, obj, ghostVars>>

\* AddTaskAt starts a goroutine that waits for the deadline.
ActivateArms(w) ==
    /\ pc[w] = "activate"
    /\ ~stopped
    /\ timerTasks' = timerTasks \union {req[w]}
    /\ pc' = [pc EXCEPT ![w] = "dispatch", ![req[w]] = "armed"]
    /\ obj' = [obj EXCEPT ![req[w]] = obj[w]]
    /\ UNCHANGED <<sync, todo, objectVars, isSend, contextVars, stopped, ret, req,
                   ghostVars>>

\* AddTaskAt finds that the deadline has passed and starts the callback at once.
ActivateRuns(w) ==
    /\ pc[w] = "activate"
    /\ ~stopped
    /\ pc' = [pc EXCEPT ![w] = "dispatch", ![req[w]] = "fired"]
    /\ obj' = [obj EXCEPT ![req[w]] = obj[w]]
    /\ UNCHANGED <<sync, todo, objectVars, isSend, contextVars, timerVars, ret, req,
                   ghostVars>>

\* The wheel has stopped: the context gets no timer.
ActivateStopped(w) ==
    /\ pc[w] = "activate"
    /\ stopped
    /\ Go(w, "dispatch")
    /\ UNCHANGED <<sync, todo, objectVars, isSend, contextVars, timerVars, ret, req,
                   obj, ghostVars>>

-----------------------------------------------------------------------------
\* The handler of the route, and what follows it.

\* The route is missing, a filter stops the chain, or the handler returns.
DispatchReturns(w) ==
    /\ pc[w] = "dispatch"
    /\ Go(w, "check")
    /\ UNCHANGED <<sync, todo, objectVars, isSend, contextVars, timerVars, ret, req,
                   obj, ghostVars>>

\* The handler sends the response itself.
DispatchSends(w) ==
    /\ pc[w] = "dispatch"
    /\ CallSend(w, "check")
    /\ UNCHANGED <<sync, todo, objectVars, isSend, contextVars, timerVars, req, obj,
                   ghostVars>>

\* The handler panics: only the deferred calls run.
DispatchPanics(w) ==
    /\ pc[w] = "dispatch"
    /\ Go(w, "cancel")
    /\ UNCHANGED <<sync, todo, objectVars, isSend, contextVars, timerVars, ret, req,
                   obj, ghostVars>>

CheckSent(w) ==
    /\ pc[w] = "check"
    /\ Go(w, IF isSend[obj[w]] THEN "cancel" ELSE "unregister")
    /\ UNCHANGED <<sync, todo, objectVars, isSend, contextVars, timerVars, ret, req,
                   obj, ghostVars>>

Unregister(w) ==
    /\ pc[w] = "unregister"
    /\ callbacks' = callbacks \ {req[w]}
    /\ CallSend(w, "cancel")
    /\ UNCHANGED <<sync, todo, objectVars, isSend, err, timerVars, req, obj, ghostVars>>

\* The deferred cancel().
Cancel(w) ==
    /\ pc[w] = "cancel"
    /\ CancelContext(req[w], "canceled", CallSend(w, "release"),
                     Go(w, "release") /\ UNCHANGED ret)
    /\ UNCHANGED <<sync, todo, objectVars, isSend, timerVars, req, obj, ghostVars>>

\* The deferred ReleaseResponse.
Release(w) ==
    /\ pc[w] = "release"
    /\ filled' = [filled EXCEPT ![obj[w]] = NoRequest]
    /\ isSend' = [isSend EXCEPT ![obj[w]] = FALSE]
    /\ pool' = Append(pool, obj[w])
    /\ obj' = [obj EXCEPT ![w] = NoObject]
    /\ req' = [req EXCEPT ![w] = NoRequest]
    /\ Go(w, "idle")
    /\ UNCHANGED <<sync, todo, contextVars, timerVars, ret, ghostVars>>

-----------------------------------------------------------------------------
\* The timer goroutine of request r.

\* The deadline passes: the goroutine takes its task out under tw.mu.
TimerFires(r) ==
    /\ pc[r] = "armed"
    /\ timerTasks' = timerTasks \ {r}
    /\ IF r \in timerTasks THEN Go(r, "fired") /\ UNCHANGED obj ELSE EndTimer(r)
    /\ UNCHANGED <<sync, todo, objectVars, isSend, contextVars, stopped, ret, req,
                   ghostVars>>

TimerStops(r) ==
    /\ pc[r] = "armed"
    /\ stopped
    /\ EndTimer(r)
    /\ UNCHANGED <<sync, todo, objectVars, isSend, contextVars, timerVars, ret, req,
                   ghostVars>>

TimerCancels(r) ==
    /\ pc[r] = "fired"
    /\ CancelContext(r, "deadline",
                     CallSend(r, "idle") /\ late' = late \union {r} /\ UNCHANGED obj,
                     EndTimer(r) /\ UNCHANGED <<ret, late>>)
    /\ UNCHANGED <<sync, todo, objectVars, isSend, timerVars, req, answers, failed>>

\* TimingWheel.Stop, in two steps.
StopWheel ==
    /\ ~stopped
    /\ stopped' = TRUE
    /\ UNCHANGED <<sync, todo, objectVars, isSend, contextVars, timerTasks, pc, ret,
                   req, obj, ghostVars>>

ClearTimers ==
    /\ stopped
    /\ timerTasks # {}
    /\ timerTasks' = {}
    /\ UNCHANGED <<sync, todo, objectVars, isSend, contextVars, stopped, pc, ret, req,
                   obj, ghostVars>>

-----------------------------------------------------------------------------
\* Response.Send and Response.SendAsync, called by a handler or a callback.

\* isSend.CompareAndSwap(false, true).
Swap(p) ==
    /\ pc[p] = "swap"
    /\ isSend' = [isSend EXCEPT ![obj[p]] = TRUE]
    /\ \/ isSend[obj[p]] /\ Return(p)
       \/ /\ ~isSend[obj[p]]
          /\ Go(p, IF req[p] \in sync THEN "guard" ELSE "transmit")
          /\ UNCHANGED <<ret, obj>>
    /\ UNCHANGED <<sync, todo, objectVars, contextVars, timerVars, req,
                   ghostVars>>

\* Send: is sendDataHandler set?  Only the response of a sync request has one.
HandlerSet(o) == filled[o] \in sync

Guard(p) ==
    /\ pc[p] = "guard"
    /\ \/ HandlerSet(obj[p]) /\ Go(p, "transmit") /\ UNCHANGED <<isSend, ret, obj>>
       \/ /\ ~HandlerSet(obj[p])
          /\ isSend' = [isSend EXCEPT ![obj[p]] = FALSE]
          /\ Return(p)
    /\ UNCHANGED <<sync, todo, objectVars, contextVars, timerVars, req,
                   ghostVars>>

(* The bytes go to the client or the server the object names now.  Send    *)
(* needs a handler; SendAsync needs the AsyncUUID of an async request.     *)
Transmit(p) ==
    /\ pc[p] = "transmit"
    /\ filled[obj[p]] \in (IF req[p] \in sync THEN sync ELSE Requests \ sync)
    /\ answers' = [answers EXCEPT ![filled[obj[p]]][req[p]] = @ + 1]
    /\ Return(p)
    /\ UNCHANGED <<sync, todo, objectVars, isSend, contextVars, timerVars, req,
                   failed, late>>

\* The encoding or the transmission fails, or there is no server of that name.
TransmitFails(p) ==
    /\ pc[p] = "transmit"
    /\ req[p] \in sync => HandlerSet(obj[p])
    /\ isSend' = [isSend EXCEPT ![obj[p]] = FALSE]
    /\ failed' = failed \union {req[p]}
    /\ Return(p)
    /\ UNCHANGED <<sync, todo, objectVars, contextVars, timerVars, req,
                   answers, late>>

(* The object was reset after Guard: the call of a nil handler panics, and *)
(* Cancel recovers from it.                                                *)
TransmitPanics(p) ==
    /\ pc[p] = "transmit"
    /\ req[p] \in sync
    /\ ~HandlerSet(obj[p])
    /\ Return(p)
    /\ UNCHANGED <<sync, todo, objectVars, isSend, contextVars, timerVars, req,
                   ghostVars>>

-----------------------------------------------------------------------------
Activate(w) ==
    ActivateTooLate(w) \/ ActivateArms(w) \/ ActivateRuns(w) \/ ActivateStopped(w)
Dispatch(w) == DispatchReturns(w) \/ DispatchSends(w) \/ DispatchPanics(w)
Send(p) == Swap(p) \/ Guard(p) \/ Transmit(p) \/ TransmitFails(p) \/ TransmitPanics(p)

Worker(w) ==
    \/ \E r \in Requests : Start(w, r)
    \/ Activate(w) \/ Dispatch(w) \/ CheckSent(w) \/ Unregister(w)
    \/ Send(w) \/ Cancel(w) \/ Release(w)

Timer(r) == TimerFires(r) \/ TimerStops(r) \/ TimerCancels(r) \/ Send(r)

Next ==
    \/ \E w \in Workers : Worker(w)
    \/ \E r \in Requests : Timer(r)
    \/ StopWheel
    \/ ClearTimers

Spec == Init /\ [][Next]_vars

-----------------------------------------------------------------------------
Steps == {"idle", "activate", "dispatch", "check", "unregister", "swap", "guard",
          "transmit", "cancel", "release", "armed", "fired"}

TypeOK ==
    /\ sync \subseteq Requests
    /\ todo \subseteq Requests
    /\ pool \in Seq(Objects)
    /\ filled \in [Objects -> Requests \union {NoRequest}]
    /\ isSend \in [Objects -> BOOLEAN]
    /\ err \in [Requests -> {"none", "canceled", "deadline"}]
    /\ callbacks \subseteq Requests
    /\ timerTasks \subseteq Requests
    /\ stopped \in BOOLEAN
    /\ pc \in [Procs -> Steps]
    /\ ret \in [Procs -> {"idle", "dispatch", "check", "cancel", "release"}]
    /\ req \in [Procs -> Requests \union {NoRequest}]
    /\ obj \in [Procs -> Objects \union {NoObject}]
    /\ answers \in [Requests -> [Requests -> Nat]]
    /\ failed \subseteq Requests
    /\ late \subseteq Requests
    /\ \A w \in Workers : (pc[w] = "idle") <=> (req[w] = NoRequest)
    /\ \A w \in Workers : (pc[w] = "idle") <=> (obj[w] = NoObject)
    /\ \A r \in Requests : req[r] = r

\* A response is in the pool once or in the hands of one handler, never both
\* (AcquireResponse and the deferred ReleaseResponse).
OneHolder ==
    /\ \A i, j \in DOMAIN pool : pool[i] = pool[j] => i = j
    /\ \A o \in Objects : Pooled(o) => ~Held(o)
    /\ \A v, w \in Workers : obj[v] = obj[w] /\ obj[v] # NoObject => v = w

Handled(r) == r \notin todo /\ \A w \in Workers : req[w] # r

\* As long as no timer has taken a callback, a request whose transmissions
\* succeeded has got exactly one answer when its handler is done, and got it from
\* that handler, whether the handler returned, sent by itself or panicked
\* (isSend, UnregisterCallback and the deferred cancel of RequestHandler).
AnsweredOnce ==
    late = {} =>
        \A r \in Requests : Handled(r) /\ r \notin failed =>
            answers[r] = [by \in Requests |-> IF by = r THEN 1 ELSE 0]

\* Only a request whose timer took the callback can answer for another one: the
\* callback keeps the response beyond the handler's deferred ReleaseResponse.
StrayAnswersAreLate ==
    \A to, by \in Requests : answers[to][by] > 0 /\ to # by => by \in late

\* The reason of a cancelled context never changes, however the deadline and the
\* deferred cancel race (CancelContext.Cancel).
CancelReasonFinal ==
    [][\A r \in Requests : err[r] # "none" => err'[r] = err[r]]_err

\* Send "synchronously sends the response back to the original client": an answer
\* that goes to the client of a sync request comes from the handling of that
\* request, and no callback of another one answers in its stead.
AnswersOwnClient ==
    \A to \in sync, by \in Requests : answers[to][by] > 0 => to = by
=============================================================================
