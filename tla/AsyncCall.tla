------------------------------ MODULE AsyncCall ------------------------------
(***************************************************************************)
(* The client side of an asynchronous call: SendAsyncWithFunc and          *)
(* SendAsyncWithFuture (core/request.go), the stub tables                  *)
(* (core/request_stub.go), the arrival of the reply in DataCallback        *)
(* (core/data_handler.go), the pool of Response objects                    *)
(* (core/response.go), the consumer of a future (core/response_future.go), *)
(* and the two goroutines that expire a call: the tick of the timing wheel *)
(* and the periodic scan that Framework.Start registers.                   *)
(*                                                                         *)
(* A call stands for its message UUID.  Durations are abstracted: an entry *)
(* may expire at any moment after it is registered.                        *)
(***************************************************************************)
EXTENDS Integers, Sequences, FiniteSets

CONSTANTS
    FuncCalls,        \* calls made with SendAsyncWithFunc
    FutureCalls,      \* calls made with SendAsyncWithFuture
    NoCall,
    Workers,          \* pool workers that run DataCallback
    Tick, Scan,       \* the tick goroutine and the stub scan goroutine
    Objects,          \* Response objects
    NoObject,
    MaxReplies,       \* bound: replies the server sends for one call
    ConsumersRelease, \* consumers of futures call ReleaseResponse
    Reentrant         \* callbacks may make a further asynchronous call

Calls == FuncCalls \union FutureCalls
Procs == Workers \union {Tick, Scan}

ASSUME AsyncCallAssumption ==
    /\ FuncCalls \cap FutureCalls = {}
    /\ NoCall \notin Calls
    /\ NoObject \notin Objects
    /\ Tick # Scan
    /\ {Tick, Scan} \cap Workers = {}
    /\ MaxReplies \in Nat
    /\ ConsumersRelease \in BOOLEAN
    /\ Reentrant \in BOOLEAN

VARIABLES
    cpc,          \* the caller, and the consumer of a future
    cobj,         \* the response in the consumer's hands
    replies,      \* replies the server has sent, per call
    inbox,        \* replies received and not yet picked up by a worker
    stub,         \* the keys of uuidFuncMap and uuidFutureMap
    wheel,        \* the keys of tw.taskLocation
    twHeld,       \* the tick holds tw.mu
    pool,         \* responsePool: a stack, the last element goes out first
    uuid, mtype,  \* the fields of each object that the code branches on
    chan,         \* the channel of each future, of capacity 1
    pc, obj, call,\* where each goroutine is, its response and its stub entry
    expired,      \* the keys the scan has yet to clean up
    resolved,     \* ghost: how often each call was resolved
    dropped       \* ghost: the calls a reply of which found no stub entry

vars == <<cpc, cobj, replies, inbox, stub, wheel, twHeld, pool, uuid, mtype,
          chan, pc, obj, call, expired, resolved, dropped>>

callerVars == <<cpc, cobj>>
netVars == <<replies, inbox>>
wheelVars == <<wheel, twHeld>>
objectVars == <<pool, uuid, mtype>>
ghostVars == <<resolved, dropped>>

Kind(c) == IF c \in FuncCalls THEN "func" ELSE "future"

Init ==
    /\ cpc = [c \in Calls |-> "new"]
    /\ cobj = [c \in Calls |-> NoObject]
    /\ replies = [c \in Calls |-> 0]
    /\ inbox = [c \in Calls |-> 0]
    /\ stub = {}
    /\ wheel = {}
    /\ twHeld = FALSE
    /\ pool = <<>>
    /\ uuid = [o \in Objects |-> NoCall]
    /\ mtype = [o \in Objects |-> "none"]
    /\ chan = [c \in FutureCalls |-> <<>>]
    /\ pc = [p \in Procs |-> "idle"]
    /\ obj = [p \in Procs |-> NoObject]
    /\ call = [p \in Procs |-> NoCall]
    /\ expired = {}
    /\ resolved = [c \in Calls |-> 0]
    /\ dropped = {}

-----------------------------------------------------------------------------
\* AcquireResponse and ReleaseResponse.

Pooled(o) == \E i \in DOMAIN pool : pool[i] = o

Referenced(o) ==
    \/ Pooled(o)
    \/ \E p \in Procs : obj[p] = o
    \/ \E c \in Calls : cobj[c] = o
    \/ \E c \in FutureCalls : \E i \in DOMAIN chan[c] : chan[c][i] = o

\* A new object: one that nothing refers to, no matter which.
NewObject == CHOOSE o \in Objects : ~Referenced(o)

\* The top of the stack, or a new object, which the caller then fills in as a
\* response of call c.
Acquire(o, c, type) ==
    /\ IF pool = <<>>
       THEN o = NewObject /\ UNCHANGED pool
       ELSE o = pool[Len(pool)] /\ pool' = SubSeq(pool, 1, Len(pool) - 1)
    /\ uuid' = [uuid EXCEPT ![o] = c]
    /\ mtype' = [mtype EXCEPT ![o] = type]

\* Reset, then push.  Nothing checks whether the object is there already.
Release(o) ==
    /\ uuid' = [uuid EXCEPT ![o] = NoCall]
    /\ mtype' = [mtype EXCEPT ![o] = "none"]
    /\ pool' = Append(pool, o)

-----------------------------------------------------------------------------
(* Faulty variants of the actions, used only to show that the properties   *)
(* below can fail.  The specification uses none of them.                   *)

HandleFoundKeeps(w) ==
    /\ pc[w] = "handle"
    /\ uuid[obj[w]] \in stub
    /\ mtype[obj[w]] = Kind(uuid[obj[w]])
    /\ call' = [call EXCEPT ![w] = uuid[obj[w]]]
    /\ pc' = [pc EXCEPT ![w] = "remove"]
    /\ UNCHANGED <<callerVars, netVars, stub, wheelVars, objectVars, chan, obj,
                   expired, ghostVars>>

HandleMissingFuture(w) ==
    /\ pc[w] = "handle"
    /\ ~(uuid[obj[w]] \in stub /\ mtype[obj[w]] = "func")
    /\ dropped' = dropped \union ({uuid[obj[w]]} \ {NoCall})
    /\ pc' = [pc EXCEPT ![w] = "after"]
    /\ UNCHANGED <<callerVars, netVars, stub, wheelVars, objectVars, chan, obj,
                   call, expired, resolved>>

CleanupExpiredKeeps(p, c, otherwise) ==
    \/ /\ c \in stub
       /\ \E o \in Objects : Acquire(o, c, "none") /\ obj' = [obj EXCEPT ![p] = o]
       /\ call' = [call EXCEPT ![p] = c]
       /\ pc' = [pc EXCEPT ![p] = "resolve"]
       /\ UNCHANGED stub
    \/ /\ c \notin stub
       /\ pc' = [pc EXCEPT ![p] = otherwise]
       /\ UNCHANGED <<stub, objectVars, obj, call>>

TickUnlockForgotten ==
    /\ pc[Tick] = "locked"
    /\ pc' = [pc EXCEPT ![Tick] = "idle"]
    /\ UNCHANGED <<callerVars, netVars, stub, wheelVars, objectVars, chan, obj,
                   call, expired, ghostVars>>

-----------------------------------------------------------------------------
\* The caller.

\* encodeAndSend: an error returns before anything is registered.
Send(c) ==
    /\ cpc[c] = "new"
    /\ \E result \in {"sent", "failed"} : cpc' = [cpc EXCEPT ![c] = result]
    /\ UNCHANGED <<cobj, netVars, stub, wheelVars, objectVars, chan, pc, obj,
                   call, expired, ghostVars>>

\* The entry goes into the table only after the request has gone out.
AddStub(c) ==
    /\ cpc[c] = "sent"
    /\ cpc' = [cpc EXCEPT ![c] = "added"]
    /\ stub' = stub \union {c}
    /\ UNCHANGED <<cobj, netVars, wheelVars, objectVars, chan, pc, obj, call,
                   expired, ghostVars>>

\* TimingWheel.AddTask, under tw.mu.
AddTask(c) ==
    /\ cpc[c] = "added"
    /\ ~twHeld
    /\ wheel' = wheel \union {c}
    /\ cpc' = [cpc EXCEPT ![c] = IF c \in FuncCalls THEN "done" ELSE "waiting"]
    /\ UNCHANGED <<cobj, netVars, stub, twHeld, objectVars, chan, pc, obj,
                   call, expired, ghostVars>>

\* GetResponseWithTimeout: the channel, or the consumer's own timer.
GetResponse(c) ==
    /\ cpc[c] = "waiting"
    /\ chan[c] # <<>>
    /\ cobj' = [cobj EXCEPT ![c] = Head(chan[c])]
    /\ chan' = [chan EXCEPT ![c] = Tail(@)]
    /\ cpc' = [cpc EXCEPT ![c] = "holding"]
    /\ UNCHANGED <<netVars, stub, wheelVars, objectVars, pc, obj, call,
                   expired, ghostVars>>

GiveUp(c) ==
    /\ cpc[c] = "waiting"
    /\ cpc' = [cpc EXCEPT ![c] = "done"]
    /\ UNCHANGED <<cobj, netVars, stub, wheelVars, objectVars, chan, pc, obj,
                   call, expired, ghostVars>>

\* The consumer is through with its response.
Consumed(c) ==
    /\ cpc[c] = "holding"
    /\ IF ConsumersRelease THEN Release(cobj[c]) ELSE UNCHANGED objectVars
    /\ cobj' = [cobj EXCEPT ![c] = NoObject]
    /\ cpc' = [cpc EXCEPT ![c] = "done"]
    /\ UNCHANGED <<netVars, stub, wheelVars, chan, pc, obj, call, expired,
                   ghostVars>>

\* The reply comes back on a connection to this process's own server, which
\* enqueues DataCallback: at any time after the request went out, or never.
Reply(c) ==
    /\ cpc[c] \notin {"new", "failed"}
    /\ replies[c] < MaxReplies
    /\ replies' = [replies EXCEPT ![c] = @ + 1]
    /\ inbox' = [inbox EXCEPT ![c] = @ + 1]
    /\ UNCHANGED <<callerVars, stub, wheelVars, objectVars, chan, pc, obj,
                   call, expired, ghostVars>>

-----------------------------------------------------------------------------
\* DataCallback on a response, in a worker.

\* AcquireResponse and DecodeResponse.
Receive(w) ==
    /\ pc[w] = "idle"
    /\ \E c \in Calls, o \in Objects :
          /\ inbox[c] > 0
          /\ inbox' = [inbox EXCEPT ![c] = @ - 1]
          /\ Acquire(o, c, Kind(c))
          /\ obj' = [obj EXCEPT ![w] = o]
    /\ pc' = [pc EXCEPT ![w] = "handle"]
    /\ UNCHANGED <<callerVars, replies, stub, wheelVars, chan, call, expired,
                   ghostVars>>

\* ResponseHandler and the lookup that opens RequestStubExecFunc or
\* RequestStubSetFuture: type and key are read from the object, the entry is
\* taken out under the lock of its table.
HandleFound(w) ==
    /\ pc[w] = "handle"
    /\ uuid[obj[w]] \in stub
    /\ mtype[obj[w]] = Kind(uuid[obj[w]])
    /\ stub' = stub \ {uuid[obj[w]]}
    /\ call' = [call EXCEPT ![w] = uuid[obj[w]]]
    /\ pc' = [pc EXCEPT ![w] = "remove"]
    /\ UNCHANGED <<callerVars, netVars, wheelVars, objectVars, chan, obj,
                   expired, ghostVars>>

HandleMissing(w) ==
    /\ pc[w] = "handle"
    /\ ~(uuid[obj[w]] \in stub /\ mtype[obj[w]] = Kind(uuid[obj[w]]))
    /\ dropped' = dropped \union ({uuid[obj[w]]} \ {NoCall})
    /\ pc' = [pc EXCEPT ![w] = "after"]
    /\ UNCHANGED <<callerVars, netVars, stub, wheelVars, objectVars, chan, obj,
                   call, expired, resolved>>

\* RemoveTask, under tw.mu; the key is read from the object again.
RemoveTask(w) ==
    /\ pc[w] = "remove"
    /\ ~twHeld
    /\ wheel' = wheel \ {uuid[obj[w]]}
    /\ pc' = [pc EXCEPT ![w] = "resolve"]
    /\ UNCHANGED <<callerVars, netVars, stub, twHeld, objectVars, chan, obj,
                   call, expired, ghostVars>>

\* What a goroutine does after the callback or the channel operation: a
\* worker returns to DataCallback, the tick and the scan to their loops.
Continue(p) ==
    /\ pc' = [pc EXCEPT ![p] = CASE p \in Workers -> "after"
                                 [] p = Tick -> "locked"
                                 [] OTHER -> "scanning"]
    /\ call' = [call EXCEPT ![p] = NoCall]
    /\ obj' = IF p \in Workers THEN obj ELSE [obj EXCEPT ![p] = NoObject]

\* extractedFn(response) begins, with a reply or a timeout response.
CallbackBegin(p) ==
    /\ pc[p] = "resolve"
    /\ call[p] \in FuncCalls
    /\ resolved' = [resolved EXCEPT ![call[p]] = @ + 1]
    /\ \E there \in {"callback"} \union (IF Reentrant THEN {"reenter"} ELSE {}) :
          pc' = [pc EXCEPT ![p] = there]
    /\ UNCHANGED <<callerVars, netVars, stub, wheelVars, objectVars, chan, obj,
                   call, expired, dropped>>

\* A callback that makes a call of its own goes through AddTask, hence through
\* tw.mu, which a callback of the tick's already holds.
CallbackSends(p) ==
    /\ pc[p] = "reenter"
    /\ ~twHeld
    /\ pc' = [pc EXCEPT ![p] = "callback"]
    /\ UNCHANGED <<callerVars, netVars, stub, wheelVars, objectVars, chan, obj,
                   call, expired, ghostVars>>

\* It returns and the deferred ReleaseResponse runs.
CallbackEnd(p) ==
    /\ pc[p] = "callback"
    /\ Release(obj[p])
    /\ Continue(p)
    /\ UNCHANGED <<callerVars, netVars, stub, wheelVars, chan, expired, ghostVars>>

\* The non-blocking send on the channel of the future.
SendFuture(p) ==
    /\ pc[p] = "resolve"
    /\ call[p] \in FutureCalls
    /\ resolved' = [resolved EXCEPT ![call[p]] = @ + 1]
    /\ IF chan[call[p]] = <<>>
       THEN /\ chan' = [chan EXCEPT ![call[p]] = <<obj[p]>>]
            /\ UNCHANGED objectVars
       ELSE Release(obj[p]) /\ UNCHANGED chan
    /\ Continue(p)
    /\ UNCHANGED <<callerVars, netVars, stub, wheelVars, expired, dropped>>

\* Back in DataCallback: the type is read from an object that may have been
\* released, reset and reused since.
AfterHandler(w) ==
    /\ pc[w] = "after"
    /\ IF mtype[obj[w]] # "future" THEN Release(obj[w]) ELSE UNCHANGED objectVars
    /\ obj' = [obj EXCEPT ![w] = NoObject]
    /\ pc' = [pc EXCEPT ![w] = "idle"]
    /\ UNCHANGED <<callerVars, netVars, stub, wheelVars, chan, call, expired,
                   ghostVars>>

-----------------------------------------------------------------------------
\* Expiry.

\* RequestStubCleanupExpiredFunc and -Future on key c: nothing when the entry
\* has gone, else it is taken out and a timeout response built.  The type of
\* that response is never set.
CleanupExpired(p, c, otherwise) ==
    \/ /\ c \in stub
       /\ stub' = stub \ {c}
       /\ \E o \in Objects : Acquire(o, c, "none") /\ obj' = [obj EXCEPT ![p] = o]
       /\ call' = [call EXCEPT ![p] = c]
       /\ pc' = [pc EXCEPT ![p] = "resolve"]
    \/ /\ c \notin stub
       /\ pc' = [pc EXCEPT ![p] = otherwise]
       /\ UNCHANGED <<stub, objectVars, obj, call>>

\* tick holds tw.mu from here ...
TickLock ==
    /\ pc[Tick] = "idle"
    /\ wheel # {}
    /\ twHeld' = TRUE
    /\ pc' = [pc EXCEPT ![Tick] = "locked"]
    /\ UNCHANGED <<callerVars, netVars, stub, wheel, objectVars, chan, obj,
                   call, expired, ghostVars>>

\* ... through the expiry callbacks of the due entries ...
TickExpire ==
    /\ pc[Tick] = "locked"
    /\ \E c \in wheel :
          /\ wheel' = wheel \ {c}
          /\ CleanupExpired(Tick, c, "locked")
    /\ UNCHANGED <<callerVars, netVars, twHeld, chan, expired, ghostVars>>

\* ... to its return.
TickUnlock ==
    /\ pc[Tick] = "locked"
    /\ twHeld' = FALSE
    /\ pc' = [pc EXCEPT ![Tick] = "idle"]
    /\ UNCHANGED <<callerVars, netVars, stub, wheel, objectVars, chan, obj,
                   call, expired, ghostVars>>

\* RequestStubCleanupExpiredFuncs and -Futures: the keys found expired are
\* collected under the lock and cleaned up one by one without it.
ScanCollect(due) ==
    /\ pc[Scan] = "idle"
    /\ due # {}
    /\ expired' = due
    /\ pc' = [pc EXCEPT ![Scan] = "scanning"]
    /\ UNCHANGED <<callerVars, netVars, stub, wheelVars, objectVars, chan, obj,
                   call, ghostVars>>

\* A faulty variant: the scan cleans up callbacks and forgets the futures.
ScanExpireFuncsOnly ==
    /\ pc[Scan] = "scanning"
    /\ \E c \in expired :
          /\ expired' = expired \ {c}
          /\ IF c \in FuncCalls
             THEN CleanupExpired(Scan, c, "scanning")
             ELSE UNCHANGED <<stub, objectVars, obj, call, pc>>
    /\ UNCHANGED <<callerVars, netVars, wheelVars, chan, ghostVars>>

ScanExpire ==
    /\ pc[Scan] = "scanning"
    /\ \E c \in expired :
          /\ expired' = expired \ {c}
          /\ CleanupExpired(Scan, c, "scanning")
    /\ UNCHANGED <<callerVars, netVars, wheelVars, chan, ghostVars>>

ScanEnd ==
    /\ pc[Scan] = "scanning"
    /\ expired = {}
    /\ pc' = [pc EXCEPT ![Scan] = "idle"]
    /\ UNCHANGED <<callerVars, netVars, stub, wheelVars, objectVars, chan, obj,
                   call, expired, ghostVars>>

-----------------------------------------------------------------------------
WorkerStep(w) ==
    HandleFound(w) \/ HandleMissing(w) \/ RemoveTask(w) \/ AfterHandler(w)

ResolveStep(p) ==
    CallbackBegin(p) \/ CallbackSends(p) \/ CallbackEnd(p) \/ SendFuture(p)

Next ==
    \/ \E c \in Calls :
          \/ Send(c) \/ AddStub(c) \/ AddTask(c) \/ Reply(c) \/ Consumed(c)
    \/ \E c \in FutureCalls : GetResponse(c) \/ GiveUp(c)
    \/ \E w \in Workers : Receive(w) \/ WorkerStep(w)
    \/ \E p \in Procs : ResolveStep(p)
    \/ TickLock \/ TickExpire \/ TickUnlock
    \/ \E due \in SUBSET stub : ScanCollect(due)
    \/ ScanExpire \/ ScanEnd

Spec == Init /\ [][Next]_vars

\* The steps that lock tw.mu, other than the tick's.
LockStep ==
    \/ \E c \in Calls : AddTask(c)
    \/ \E w \in Workers : RemoveTask(w)
    \/ \E p \in Procs : CallbackSends(p)

\* Goroutines keep running and callbacks return.  tw.mu is a Go mutex, which
\* serves its waiters in turn: whoever waits for it gets it between two ticks
\* (one strong fairness for all, since each locks it a bounded number of
\* times).  The scan is a repeated task and every entry expires, so some scan
\* collects what is left; it collects an entry at most once.
Fairness ==
    /\ \A c \in Calls : WF_vars(AddStub(c))
    /\ \A w \in Workers : WF_vars(WorkerStep(w))
    /\ \A p \in Procs : WF_vars(ResolveStep(p))
    /\ SF_vars(LockStep)
    /\ WF_vars(TickExpire \/ TickUnlock)
    /\ WF_vars(\E due \in SUBSET stub : ScanCollect(due))
    /\ WF_vars(ScanExpire \/ ScanEnd)

FairSpec == Spec /\ Fairness

-----------------------------------------------------------------------------
\* Every variable keeps its type, and exactly the goroutines between the
\* removal of a stub entry and the end of its use have one.
TypeOK ==
    /\ cpc \in [Calls -> {"new", "sent", "failed", "added", "waiting", "holding", "done"}]
    /\ cobj \in [Calls -> Objects \union {NoObject}]
    /\ replies \in [Calls -> 0..MaxReplies]
    /\ inbox \in [Calls -> 0..MaxReplies]
    /\ stub \subseteq Calls
    /\ wheel \subseteq Calls
    /\ twHeld \in BOOLEAN
    /\ pool \in Seq(Objects)
    /\ uuid \in [Objects -> Calls \union {NoCall}]
    /\ mtype \in [Objects -> {"none", "func", "future"}]
    /\ chan \in [FutureCalls -> Seq(Objects)]
    /\ pc \in [Procs -> {"idle", "handle", "remove", "resolve", "reenter",
                         "callback", "after", "locked", "scanning"}]
    /\ obj \in [Procs -> Objects \union {NoObject}]
    /\ call \in [Procs -> Calls \union {NoCall}]
    /\ \A p \in Procs :
          call[p] \in Calls <=> pc[p] \in {"remove", "resolve", "reenter", "callback"}
    /\ expired \subseteq Calls
    /\ resolved \in [Calls -> Nat]
    /\ dropped \subseteq Calls

\* The goroutines that have taken the stub entry of c and not yet used it.
Resolving(c) == {p \in Procs : pc[p] \in {"remove", "resolve"} /\ call[p] = c}

\* A callback runs at most once and a future is set at most once, whichever
\* of the reply, a second reply, the tick and the scan get there, and however
\* the registration interleaves with them.
AtMostOnce == \A c \in Calls : resolved[c] <= 1

\* The branch that drops a response because the channel is full never runs.
ChannelHasRoom ==
    \A p \in Procs : pc[p] = "resolve" /\ call[p] \in FutureCalls => chan[call[p]] = <<>>

\* The tick runs a callback that makes a call of its own: it waits for the mutex
\* that it holds itself, and keeps it for ever.
TickBlocked == pc[Tick] = "reenter"

\* A registered call is resolved, by a reply or by a timeout, unless a callback
\* run by the tick calls back into the wheel (RequestStubSetFuture, ExecFunc,
\* the tick and the scan).
EventuallyResolved ==
    \A c \in Calls : (c \in stub) ~> (resolved[c] = 1 \/ TickBlocked)

\* Sending does not hang on the lock of the timing wheel, with the one
\* exception that a callback run by the tick makes a call (AddTask, tick).
SendReturns == \A c \in Calls : (cpc[c] = "added") ~> (cpc[c] # "added" \/ TickBlocked)

\* A reply is dropped for a call that is over or being resolved, or because it
\* overtook its own registration: AddStub comes after the request has gone out
\* (SendAsyncWithFunc, SendAsyncWithFuture, HandleMissing).
DroppedForAReason ==
    [][\A c \in dropped' \ dropped :
          cpc[c] = "sent" \/ resolved[c] > 0 \/ Resolving(c) # {}]_dropped

\* "The callback gets ownership of the response" (request_stub.go:85): while
\* it runs, its response is not back in the pool and no other goroutine has it.
CallbackOwnsResponse ==
    \A p \in Procs : pc[p] = "callback" =>
        /\ ~Pooled(obj[p])
        /\ \A q \in Procs \ {p} : obj[q] # obj[p]
=============================================================================
