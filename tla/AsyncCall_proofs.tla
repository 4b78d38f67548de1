--------------------------- MODULE AsyncCall_proofs ---------------------------
(***************************************************************************)
(* Proofs about AsyncCall, for any calls, workers, response objects and    *)
(* number of replies: the types; that every call is resolved at most once, *)
(* which is what RequestStubExecFunc, RequestStubSetFuture and the two     *)
(* expiry paths rely on the locked removal from the stub tables for; and   *)
(* why a reply is dropped.                                                 *)
(***************************************************************************)
EXTENDS AsyncCall, TLAPS, SequenceTheorems

-----------------------------------------------------------------------------
(* Type correctness.  TypeOK alone is not inductive: Release needs to know  *)
(* that the goroutines past Acquire hold an object, and inbox is bounded by *)
(* replies.                                                                 *)

ObjectsOK ==
    /\ pool \in Seq(Objects)
    /\ uuid \in [Objects -> Calls \union {NoCall}]
    /\ mtype \in [Objects -> {"none", "func", "future"}]

HoldersOK ==
    /\ \A p \in Procs : pc[p] \in {"handle", "remove", "resolve", "reenter", "callback", "after"}
                           => obj[p] \in Objects
    /\ \A c \in Calls : cpc[c] = "holding" => cobj[c] \in Objects
    /\ \A c \in Calls : inbox[c] <= replies[c]

TypeInv == TypeOK /\ HoldersOK

\* AcquireResponse and the decoding keep the pool and the objects well typed.
LEMMA AcquireTypes ==
    ASSUME ObjectsOK, NEW o \in Objects, NEW c \in Calls,
           NEW type \in {"none", "func", "future"}, Acquire(o, c, type)
    PROVE  ObjectsOK'
<1>1. uuid' \in [Objects -> Calls \union {NoCall}]
  BY DEF Acquire, ObjectsOK
<1>2. mtype' \in [Objects -> {"none", "func", "future"}]
  BY DEF Acquire, ObjectsOK
<1>3. pool' \in Seq(Objects)
  <2>1. CASE pool = <<>>
    BY <2>1 DEF Acquire, ObjectsOK
  <2>2. CASE pool # <<>>
    <3>1. /\ pool \in Seq(Objects)
          /\ pool' = SubSeq(pool, 1, Len(pool) - 1)
      BY <2>2 DEF Acquire, ObjectsOK
    <3>2. Len(pool) \in Nat /\ \A i \in 1..(Len(pool) - 1) : pool[i] \in Objects
      BY <3>1, LenProperties, ElementOfSeq
    <3>3. QED
      BY <3>1, <3>2, SubSeqProperties
  <2>3. QED
    BY <2>1, <2>2
<1>4. QED
  BY <1>1, <1>2, <1>3 DEF ObjectsOK

\* So does ReleaseResponse.
LEMMA ReleaseTypes ==
    ASSUME ObjectsOK, NEW o \in Objects, Release(o)
    PROVE  ObjectsOK'
BY AppendProperties DEF ObjectsOK, Release

\* Init establishes the strengthened type invariant.
LEMMA InitTypes == Init => TypeInv
<1> SUFFICES ASSUME Init PROVE TypeInv
  OBVIOUS
<1> USE AsyncCallAssumption DEF Init
<1>1. TypeOK
  <2>1. pool \in Seq(Objects) /\ chan \in [FutureCalls -> Seq(Objects)]
    BY EmptySeq
  <2>2. replies \in [Calls -> 0..MaxReplies] /\ inbox \in [Calls -> 0..MaxReplies]
    OBVIOUS
  <2>3. \A p \in Procs : call[p] \in Calls <=> pc[p] \in {"remove", "resolve", "reenter", "callback"}
    OBVIOUS
  <2>4. QED
    BY <2>1, <2>2, <2>3 DEF TypeOK
<1>2. HoldersOK
  BY DEF HoldersOK
<1>3. QED
  BY <1>1, <1>2 DEF TypeInv

\* The removal of an expired entry, in the tick and in the scan.
LEMMA CleanupExpiredTypes ==
    ASSUME TypeInv, NEW p \in {Tick, Scan}, NEW c \in Calls,
           NEW otherwise \in {"locked", "scanning"},
           pc[p] = otherwise, CleanupExpired(p, c, otherwise)
    PROVE  /\ ObjectsOK'
           /\ stub' \subseteq Calls
           /\ pc' \in [Procs -> {"idle", "handle", "remove", "resolve", "reenter", "callback",
                                 "after", "locked", "scanning"}]
           /\ obj' \in [Procs -> Objects \union {NoObject}]
           /\ call' \in [Procs -> Calls \union {NoCall}]
           /\ \A q \in Procs :
                 call'[q] \in Calls <=> pc'[q] \in {"remove", "resolve", "reenter", "callback"}
           /\ \A q \in Procs : pc'[q] \in {"handle", "remove", "resolve", "reenter", "callback", "after"}
                                  => obj'[q] \in Objects
<1> USE DEF TypeInv, TypeOK, HoldersOK
<1>0. ObjectsOK /\ p \in Procs
  BY DEF ObjectsOK, Procs
<1>1. CASE c \in stub
  <2>1. PICK o \in Objects : Acquire(o, c, "none") /\ obj' = [obj EXCEPT ![p] = o]
    BY <1>1 DEF CleanupExpired
  <2>2. ObjectsOK'
    BY <1>0, <2>1, AcquireTypes
  <2>3. /\ stub' = stub \ {c}
        /\ call' = [call EXCEPT ![p] = c]
        /\ pc' = [pc EXCEPT ![p] = "resolve"]
    BY <1>1 DEF CleanupExpired
  <2>4. QED
    BY <1>0, <2>1, <2>2, <2>3
<1>2. CASE c \notin stub
  <2>1. pc' = [pc EXCEPT ![p] = otherwise] /\ UNCHANGED <<stub, objectVars, obj, call>>
    BY <1>2 DEF CleanupExpired
  <2>2. ObjectsOK'
    BY <1>0, <2>1 DEF ObjectsOK, objectVars
  <2>3. pc' = pc
    BY <1>0, <2>1
  <2>4. QED
    BY <2>1, <2>2, <2>3
<1>3. QED
  BY <1>1, <1>2

\* What a goroutine goes on to after it has used its response.
ContinueOK(p) ==
    /\ pc' \in [Procs -> {"idle", "handle", "remove", "resolve", "reenter", "callback",
                          "after", "locked", "scanning"}]
    /\ obj' \in [Procs -> Objects \union {NoObject}]
    /\ call' \in [Procs -> Calls \union {NoCall}]
    /\ pc'[p] \in {"after", "locked", "scanning"}
    /\ pc'[p] = "after" => obj' = obj
    /\ call'[p] \notin Calls
    /\ \A q \in Procs \ {p} : pc'[q] = pc[q] /\ obj'[q] = obj[q] /\ call'[q] = call[q]

\* After CallbackEnd and SendFuture: only p has moved, to the loop it came from.
LEMMA ContinueTypes ==
    ASSUME TypeInv, NEW p \in Procs, Continue(p)
    PROVE  ContinueOK(p)
<1> USE AsyncCallAssumption
<1>1. PICK l \in {"after", "locked", "scanning"} :
        pc' = [pc EXCEPT ![p] = l] /\ (l = "after" => p \in Workers)
  BY DEF Continue, Procs
<1>2. /\ call' = [call EXCEPT ![p] = NoCall]
      /\ obj' = IF p \in Workers THEN obj ELSE [obj EXCEPT ![p] = NoObject]
  BY DEF Continue
<1>3. pc'[p] = l
  BY <1>1 DEF TypeInv, TypeOK
<1>4. QED
  BY <1>1, <1>2, <1>3 DEF ContinueOK, TypeInv, TypeOK

\* Every step of the callers, workers, tick and scan keeps it.
LEMMA StepTypes == TypeInv /\ [Next]_vars => TypeInv'
<1> SUFFICES ASSUME TypeInv, [Next]_vars PROVE TypeInv'
  OBVIOUS
<1> USE AsyncCallAssumption DEF callerVars, netVars, wheelVars, objectVars, ghostVars
<1>0. ObjectsOK
  BY DEF TypeInv, TypeOK, ObjectsOK
<1>1. ASSUME NEW c \in Calls, Send(c) PROVE TypeInv'
  BY <1>1 DEF Send, TypeInv, TypeOK, HoldersOK
<1>2. ASSUME NEW c \in Calls, AddStub(c) PROVE TypeInv'
  BY <1>2 DEF AddStub, TypeInv, TypeOK, HoldersOK
<1>3. ASSUME NEW c \in Calls, AddTask(c) PROVE TypeInv'
  BY <1>3 DEF AddTask, TypeInv, TypeOK, HoldersOK
<1>4. ASSUME NEW c \in Calls, Reply(c) PROVE TypeInv'
  BY <1>4 DEF Reply, TypeInv, TypeOK, HoldersOK
<1>5. ASSUME NEW c \in Calls, Consumed(c) PROVE TypeInv'
  <2>1. ObjectsOK'
    BY <1>0, <1>5, ReleaseTypes DEF Consumed, TypeInv, HoldersOK, ObjectsOK
  <2>2. QED
    BY <1>5, <2>1 DEF Consumed, TypeInv, TypeOK, HoldersOK, ObjectsOK
<1>6. ASSUME NEW c \in FutureCalls, GetResponse(c) PROVE TypeInv'
  <2>1. Head(chan[c]) \in Objects /\ Tail(chan[c]) \in Seq(Objects)
    BY <1>6, HeadTailProperties DEF GetResponse, TypeInv, TypeOK
  <2>2. QED
    BY <1>6, <2>1 DEF GetResponse, TypeInv, TypeOK, HoldersOK, Calls
<1>7. ASSUME NEW c \in FutureCalls, GiveUp(c) PROVE TypeInv'
  BY <1>7 DEF GiveUp, TypeInv, TypeOK, HoldersOK, Calls
<1>8. ASSUME NEW w \in Workers, Receive(w) PROVE TypeInv'
  <2>1. PICK c \in Calls, o \in Objects :
          /\ inbox[c] > 0
          /\ inbox' = [inbox EXCEPT ![c] = @ - 1]
          /\ Acquire(o, c, Kind(c))
          /\ obj' = [obj EXCEPT ![w] = o]
    BY <1>8 DEF Receive
  <2>2. ObjectsOK'
    BY <1>0, <2>1, AcquireTypes DEF Kind
  <2>3. inbox' \in [Calls -> 0..MaxReplies] /\ \A d \in Calls : inbox'[d] <= replies'[d]
    BY <1>8, <2>1 DEF Receive, TypeInv, TypeOK, HoldersOK
  <2>4. QED
    BY <1>8, <2>1, <2>2, <2>3 DEF Receive, TypeInv, TypeOK, HoldersOK, ObjectsOK, Procs
<1>9. ASSUME NEW w \in Workers, HandleFound(w) PROVE TypeInv'
  BY <1>9 DEF HandleFound, TypeInv, TypeOK, HoldersOK, Procs
<1>10. ASSUME NEW w \in Workers, HandleMissing(w) PROVE TypeInv'
  BY <1>10 DEF HandleMissing, TypeInv, TypeOK, HoldersOK, Procs
<1>11. ASSUME NEW w \in Workers, RemoveTask(w) PROVE TypeInv'
  BY <1>11 DEF RemoveTask, TypeInv, TypeOK, HoldersOK, Procs
<1>12. ASSUME NEW w \in Workers, AfterHandler(w) PROVE TypeInv'
  <2>1. ObjectsOK'
    BY <1>0, <1>12, ReleaseTypes DEF AfterHandler, TypeInv, HoldersOK, ObjectsOK, Procs
  <2>2. QED
    BY <1>12, <2>1 DEF AfterHandler, TypeInv, TypeOK, HoldersOK, ObjectsOK, Procs
<1>13. ASSUME NEW p \in Procs, CallbackBegin(p) PROVE TypeInv'
  <2>1. PICK there \in {"callback", "reenter"} : pc' = [pc EXCEPT ![p] = there]
    BY <1>13 DEF CallbackBegin
  <2>2. QED
    BY <1>13, <2>1 DEF CallbackBegin, TypeInv, TypeOK, HoldersOK
<1>14. ASSUME NEW p \in Procs, CallbackEnd(p) PROVE TypeInv'
  <2>1. ObjectsOK'
    BY <1>0, <1>14, ReleaseTypes DEF CallbackEnd, TypeInv, HoldersOK
  <2>2. Continue(p) /\ pc[p] = "callback"
    BY <1>14 DEF CallbackEnd
  <2>3. ContinueOK(p)
    BY <2>2, ContinueTypes
  <2>4. TypeOK'
    BY <1>14, <2>1, <2>3 DEF CallbackEnd, TypeInv, TypeOK, ObjectsOK, ContinueOK
  <2>5. HoldersOK'
    BY <1>14, <2>2, <2>3 DEF CallbackEnd, TypeInv, TypeOK, HoldersOK, ContinueOK
  <2>6. QED
    BY <2>4, <2>5 DEF TypeInv
<1>15. ASSUME NEW p \in Procs, SendFuture(p) PROVE TypeInv'
  <2>1. obj[p] \in Objects /\ call[p] \in FutureCalls
    BY <1>15 DEF SendFuture, TypeInv, HoldersOK
  <2>2. ObjectsOK'
    BY <1>0, <1>15, <2>1, ReleaseTypes DEF SendFuture, ObjectsOK
  <2>3. chan' \in [FutureCalls -> Seq(Objects)]
    <3>1. <<obj[p]>> \in Seq(Objects)
      BY <2>1
    <3>2. QED
      BY <1>15, <2>1, <3>1, ZenonT(60) DEF SendFuture, TypeInv, TypeOK
  <2>4. resolved' \in [Calls -> Nat]
    BY <1>15 DEF SendFuture, TypeInv, TypeOK
  <2>5. Continue(p) /\ pc[p] = "resolve"
    BY <1>15 DEF SendFuture
  <2>6. ContinueOK(p)
    BY <2>5, ContinueTypes
  <2>7. TypeOK'
    BY <1>15, <2>2, <2>3, <2>4, <2>6
       DEF SendFuture, TypeInv, TypeOK, ObjectsOK, ContinueOK
  <2>8. HoldersOK'
    BY <1>15, <2>5, <2>6 DEF SendFuture, TypeInv, TypeOK, HoldersOK, ContinueOK
  <2>9. QED
    BY <2>7, <2>8 DEF TypeInv
<1>16. ASSUME TickLock PROVE TypeInv'
  BY <1>16 DEF TickLock, TypeInv, TypeOK, HoldersOK, Procs
<1>17. ASSUME TickUnlock PROVE TypeInv'
  BY <1>17 DEF TickUnlock, TypeInv, TypeOK, HoldersOK, Procs
<1>18. ASSUME TickExpire PROVE TypeInv'
  <2>1. PICK c \in wheel : wheel' = wheel \ {c} /\ CleanupExpired(Tick, c, "locked")
    BY <1>18 DEF TickExpire
  <2>2. c \in Calls /\ pc[Tick] = "locked"
    BY <1>18 DEF TickExpire, TypeInv, TypeOK
  <2>3. QED
    BY <1>18, <2>1, <2>2, CleanupExpiredTypes
       DEF TickExpire, TypeInv, TypeOK, HoldersOK, ObjectsOK
<1>19. ASSUME NEW due \in SUBSET stub, ScanCollect(due) PROVE TypeInv'
  BY <1>19 DEF ScanCollect, TypeInv, TypeOK, HoldersOK, Procs
<1>20. ASSUME ScanExpire PROVE TypeInv'
  <2>1. PICK c \in expired : expired' = expired \ {c} /\ CleanupExpired(Scan, c, "scanning")
    BY <1>20 DEF ScanExpire
  <2>2. c \in Calls /\ pc[Scan] = "scanning"
    BY <1>20 DEF ScanExpire, TypeInv, TypeOK
  <2>3. QED
    BY <1>20, <2>1, <2>2, CleanupExpiredTypes
       DEF ScanExpire, TypeInv, TypeOK, HoldersOK, ObjectsOK
<1>21. ASSUME ScanEnd PROVE TypeInv'
  BY <1>21 DEF ScanEnd, TypeInv, TypeOK, HoldersOK, Procs
<1>22. ASSUME NEW p \in Procs, CallbackSends(p) PROVE TypeInv'
  BY <1>22 DEF CallbackSends, TypeInv, TypeOK, HoldersOK
<1>23. ASSUME UNCHANGED vars PROVE TypeInv'
  BY <1>23 DEF vars, TypeInv, TypeOK, HoldersOK
<1>24. QED
  BY <1>1, <1>2, <1>3, <1>4, <1>5, <1>6, <1>7, <1>8, <1>9, <1>10, <1>11,
     <1>12, <1>13, <1>14, <1>15, <1>16, <1>17, <1>18, <1>19, <1>20, <1>21, <1>22,
     <1>23
     DEF Next, WorkerStep, ResolveStep

\* In every reachable state the variables keep their types.
THEOREM TypeCorrect == Spec => []TypeOK
<1>1. TypeInv => TypeOK
  BY DEF TypeInv
<1>2. QED
  BY <1>1, InitTypes, StepTypes, PTL DEF Spec

-----------------------------------------------------------------------------
(* At most one resolution.  The invariant follows one call: before it is    *)
(* registered and while its entry is in the table nobody has resolved it or *)
(* is about to; taking the entry out makes one goroutine its resolver, and  *)
(* there is none other; and what a future's channel holds was put there by  *)
(* the one resolution.                                                      *)

Unregistered(c) == cpc[c] \in {"new", "sent", "failed"}

OnceInv(c) ==
    /\ Unregistered(c) => c \notin stub
    /\ Unregistered(c) \/ c \in stub => resolved[c] = 0 /\ Resolving(c) = {}
    /\ \A p, q \in Resolving(c) : p = q
    /\ Resolving(c) # {} => resolved[c] = 0
    /\ resolved[c] <= 1
    /\ c \in FutureCalls /\ chan[c] # <<>> => resolved[c] = 1

\* A step that neither takes an entry nor resolves a call keeps OnceInv: it
\* may empty a channel and let a goroutine that was resolving go on.
LEMMA NoResolution ==
    ASSUME NEW c \in Calls, OnceInv(c),
           Unregistered(c)' => Unregistered(c),
           stub' = stub,
           resolved' = resolved,
           Resolving(c)' = Resolving(c),
           c \in FutureCalls => chan'[c] = chan[c] \/ chan'[c] = <<>> \/ resolved[c] = 1
    PROVE  OnceInv(c)'
BY DEF OnceInv, Unregistered

\* Taking the entry of d out of the table makes p the one resolver of d.
LEMMA TakeEntry ==
    ASSUME TypeOK, \A c \in Calls : OnceInv(c),
           NEW d \in stub, NEW p \in Procs, NEW l \in {"remove", "resolve"},
           pc[p] \notin {"remove", "resolve"},
           pc' = [pc EXCEPT ![p] = l],
           call' = [call EXCEPT ![p] = d],
           stub' = stub \ {d},
           cpc' = cpc, resolved' = resolved, chan' = chan
    PROVE  \A c \in Calls : OnceInv(c)'
<1> SUFFICES ASSUME NEW c \in Calls PROVE OnceInv(c)'
  OBVIOUS
<1>1. CASE c = d
  <2>1. Resolving(c) = {} /\ resolved[c] = 0 /\ ~Unregistered(c)
    BY <1>1 DEF OnceInv
  <2>2. Resolving(c)' = {p}
    BY <1>1, <2>1 DEF Resolving, TypeOK
  <2>3. QED
    BY <1>1, <2>1, <2>2 DEF OnceInv, Unregistered
<1>2. CASE c # d
  <2>1. Resolving(c)' = Resolving(c)
    BY <1>2 DEF Resolving, TypeOK
  <2>2. QED
    BY <1>2, <2>1 DEF OnceInv, Unregistered
<1>3. QED
  BY <1>1, <1>2

\* The one resolver p of d resolves it.
LEMMA Resolve ==
    ASSUME TypeOK, \A c \in Calls : OnceInv(c),
           NEW p \in Procs, NEW d \in Calls, pc[p] = "resolve", call[p] = d,
           pc'[p] \notin {"remove", "resolve"},
           \A q \in Procs \ {p} : pc'[q] = pc[q] /\ call'[q] = call[q],
           resolved' = [resolved EXCEPT ![d] = @ + 1],
           stub' = stub, cpc' = cpc,
           \A c \in FutureCalls \ {d} : chan'[c] = chan[c]
    PROVE  \A c \in Calls : OnceInv(c)'
<1> SUFFICES ASSUME NEW c \in Calls PROVE OnceInv(c)'
  OBVIOUS
<1>1. CASE c = d
  <2>1. p \in Resolving(c)
    BY <1>1 DEF Resolving
  <2>2. resolved[c] = 0 /\ ~Unregistered(c) /\ c \notin stub /\ Resolving(c) = {p}
    BY <2>1 DEF OnceInv
  <2>3. Resolving(c)' = {}
    BY <1>1, <2>2 DEF Resolving
  <2>4. resolved'[c] = 1
    BY <1>1, <2>2 DEF TypeOK
  <2>5. QED
    BY <2>2, <2>3, <2>4 DEF OnceInv, Unregistered
<1>2. CASE c # d
  <2>1. Resolving(c)' = Resolving(c)
    BY <1>2 DEF Resolving
  <2>2. resolved'[c] = resolved[c]
    BY <1>2 DEF TypeOK
  <2>3. QED
    BY <1>2, <2>1, <2>2 DEF OnceInv, Unregistered
<1>3. QED
  BY <1>1, <1>2

AllOnce == \A c \in Calls : OnceInv(c)

\* Initially nothing is registered and nothing resolved.
LEMMA InitOnce == Init => AllOnce
BY DEF Init, AllOnce, OnceInv, Unregistered, Resolving

\* Every step keeps OnceInv of every call.
LEMMA StepOnce == TypeInv /\ AllOnce /\ [Next]_vars => AllOnce'
<1> SUFFICES ASSUME TypeInv, \A c \in Calls : OnceInv(c), [Next]_vars
             PROVE  \A c \in Calls : OnceInv(c)'
  BY DEF AllOnce
<1> USE AsyncCallAssumption DEF TypeInv
<1>a. \A p \in Procs : pc[p] \notin {"remove", "resolve", "reenter", "callback"} => call[p] \notin Calls
  BY DEF TypeOK
<1>1. ASSUME NEW d \in Calls, Send(d) PROVE \A c \in Calls : OnceInv(c)'
  <2>1. \A c \in Calls : Resolving(c)' = Resolving(c)
    BY <1>1, <1>a DEF Send, Resolving, TypeOK, Procs
  <2>2. QED
    BY <1>1, <2>1, NoResolution
       DEF Send, callerVars, netVars, ghostVars, Unregistered, TypeOK
<1>2. ASSUME NEW d \in Calls, AddStub(d) PROVE \A c \in Calls : OnceInv(c)'
  <2>1. \A c \in Calls : Resolving(c)' = Resolving(c)
    BY <1>2 DEF AddStub, Resolving
  <2>2. QED
    BY <1>2, <2>1 DEF AddStub, OnceInv, Unregistered, ghostVars, TypeOK
<1>3. ASSUME NEW d \in Calls, AddTask(d) PROVE \A c \in Calls : OnceInv(c)'
  <2>1. \A c \in Calls : Resolving(c)' = Resolving(c)
    BY <1>3, <1>a DEF AddTask, Resolving, TypeOK, Procs
  <2>2. QED
    BY <1>3, <2>1, NoResolution
       DEF AddTask, callerVars, netVars, ghostVars, Unregistered, TypeOK
<1>4. ASSUME NEW d \in Calls, Reply(d) PROVE \A c \in Calls : OnceInv(c)'
  <2>1. \A c \in Calls : Resolving(c)' = Resolving(c)
    BY <1>4, <1>a DEF Reply, Resolving, TypeOK, Procs
  <2>2. QED
    BY <1>4, <2>1, NoResolution
       DEF Reply, callerVars, netVars, ghostVars, Unregistered, TypeOK
<1>5. ASSUME NEW d \in Calls, Consumed(d) PROVE \A c \in Calls : OnceInv(c)'
  <2>1. \A c \in Calls : Resolving(c)' = Resolving(c)
    BY <1>5, <1>a DEF Consumed, Resolving, TypeOK, Procs
  <2>2. QED
    BY <1>5, <2>1, NoResolution
       DEF Consumed, callerVars, netVars, ghostVars, Unregistered, TypeOK
<1>6. ASSUME NEW d \in FutureCalls, GetResponse(d) PROVE \A c \in Calls : OnceInv(c)'
  <2>1. \A c \in Calls : Resolving(c)' = Resolving(c)
    BY <1>6 DEF GetResponse, Resolving
  <2>2. \A c \in FutureCalls : chan'[c] = chan[c] \/ resolved[c] = 1
    BY <1>6 DEF GetResponse, OnceInv, Calls, TypeOK
  <2>3. QED
    BY <1>6, <2>1, <2>2, NoResolution
       DEF GetResponse, netVars, ghostVars, Unregistered, TypeOK, Calls
<1>7. ASSUME NEW d \in FutureCalls, GiveUp(d) PROVE \A c \in Calls : OnceInv(c)'
  <2>1. \A c \in Calls : Resolving(c)' = Resolving(c)
    BY <1>7, <1>a DEF GiveUp, Resolving, TypeOK, Procs
  <2>2. QED
    BY <1>7, <2>1, NoResolution
       DEF GiveUp, callerVars, netVars, ghostVars, Unregistered, TypeOK, Calls
<1>8. ASSUME NEW w \in Workers, Receive(w) PROVE \A c \in Calls : OnceInv(c)'
  <2>1. \A c \in Calls : Resolving(c)' = Resolving(c)
    BY <1>8, <1>a DEF Receive, Resolving, TypeOK, Procs
  <2>2. QED
    BY <1>8, <2>1, NoResolution
       DEF Receive, callerVars, netVars, ghostVars, Unregistered, TypeOK
<1>9. ASSUME NEW w \in Workers, HandleMissing(w) PROVE \A c \in Calls : OnceInv(c)'
  <2>1. \A c \in Calls : Resolving(c)' = Resolving(c)
    BY <1>9, <1>a DEF HandleMissing, Resolving, TypeOK, Procs
  <2>2. QED
    BY <1>9, <2>1, NoResolution
       DEF HandleMissing, callerVars, netVars, ghostVars, Unregistered, TypeOK
<1>10. ASSUME NEW w \in Workers, RemoveTask(w) PROVE \A c \in Calls : OnceInv(c)'
  <2>1. \A c \in Calls : Resolving(c)' = Resolving(c)
    BY <1>10, <1>a DEF RemoveTask, Resolving, TypeOK, Procs
  <2>2. QED
    BY <1>10, <2>1, NoResolution
       DEF RemoveTask, callerVars, netVars, ghostVars, Unregistered, TypeOK
<1>11. ASSUME NEW w \in Workers, AfterHandler(w) PROVE \A c \in Calls : OnceInv(c)'
  <2>1. \A c \in Calls : Resolving(c)' = Resolving(c)
    BY <1>11, <1>a DEF AfterHandler, Resolving, TypeOK, Procs
  <2>2. QED
    BY <1>11, <2>1, NoResolution
       DEF AfterHandler, callerVars, netVars, ghostVars, Unregistered, TypeOK
<1>12. ASSUME NEW w \in Workers, HandleFound(w) PROVE \A c \in Calls : OnceInv(c)'
  <2>1. w \in Procs /\ uuid[obj[w]] \in stub
    BY <1>12 DEF HandleFound, Procs
  <2>2. QED
    BY <1>12, <2>1, TakeEntry DEF HandleFound, callerVars, ghostVars
<1>13. ASSUME NEW p \in Procs, CallbackBegin(p) PROVE \A c \in Calls : OnceInv(c)'
  <2>1. PICK there \in {"callback", "reenter"} : pc' = [pc EXCEPT ![p] = there]
    BY <1>13 DEF CallbackBegin
  <2>2. call[p] \in Calls /\ pc'[p] \notin {"remove", "resolve"}
    BY <1>13, <2>1 DEF CallbackBegin, Calls, TypeOK
  <2>3. QED
    BY <1>13, <2>1, <2>2, Resolve DEF CallbackBegin, callerVars, TypeOK
<1>14. ASSUME NEW p \in Procs, CallbackEnd(p) PROVE \A c \in Calls : OnceInv(c)'
  <2>1. ContinueOK(p)
    BY <1>14, ContinueTypes DEF CallbackEnd
  <2>2. \A c \in Calls : Resolving(c)' = Resolving(c)
    BY <1>14, <2>1 DEF CallbackEnd, ContinueOK, Resolving
  <2>3. QED
    BY <1>14, <2>2, NoResolution DEF CallbackEnd, callerVars, ghostVars, Unregistered
<1>15. ASSUME NEW p \in Procs, SendFuture(p) PROVE \A c \in Calls : OnceInv(c)'
  <2>1. ContinueOK(p) /\ call[p] \in FutureCalls /\ call[p] \in Calls
    BY <1>15, ContinueTypes DEF SendFuture, Calls
  <2>2. \A c \in FutureCalls \ {call[p]} : chan'[c] = chan[c]
    BY <1>15 DEF SendFuture, TypeOK
  <2>3. QED
    BY <1>15, <2>1, <2>2, Resolve DEF SendFuture, callerVars, ContinueOK
<1>16. ASSUME TickLock PROVE \A c \in Calls : OnceInv(c)'
  <2>1. \A c \in Calls : Resolving(c)' = Resolving(c)
    BY <1>16, <1>a DEF TickLock, Resolving, TypeOK, Procs
  <2>2. QED
    BY <1>16, <2>1, NoResolution
       DEF TickLock, callerVars, netVars, ghostVars, Unregistered, TypeOK
<1>17. ASSUME TickUnlock PROVE \A c \in Calls : OnceInv(c)'
  <2>1. \A c \in Calls : Resolving(c)' = Resolving(c)
    BY <1>17, <1>a DEF TickUnlock, Resolving, TypeOK, Procs
  <2>2. QED
    BY <1>17, <2>1, NoResolution
       DEF TickUnlock, callerVars, netVars, ghostVars, Unregistered, TypeOK
<1>18. ASSUME TickExpire PROVE \A c \in Calls : OnceInv(c)'
  <2>1. PICK d \in wheel : CleanupExpired(Tick, d, "locked")
    BY <1>18 DEF TickExpire
  <2>2. /\ pc[Tick] = "locked" /\ Tick \in Procs
        /\ cpc' = cpc /\ resolved' = resolved /\ chan' = chan
    BY <1>18 DEF TickExpire, Procs, callerVars, ghostVars
  <2>3. CASE d \in stub
    BY <2>1, <2>2, <2>3, TakeEntry DEF CleanupExpired
  <2>4. CASE d \notin stub
    <3>1. pc' = pc /\ call' = call /\ stub' = stub
      BY <2>1, <2>2, <2>4 DEF CleanupExpired, TypeOK
    <3>2. QED
      BY <2>2, <3>1, NoResolution DEF Resolving, Unregistered
  <2>5. QED
    BY <2>3, <2>4
<1>19. ASSUME NEW due \in SUBSET stub, ScanCollect(due) PROVE \A c \in Calls : OnceInv(c)'
  <2>1. \A c \in Calls : Resolving(c)' = Resolving(c)
    BY <1>19, <1>a DEF ScanCollect, Resolving, TypeOK, Procs
  <2>2. QED
    BY <1>19, <2>1, NoResolution
       DEF ScanCollect, callerVars, netVars, ghostVars, Unregistered, TypeOK
<1>20. ASSUME ScanExpire PROVE \A c \in Calls : OnceInv(c)'
  <2>1. PICK d \in expired : CleanupExpired(Scan, d, "scanning")
    BY <1>20 DEF ScanExpire
  <2>2. /\ pc[Scan] = "scanning" /\ Scan \in Procs
        /\ cpc' = cpc /\ resolved' = resolved /\ chan' = chan
    BY <1>20 DEF ScanExpire, Procs, callerVars, ghostVars
  <2>3. CASE d \in stub
    BY <2>1, <2>2, <2>3, TakeEntry DEF CleanupExpired
  <2>4. CASE d \notin stub
    <3>1. pc' = pc /\ call' = call /\ stub' = stub
      BY <2>1, <2>2, <2>4 DEF CleanupExpired, TypeOK
    <3>2. QED
      BY <2>2, <3>1, NoResolution DEF Resolving, Unregistered
  <2>5. QED
    BY <2>3, <2>4
<1>21. ASSUME ScanEnd PROVE \A c \in Calls : OnceInv(c)'
  <2>1. \A c \in Calls : Resolving(c)' = Resolving(c)
    BY <1>21, <1>a DEF ScanEnd, Resolving, TypeOK, Procs
  <2>2. QED
    BY <1>21, <2>1, NoResolution
       DEF ScanEnd, callerVars, netVars, ghostVars, Unregistered, TypeOK
<1>22. ASSUME NEW p \in Procs, CallbackSends(p) PROVE \A c \in Calls : OnceInv(c)'
  <2>1. \A c \in Calls : Resolving(c)' = Resolving(c)
    BY <1>22 DEF CallbackSends, Resolving, TypeOK
  <2>2. QED
    BY <1>22, <2>1, NoResolution
       DEF CallbackSends, callerVars, netVars, ghostVars, Unregistered
<1>23. ASSUME UNCHANGED vars PROVE \A c \in Calls : OnceInv(c)'
  <2>1. \A c \in Calls : Resolving(c)' = Resolving(c)
    BY <1>23 DEF vars, Resolving
  <2>2. QED
    BY <1>23, <2>1, NoResolution DEF vars, Unregistered
<1>24. QED
  BY <1>1, <1>2, <1>3, <1>4, <1>5, <1>6, <1>7, <1>8, <1>9, <1>10, <1>11,
     <1>12, <1>13, <1>14, <1>15, <1>16, <1>17, <1>18, <1>19, <1>20, <1>21, <1>22,
     <1>23
     DEF Next, WorkerStep, ResolveStep

\* A call is resolved at most once, whatever replies arrive, however often,
\* and whichever of them, the tick and the scan come first.
THEOREM ResolvedAtMostOnce == Spec => []AtMostOnce
<1>1. AllOnce => AtMostOnce
  BY DEF AllOnce, OnceInv, AtMostOnce
<1>2. QED
  BY <1>1, InitTypes, StepTypes, InitOnce, StepOnce, PTL DEF Spec

\* A goroutine about to set a future finds its channel empty: the branch of
\* RequestStubSetFuture that throws the response away is never taken.
THEOREM FutureHasRoom == Spec => []ChannelHasRoom
<1>1. AllOnce => ChannelHasRoom
  <2> SUFFICES ASSUME \A c \in Calls : OnceInv(c), NEW p \in Procs,
                      pc[p] = "resolve", call[p] \in FutureCalls
               PROVE  chan[call[p]] = <<>>
    BY DEF AllOnce, ChannelHasRoom
  <2>1. call[p] \in Calls /\ p \in Resolving(call[p])
    BY DEF Calls, Resolving
  <2>2. QED
    BY <2>1 DEF OnceInv
<1>2. QED
  BY <1>1, InitTypes, StepTypes, InitOnce, StepOnce, PTL DEF Spec

-----------------------------------------------------------------------------
(* Why a reply is dropped.  A registered call has its entry, or a resolver, *)
(* or has been resolved; and a response that is filled in stands for a call *)
(* that went out, and has its type unless the call was taken out to expire. *)

\* The call is over: somebody resolves it or has done so.
Over(c) == resolved[c] > 0 \/ Resolving(c) # {}

\* Its request went out, or is assumed to have.
WentOut(c) == cpc[c] \notin {"new", "failed"}

ReasonInv ==
    /\ \A c \in Calls : Unregistered(c) \/ c \in stub \/ Over(c)
    /\ \A c \in Calls : inbox[c] > 0 => WentOut(c)
    /\ \A o \in Objects : uuid[o] \in Calls =>
          /\ WentOut(uuid[o])
          /\ mtype[o] = Kind(uuid[o]) \/ Over(uuid[o])

\* Goroutine p makes a step: it does not give up a resolution it has begun.
StepOf(p) ==
    /\ \A q \in Procs \ {p} : pc'[q] = pc[q] /\ call'[q] = call[q]
    /\ \A c \in Calls : resolved[c] > 0 => resolved'[c] > 0
    /\ \/ pc[p] \notin {"remove", "resolve"}
       \/ pc'[p] \in {"remove", "resolve"} /\ call'[p] = call[p]
       \/ resolved'[call[p]] > 0

\* What is over stays so.
LEMMA OverStays ==
    ASSUME NEW p \in Procs, StepOf(p), NEW c \in Calls, Over(c)
    PROVE  Over(c)'
<1>1. CASE resolved[c] > 0
  BY <1>1 DEF StepOf, Over
<1>2. CASE Resolving(c) # {}
  <2>1. PICK q \in Procs : pc[q] \in {"remove", "resolve"} /\ call[q] = c
    BY <1>2 DEF Resolving
  <2>2. CASE q # p
    <3>1. q \in Resolving(c)'
      BY <2>1, <2>2 DEF StepOf, Resolving
    <3>2. QED
      BY <3>1 DEF Over
  <2>3. CASE q = p /\ pc'[p] \in {"remove", "resolve"} /\ call'[p] = call[p]
    <3>1. q \in Resolving(c)'
      BY <2>1, <2>3 DEF Resolving
    <3>2. QED
      BY <3>1 DEF Over
  <2>4. CASE q = p /\ resolved'[call[p]] > 0
    BY <2>1, <2>4 DEF Over
  <2>5. QED
    BY <2>1, <2>2, <2>3, <2>4 DEF StepOf
<1>3. QED
  BY <1>1, <1>2 DEF Over

\* A step that takes no entry and fills in no response keeps ReasonInv.
LEMMA NothingFilled ==
    ASSUME ReasonInv, NEW p \in Procs, StepOf(p),
           stub' = stub,
           \A c \in Calls : Unregistered(c)' \/ ~Unregistered(c),
           \A c \in Calls : WentOut(c) => WentOut(c)',
           \A c \in Calls : inbox'[c] > 0 => inbox[c] > 0 \/ WentOut(c),
           \A o \in Objects : uuid'[o] \in Calls => uuid'[o] = uuid[o] /\ mtype'[o] = mtype[o]
    PROVE  ReasonInv'
<1>1. \A c \in Calls : Over(c) => Over(c)'
  BY OverStays
<1>2. \A c \in Calls : Unregistered(c)' \/ c \in stub' \/ Over(c)'
  BY <1>1 DEF ReasonInv
<1>3. \A c \in Calls : inbox'[c] > 0 => WentOut(c)'
  BY DEF ReasonInv
<1>4. ASSUME NEW o \in Objects, uuid'[o] \in Calls
      PROVE  WentOut(uuid[o])' /\ (mtype'[o] = Kind(uuid'[o]) \/ Over(uuid[o])')
  <2>0. PICK c \in Calls : c = uuid[o] /\ c = uuid'[o] /\ mtype'[o] = mtype[o]
    BY <1>4
  <2>1. WentOut(c) /\ (mtype[o] = Kind(c) \/ Over(c))
    BY <2>0 DEF ReasonInv
  <2>2. WentOut(c)' /\ (mtype'[o] = Kind(c) \/ Over(c)')
    BY <1>1, <2>0, <2>1
  <2>3. QED
    BY <2>0, <2>2 DEF WentOut, Over, Resolving
<1>5. QED
  BY <1>2, <1>3, <1>4 DEF ReasonInv

\* The calls and types a release leaves in the objects.
LEMMA ReleaseEmpties ==
    ASSUME ObjectsOK, NEW r \in Objects, Release(r)
    PROVE  \A o \in Objects : uuid'[o] \in Calls => uuid'[o] = uuid[o] /\ mtype'[o] = mtype[o]
BY AsyncCallAssumption DEF Release, ObjectsOK

\* Taking the entry of d out, for a resolver with l as its next step.
LEMMA TakingIsStep ==
    ASSUME TypeOK, NEW d \in Calls, NEW p \in Procs, NEW l \in {"remove", "resolve"},
           pc[p] \notin {"remove", "resolve"},
           pc' = [pc EXCEPT ![p] = l],
           call' = [call EXCEPT ![p] = d],
           resolved' = resolved
    PROVE  StepOf(p) /\ Over(d)'
<1>1. StepOf(p)
  BY DEF StepOf, TypeOK
<1>2. p \in Resolving(d)'
  BY DEF Resolving, TypeOK
<1>3. QED
  BY <1>1, <1>2 DEF Over

\* The removal of an expired entry, in the tick and in the scan.
LEMMA CleanupReason ==
    ASSUME TypeInv, AllOnce, ReasonInv,
           NEW p \in {Tick, Scan}, NEW d \in Calls, NEW otherwise \in {"locked", "scanning"},
           pc[p] = otherwise, CleanupExpired(p, d, otherwise),
           cpc' = cpc, inbox' = inbox, resolved' = resolved
    PROVE  ReasonInv'
<1> USE AsyncCallAssumption
<1>0. ObjectsOK /\ p \in Procs /\ TypeOK
  BY DEF ObjectsOK, TypeInv, TypeOK, Procs
<1>1. CASE d \in stub
  <2>1. PICK r \in Objects : Acquire(r, d, "none")
    BY <1>1 DEF CleanupExpired
  <2>2. /\ stub' = stub \ {d}
        /\ call' = [call EXCEPT ![p] = d]
        /\ pc' = [pc EXCEPT ![p] = "resolve"]
    BY <1>1 DEF CleanupExpired
  <2>3. StepOf(p) /\ Over(d)'
    BY <1>0, <2>2, TakingIsStep
  <2>4. \A c \in Calls : Over(c) => Over(c)'
    BY <1>0, <2>3, OverStays
  <2>5. WentOut(d) /\ WentOut(d)'
    BY <1>1 DEF AllOnce, OnceInv, Unregistered, WentOut
  <2>6. ASSUME NEW o \in Objects, uuid'[o] \in Calls
        PROVE  WentOut(uuid[o])' /\ (mtype'[o] = Kind(uuid'[o]) \/ Over(uuid[o])')
    <3>1. CASE o = r
      <4>1. uuid'[o] = d
        BY <1>0, <2>1, <3>1 DEF Acquire, ObjectsOK
      <4>2. QED
        BY <2>3, <2>5, <4>1 DEF WentOut, Over, Resolving
    <3>2. CASE o # r
      <4>0. PICK c \in Calls : c = uuid[o] /\ c = uuid'[o] /\ mtype'[o] = mtype[o]
        BY <1>0, <2>1, <2>6, <3>2 DEF Acquire, ObjectsOK
      <4>1. WentOut(c) /\ (mtype[o] = Kind(c) \/ Over(c))
        BY <4>0 DEF ReasonInv
      <4>2. WentOut(c)' /\ (mtype'[o] = Kind(c) \/ Over(c)')
        BY <2>4, <4>0, <4>1 DEF WentOut
      <4>3. QED
        BY <4>0, <4>2 DEF WentOut, Over, Resolving
    <3>3. QED
      BY <3>1, <3>2
  <2>7. \A c \in Calls : Unregistered(c)' \/ c \in stub' \/ Over(c)'
    BY <2>2, <2>3, <2>4 DEF ReasonInv, Unregistered
  <2>8. \A c \in Calls : inbox'[c] > 0 => WentOut(c)'
    BY DEF ReasonInv, WentOut
  <2>9. QED
    BY <2>6, <2>7, <2>8 DEF ReasonInv
<1>2. CASE d \notin stub
  <2>1. /\ stub' = stub /\ pc' = pc /\ call' = call
        /\ uuid' = uuid /\ mtype' = mtype
    BY <1>0, <1>2 DEF CleanupExpired, TypeOK, objectVars
  <2>2. StepOf(p)
    BY <1>0, <2>1 DEF StepOf
  <2>3. QED
    BY <1>0, <2>1, <2>2, NothingFilled DEF Unregistered, WentOut
<1>3. QED
  BY <1>1, <1>2

\* Initially no object is filled in.
LEMMA InitReason == Init => ReasonInv
BY AsyncCallAssumption DEF Init, ReasonInv, Unregistered

\* Every step keeps ReasonInv.
LEMMA StepReason == TypeInv /\ AllOnce /\ ReasonInv /\ [Next]_vars => ReasonInv'
<1> SUFFICES ASSUME TypeInv, AllOnce, ReasonInv, [Next]_vars PROVE ReasonInv'
  OBVIOUS
<1> USE AsyncCallAssumption
<1>0. ObjectsOK /\ TypeOK /\ HoldersOK /\ Scan \in Procs /\ Tick \in Procs
  BY DEF ObjectsOK, TypeInv, TypeOK, Procs
<1>1. ASSUME NEW d \in Calls, Send(d) PROVE ReasonInv'
  <2>1. StepOf(Scan)
    BY <1>0, <1>1 DEF Send, StepOf, ghostVars
  <2>3. QED
    BY <1>0, <1>1, <2>1, NothingFilled
       DEF Send, netVars, objectVars, Unregistered, WentOut, TypeOK, Calls
<1>2. ASSUME NEW d \in Calls, AddStub(d) PROVE ReasonInv'
  <2>1. StepOf(Scan)
    BY <1>0, <1>2 DEF AddStub, StepOf, ghostVars
  <2>2. \A c \in Calls : (Over(c) => Over(c)') /\ (WentOut(c) => WentOut(c)')
    BY <1>0, <1>2, <2>1, OverStays DEF AddStub, WentOut, TypeOK
  <2>3. \A c \in Calls : Unregistered(c)' \/ c \in stub' \/ Over(c)'
    BY <1>0, <1>2, <2>2 DEF AddStub, ReasonInv, Unregistered, TypeOK
  <2>4. \A c \in Calls : inbox'[c] > 0 => WentOut(c)'
    BY <1>2, <2>2 DEF AddStub, ReasonInv, netVars
  <2>5. \A o \in Objects : uuid'[o] = uuid[o] /\ mtype'[o] = mtype[o]
    BY <1>2 DEF AddStub, objectVars
  <2>6. ASSUME NEW o \in Objects, uuid'[o] \in Calls
        PROVE  WentOut(uuid[o])' /\ (mtype'[o] = Kind(uuid'[o]) \/ Over(uuid[o])')
    <3>0. PICK c \in Calls : c = uuid[o] /\ c = uuid'[o] /\ mtype'[o] = mtype[o]
      BY <2>5, <2>6
    <3>1. WentOut(c)' /\ (mtype'[o] = Kind(c) \/ Over(c)')
      BY <2>2, <3>0 DEF ReasonInv
    <3>2. QED
      BY <3>0, <3>1 DEF WentOut, Over, Resolving
  <2>7. QED
    BY <2>3, <2>4, <2>6 DEF ReasonInv
<1>3. ASSUME NEW d \in Calls, AddTask(d) PROVE ReasonInv'
  <2>1. StepOf(Scan)
    BY <1>0, <1>3 DEF AddTask, StepOf, ghostVars
  <2>3. QED
    BY <1>0, <1>3, <2>1, NothingFilled
       DEF AddTask, netVars, objectVars, Unregistered, WentOut, TypeOK, Calls
<1>4. ASSUME NEW d \in Calls, Reply(d) PROVE ReasonInv'
  <2>1. StepOf(Scan)
    BY <1>0, <1>4 DEF Reply, StepOf, ghostVars
  <2>3. QED
    BY <1>0, <1>4, <2>1, NothingFilled
       DEF Reply, callerVars, objectVars, Unregistered, WentOut, TypeOK, Calls
<1>5. ASSUME NEW d \in Calls, Consumed(d) PROVE ReasonInv'
  <2>1. StepOf(Scan)
    BY <1>0, <1>5 DEF Consumed, StepOf, ghostVars
  <2>2. \A o \in Objects : uuid'[o] \in Calls => uuid'[o] = uuid[o] /\ mtype'[o] = mtype[o]
    BY <1>0, <1>5, ReleaseEmpties DEF Consumed, HoldersOK, objectVars
  <2>3. QED
    BY <1>0, <1>5, <2>1, <2>2, NothingFilled
       DEF Consumed, netVars, Unregistered, WentOut, TypeOK, Calls
<1>6. ASSUME NEW d \in FutureCalls, GetResponse(d) PROVE ReasonInv'
  <2>1. StepOf(Scan)
    BY <1>0, <1>6 DEF GetResponse, StepOf, ghostVars
  <2>3. QED
    BY <1>0, <1>6, <2>1, NothingFilled
       DEF GetResponse, netVars, objectVars, Unregistered, WentOut, TypeOK, Calls
<1>7. ASSUME NEW d \in FutureCalls, GiveUp(d) PROVE ReasonInv'
  <2>1. StepOf(Scan)
    BY <1>0, <1>7 DEF GiveUp, StepOf, ghostVars
  <2>3. QED
    BY <1>0, <1>7, <2>1, NothingFilled
       DEF GiveUp, netVars, objectVars, Unregistered, WentOut, TypeOK, Calls
<1>8. ASSUME NEW w \in Workers, Receive(w) PROVE ReasonInv'
  <2>1. PICK d \in Calls, r \in Objects :
          /\ inbox[d] > 0
          /\ inbox' = [inbox EXCEPT ![d] = @ - 1]
          /\ Acquire(r, d, Kind(d))
    BY <1>8 DEF Receive
  <2>2. w \in Procs /\ StepOf(w)
    BY <1>0, <1>8 DEF Receive, StepOf, ghostVars, Procs, TypeOK
  <2>3. \A c \in Calls : Over(c) => Over(c)'
    BY <2>2, OverStays
  <2>4. cpc' = cpc /\ stub' = stub
    BY <1>8 DEF Receive, callerVars
  <2>5. \A c \in Calls : inbox'[c] > 0 => WentOut(c)'
    BY <1>0, <2>1, <2>4 DEF ReasonInv, WentOut, TypeOK
  <2>6. ASSUME NEW o \in Objects, uuid'[o] \in Calls
        PROVE  WentOut(uuid[o])' /\ (mtype'[o] = Kind(uuid'[o]) \/ Over(uuid[o])')
    <3>1. CASE o = r
      <4>1. uuid'[o] = d /\ mtype'[o] = Kind(d)
        BY <1>0, <2>1, <3>1 DEF Acquire, ObjectsOK
      <4>2. WentOut(d)
        BY <2>1 DEF ReasonInv
      <4>3. QED
        BY <2>4, <4>1, <4>2 DEF WentOut
    <3>2. CASE o # r
      <4>0. PICK c \in Calls : c = uuid[o] /\ c = uuid'[o] /\ mtype'[o] = mtype[o]
        BY <1>0, <2>1, <2>6, <3>2 DEF Acquire, ObjectsOK
      <4>1. WentOut(c)' /\ (mtype'[o] = Kind(c) \/ Over(c)')
        BY <2>3, <2>4, <4>0 DEF ReasonInv, WentOut
      <4>2. QED
        BY <4>0, <4>1 DEF WentOut, Over, Resolving
    <3>3. QED
      BY <3>1, <3>2
  <2>7. \A c \in Calls : Unregistered(c)' \/ c \in stub' \/ Over(c)'
    BY <2>3, <2>4 DEF ReasonInv, Unregistered
  <2>8. QED
    BY <2>5, <2>6, <2>7 DEF ReasonInv
<1>9. ASSUME NEW w \in Workers, HandleFound(w) PROVE ReasonInv'
  <2>0. PICK d \in Calls : d = uuid[obj[w]] /\ d \in stub
    BY <1>0, <1>9 DEF HandleFound, TypeOK
  <2>1. /\ stub' = stub \ {d} /\ cpc' = cpc /\ inbox' = inbox
        /\ uuid' = uuid /\ mtype' = mtype
    BY <1>9, <2>0 DEF HandleFound, callerVars, netVars, objectVars
  <2>2. w \in Procs /\ StepOf(w) /\ Over(d)'
    BY <1>0, <1>9, <2>0, TakingIsStep DEF HandleFound, ghostVars, Procs
  <2>3. \A c \in Calls : Over(c) => Over(c)'
    BY <2>2, OverStays
  <2>4. \A c \in Calls : Unregistered(c)' \/ c \in stub' \/ Over(c)'
    BY <2>1, <2>2, <2>3 DEF ReasonInv, Unregistered
  <2>5. ASSUME NEW o \in Objects, uuid'[o] \in Calls
        PROVE  WentOut(uuid[o])' /\ (mtype'[o] = Kind(uuid'[o]) \/ Over(uuid[o])')
    <3>0. PICK c \in Calls : c = uuid[o] /\ c = uuid'[o] /\ mtype'[o] = mtype[o]
      BY <2>1, <2>5
    <3>1. WentOut(c)' /\ (mtype'[o] = Kind(c) \/ Over(c)')
      BY <2>1, <2>3, <3>0 DEF ReasonInv, WentOut
    <3>2. QED
      BY <3>0, <3>1 DEF WentOut, Over, Resolving
  <2>6. \A c \in Calls : inbox'[c] > 0 => WentOut(c)'
    BY <2>1 DEF ReasonInv, WentOut
  <2>7. QED
    BY <2>4, <2>5, <2>6 DEF ReasonInv
<1>10. ASSUME NEW w \in Workers, HandleMissing(w) PROVE ReasonInv'
  <2>1. w \in Procs /\ StepOf(w)
    BY <1>0, <1>10 DEF HandleMissing, StepOf, ghostVars, Procs, TypeOK
  <2>3. QED
    BY <1>0, <1>10, <2>1, NothingFilled DEF HandleMissing, callerVars, netVars, objectVars, Unregistered, WentOut
<1>11. ASSUME NEW w \in Workers, RemoveTask(w) PROVE ReasonInv'
  <2>1. w \in Procs /\ StepOf(w)
    BY <1>0, <1>11 DEF RemoveTask, StepOf, ghostVars, Procs, TypeOK
  <2>3. QED
    BY <1>0, <1>11, <2>1, NothingFilled DEF RemoveTask, callerVars, netVars, objectVars, Unregistered, WentOut
<1>12. ASSUME NEW w \in Workers, AfterHandler(w) PROVE ReasonInv'
  <2>1. w \in Procs /\ StepOf(w)
    BY <1>0, <1>12 DEF AfterHandler, StepOf, ghostVars, Procs, TypeOK
  <2>2. \A o \in Objects : uuid'[o] \in Calls => uuid'[o] = uuid[o] /\ mtype'[o] = mtype[o]
    BY <1>0, <1>12, ReleaseEmpties DEF AfterHandler, HoldersOK, objectVars, Procs
  <2>3. QED
    BY <1>0, <1>12, <2>1, <2>2, NothingFilled DEF AfterHandler, callerVars, netVars, Unregistered, WentOut
<1>13. ASSUME NEW p \in Procs, CallbackBegin(p) PROVE ReasonInv'
  <2>0. PICK there \in {"callback", "reenter"} : pc' = [pc EXCEPT ![p] = there]
    BY <1>13 DEF CallbackBegin
  <2>1. StepOf(p)
    BY <1>0, <1>13, <2>0 DEF CallbackBegin, StepOf, TypeOK, Calls
  <2>3. QED
    BY <1>0, <1>13, <2>1, NothingFilled DEF CallbackBegin, callerVars, netVars, objectVars, Unregistered, WentOut
<1>14. ASSUME NEW p \in Procs, CallbackEnd(p) PROVE ReasonInv'
  <2>0. ContinueOK(p)
    BY <1>14, ContinueTypes DEF CallbackEnd
  <2>1. StepOf(p)
    BY <1>0, <1>14, <2>0 DEF CallbackEnd, StepOf, ContinueOK, ghostVars
  <2>2. \A o \in Objects : uuid'[o] \in Calls => uuid'[o] = uuid[o] /\ mtype'[o] = mtype[o]
    BY <1>0, <1>14, ReleaseEmpties DEF CallbackEnd, HoldersOK, objectVars, Procs
  <2>3. QED
    BY <1>0, <1>14, <2>1, <2>2, NothingFilled DEF CallbackEnd, callerVars, netVars, Unregistered, WentOut
<1>15. ASSUME NEW p \in Procs, SendFuture(p) PROVE ReasonInv'
  <2>0. ContinueOK(p) /\ call[p] \in Calls
    BY <1>15, ContinueTypes DEF SendFuture, Calls
  <2>1. StepOf(p)
    <3>1. \A c \in Calls : resolved[c] > 0 => resolved'[c] > 0
      BY <1>0, <1>15, <2>0 DEF SendFuture, TypeOK
    <3>2. resolved'[call[p]] > 0
      BY <1>0, <1>15, <2>0 DEF SendFuture, TypeOK
    <3>3. QED
      BY <2>0, <3>1, <3>2 DEF StepOf, ContinueOK
  <2>2. \A o \in Objects : uuid'[o] \in Calls => uuid'[o] = uuid[o] /\ mtype'[o] = mtype[o]
    BY <1>0, <1>15, ReleaseEmpties DEF SendFuture, HoldersOK, objectVars, Procs
  <2>3. QED
    BY <1>0, <1>15, <2>1, <2>2, NothingFilled DEF SendFuture, callerVars, netVars, Unregistered, WentOut
<1>16. ASSUME TickLock PROVE ReasonInv'
  <2>1. Tick \in Procs /\ StepOf(Tick)
    BY <1>0, <1>16 DEF TickLock, StepOf, ghostVars, Procs, TypeOK
  <2>3. QED
    BY <1>0, <1>16, <2>1, NothingFilled DEF TickLock, callerVars, netVars, objectVars, Unregistered, WentOut
<1>17. ASSUME TickUnlock PROVE ReasonInv'
  <2>1. Tick \in Procs /\ StepOf(Tick)
    BY <1>0, <1>17 DEF TickUnlock, StepOf, ghostVars, Procs, TypeOK
  <2>3. QED
    BY <1>0, <1>17, <2>1, NothingFilled DEF TickUnlock, callerVars, netVars, objectVars, Unregistered, WentOut
<1>18. ASSUME TickExpire PROVE ReasonInv'
  <2>1. PICK d \in wheel : CleanupExpired(Tick, d, "locked")
    BY <1>18 DEF TickExpire
  <2>2. /\ d \in Calls /\ pc[Tick] = "locked"
        /\ cpc' = cpc /\ inbox' = inbox /\ resolved' = resolved
    BY <1>0, <1>18 DEF TickExpire, TypeOK, callerVars, netVars, ghostVars
  <2>3. QED
    BY <2>1, <2>2, CleanupReason
<1>19. ASSUME NEW due \in SUBSET stub, ScanCollect(due) PROVE ReasonInv'
  <2>1. Scan \in Procs /\ StepOf(Scan)
    BY <1>0, <1>19 DEF ScanCollect, StepOf, ghostVars, Procs, TypeOK
  <2>3. QED
    BY <1>0, <1>19, <2>1, NothingFilled DEF ScanCollect, callerVars, netVars, objectVars, Unregistered, WentOut
<1>20. ASSUME ScanExpire PROVE ReasonInv'
  <2>1. PICK d \in expired : CleanupExpired(Scan, d, "scanning")
    BY <1>20 DEF ScanExpire
  <2>2. /\ d \in Calls /\ pc[Scan] = "scanning"
        /\ cpc' = cpc /\ inbox' = inbox /\ resolved' = resolved
    BY <1>0, <1>20 DEF ScanExpire, TypeOK, callerVars, netVars, ghostVars
  <2>3. QED
    BY <2>1, <2>2, CleanupReason
<1>21. ASSUME ScanEnd PROVE ReasonInv'
  <2>1. Scan \in Procs /\ StepOf(Scan)
    BY <1>0, <1>21 DEF ScanEnd, StepOf, ghostVars, Procs, TypeOK
  <2>3. QED
    BY <1>0, <1>21, <2>1, NothingFilled DEF ScanEnd, callerVars, netVars, objectVars, Unregistered, WentOut
<1>22. ASSUME NEW p \in Procs, CallbackSends(p) PROVE ReasonInv'
  <2>1. p \in Procs /\ StepOf(p)
    BY <1>0, <1>22 DEF CallbackSends, StepOf, ghostVars, Procs, TypeOK
  <2>3. QED
    BY <1>0, <1>22, <2>1, NothingFilled DEF CallbackSends, callerVars, netVars, objectVars, Unregistered, WentOut
<1>23. ASSUME UNCHANGED vars PROVE ReasonInv'
  <2>1. StepOf(Scan)
    BY <1>0, <1>23 DEF vars, StepOf
  <2>2. QED
    BY <1>0, <1>23, <2>1, NothingFilled DEF vars, Unregistered, WentOut
<1>24. QED
  BY <1>1, <1>2, <1>3, <1>4, <1>5, <1>6, <1>7, <1>8, <1>9, <1>10, <1>11,
     <1>12, <1>13, <1>14, <1>15, <1>16, <1>17, <1>18, <1>19, <1>20, <1>21, <1>22,
     <1>23
     DEF Next, WorkerStep, ResolveStep

\* Only HandleMissing drops a reply, and for one of the reasons.
LEMMA DropStep ==
    ASSUME TypeInv, ReasonInv, [Next]_vars, dropped' # dropped
    PROVE  \A c \in dropped' \ dropped :
              cpc[c] = "sent" \/ resolved[c] > 0 \/ Resolving(c) # {}
<1> USE AsyncCallAssumption
<1>1. PICK w \in Workers : HandleMissing(w)
  BY DEF Next, WorkerStep, ResolveStep, Send, AddStub, AddTask, Reply, Consumed, GetResponse,
         GiveUp, Receive, HandleFound, RemoveTask, AfterHandler, CallbackBegin, CallbackSends,
         CallbackEnd, SendFuture, TickLock, TickExpire, TickUnlock, ScanCollect, ScanExpire,
         ScanEnd, ghostVars, vars
<1>2. SUFFICES ASSUME NEW c \in dropped' \ dropped
               PROVE  cpc[c] = "sent" \/ Over(c)
  BY DEF Over
<1>3. obj[w] \in Objects
  BY <1>1 DEF HandleMissing, TypeInv, HoldersOK, Procs
<1>4. c = uuid[obj[w]] /\ c \in Calls
  BY <1>1, <1>3 DEF HandleMissing, TypeInv, TypeOK
<1>5. WentOut(c) /\ (mtype[obj[w]] = Kind(c) \/ Over(c))
  BY <1>3, <1>4 DEF ReasonInv
<1>6. CASE mtype[obj[w]] = Kind(c)
  <2>1. c \notin stub
    BY <1>1, <1>4, <1>6 DEF HandleMissing
  <2>2. Unregistered(c) \/ Over(c)
    BY <1>4, <2>1 DEF ReasonInv
  <2>3. QED
    BY <1>5, <2>2 DEF Unregistered, WentOut
<1>7. QED
  BY <1>5, <1>6

\* A reply is dropped only for a call that is over or being resolved, or one
\* whose registration it overtook, whichever objects the pool hands out.
THEOREM DroppedHolds == Spec => DroppedForAReason
<1>1. TypeInv /\ ReasonInv /\ [Next]_vars =>
        [\A c \in dropped' \ dropped :
            cpc[c] = "sent" \/ resolved[c] > 0 \/ Resolving(c) # {}]_dropped
  BY DropStep
<1>2. QED
  BY <1>1, InitTypes, StepTypes, InitOnce, StepOnce, InitReason, StepReason, PTL
     DEF Spec, DroppedForAReason
=============================================================================
