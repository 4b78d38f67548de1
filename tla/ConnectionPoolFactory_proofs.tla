-------------------- MODULE ConnectionPoolFactory_proofs --------------------
(***************************************************************************)
(* Proofs about the registry of connection pools, for any number of        *)
(* callers, servers and pools: its variables keep their types, and no pool *)
(* that runs is lost.                                                      *)
(***************************************************************************)
EXTENDS ConnectionPoolFactory, TLAPS

\* Whoever is in the critical section of f.mu holds it.
LockHeld ==
    \A c \in Callers : pc[c] \in {"locked", "storing", "sweeping", "clearing"} => mu = c

\* Who is on the way to a pool knows its server, and what it is about to store is
\* the pool it made, for a server that has none.
OnTheWay ==
    \A c \in Callers :
        /\ pc[c] \in {"locking", "locked", "storing"} => server[c] \in Servers
        /\ pc[c] = "storing" => /\ got[c] \in Pools
                                /\ of[got[c]] = server[c]
                                /\ pools[server[c]] = None

\* Behind the sweep of a Shutdown no server has a running pool.
Swept ==
    \A c \in Callers :
        /\ pc[c] = "sweeping" => \A s \in Servers \ left : pools[s] \notin open
        /\ pc[c] = "clearing" => \A s \in Servers : pools[s] \notin open

\* A running pool has a server.
OpenHasServer == \A p \in open : of[p] \in Servers

IInv == FactoryTypeOK /\ LockHeld /\ OnTheWay /\ Swept /\ OpenHasServer /\ OpenIsKept

-----------------------------------------------------------------------------
\* At the start there is nothing to lose (GlobalConnectionPoolFactory).
LEMMA InitInv == Init => IInv
BY DEF Init, IInv, FactoryTypeOK, LockHeld, OnTheWay, Swept, OpenHasServer, OpenIsKept

\* GetPool, the steps that only look or lock.
LEMMA GetLooksInv ==
    ASSUME IInv, NEW c \in Callers, GetLooks(c)
    PROVE  IInv'
BY FactoryAssumption
   DEF GetLooks, Go, Hold, Lookups, IInv, FactoryTypeOK, LockHeld, OnTheWay, Swept,
       OpenHasServer, OpenIsKept

LEMMA GetLocksInv ==
    ASSUME IInv, NEW c \in Callers, GetLocks(c)
    PROVE  IInv'
BY FactoryAssumption
   DEF GetLocks, Go, IInv, FactoryTypeOK, LockHeld, OnTheWay, Swept, OpenHasServer, OpenIsKept

\* GetPool under the lock: a pool that is made is one nobody refers to, so making it
\* changes what is known of no other.
LEMMA GetLooksAgainInv ==
    ASSUME IInv, NEW c \in Callers, GetLooksAgain(c)
    PROVE  IInv'
<1>1. CASE /\ pools[server[c]] # None
           /\ Hold(c, pools[server[c]])
           /\ mu' = None
           /\ Go(c, "got")
           /\ UNCHANGED <<open, of>>
  BY <1>1, FactoryAssumption
     DEF GetLooksAgain, Go, Hold, IInv, FactoryTypeOK, LockHeld, OnTheWay, Swept,
         OpenHasServer, OpenIsKept
<1>2. CASE /\ pools[server[c]] = None
           /\ \E p \in Fresh :
               /\ Hold(c, p)
               /\ open' = open \union {p}
               /\ of' = [of EXCEPT ![p] = server[c]]
           /\ Go(c, "storing")
           /\ UNCHANGED mu
  <2>. PICK p \in Fresh :
         /\ Hold(c, p)
         /\ open' = open \union {p}
         /\ of' = [of EXCEPT ![p] = server[c]]
    BY <1>2
  <2>1. /\ p \in Pools
        /\ p \notin open
        /\ \A s \in Servers : pools[s] # p
        /\ \A d \in Callers : got[d] # p
    BY DEF Fresh
  <2>2. /\ pc[c] = "locked"
        /\ server[c] \in Servers
        /\ UNCHANGED <<pools, server, left>>
    BY DEF GetLooksAgain, IInv, OnTheWay
  <2>3. \A d \in Callers : d # c =>
            pc[d] \notin {"locked", "storing", "sweeping", "clearing"}
    BY <2>2 DEF IInv, LockHeld
  <2>4. FactoryTypeOK'
    BY <1>2, <2>1, <2>2 DEF Go, Hold, IInv, FactoryTypeOK
  <2>5. LockHeld'
    BY <1>2, <2>2, <2>3 DEF Go, IInv, LockHeld, FactoryTypeOK
  <2>6. OnTheWay'
    BY <1>2, <2>1, <2>2, <2>3 DEF Go, Hold, IInv, OnTheWay, FactoryTypeOK
  <2>7. Swept'
    BY <1>2, <2>2, <2>3 DEF Go, IInv, Swept, FactoryTypeOK
  <2>8. OpenHasServer' /\ OpenIsKept'
    BY <1>2, <2>1, <2>2 DEF Go, Hold, IInv, OpenHasServer, OpenIsKept, FactoryTypeOK
  <2>. QED  BY <2>4, <2>5, <2>6, <2>7, <2>8 DEF IInv
<1>. QED  BY <1>1, <1>2 DEF GetLooksAgain

\* What GetPool overwrites is no pool.
LEMMA GetStoresInv ==
    ASSUME IInv, NEW c \in Callers, GetStores(c)
    PROVE  IInv'
<1>1. /\ pc[c] = "storing"
      /\ server[c] \in Servers
      /\ got[c] \in Pools
      /\ of[got[c]] = server[c]
      /\ pools[server[c]] = None
      /\ None \notin Pools
  BY FactoryAssumption DEF GetStores, IInv, OnTheWay
<1>2. \A d \in Callers : d # c =>
          pc[d] \notin {"locked", "storing", "sweeping", "clearing"}
  BY <1>1 DEF IInv, LockHeld
<1>3. FactoryTypeOK'
  BY <1>1 DEF GetStores, Go, IInv, FactoryTypeOK
<1>4. LockHeld' /\ OnTheWay' /\ Swept'
  BY <1>1, <1>2 DEF GetStores, Go, IInv, LockHeld, OnTheWay, Swept, FactoryTypeOK
<1>5. OpenHasServer' /\ OpenIsKept'
  BY <1>1 DEF GetStores, Go, IInv, OpenHasServer, OpenIsKept, FactoryTypeOK
<1>. QED  BY <1>3, <1>4, <1>5 DEF IInv

LEMMA PoolUsedInv ==
    ASSUME IInv, NEW c \in Callers, PoolUsed(c)
    PROVE  IInv'
BY FactoryAssumption
   DEF PoolUsed, Go, Hold, IInv, FactoryTypeOK, LockHeld, OnTheWay, Swept, OpenHasServer,
       OpenIsKept

-----------------------------------------------------------------------------
\* RemovePool: what leaves the map is in the hands of who stops it.
LEMMA RemoveTakesInv ==
    ASSUME IInv, NEW c \in Callers, RemoveTakes(c)
    PROVE  IInv'
<1>. PICK s \in Servers : \E p \in Lookups(s) \ {None} :
       /\ server' = [server EXCEPT ![c] = s]
       /\ Hold(c, p)
       /\ pools' = [pools EXCEPT ![s] = None]
  BY DEF RemoveTakes
<1>. PICK p \in Lookups(s) \ {None} :
       /\ server' = [server EXCEPT ![c] = s]
       /\ Hold(c, p)
       /\ pools' = [pools EXCEPT ![s] = None]
  OBVIOUS
<1>1. /\ pc[c] = "idle"
      /\ p = pools[s]
      /\ p \in Pools
      /\ None \notin Pools
      /\ Go(c, "removing")
      /\ UNCHANGED <<mu, left, open, of>>
  BY FactoryAssumption DEF RemoveTakes, Lookups, IInv, FactoryTypeOK
<1>2. FactoryTypeOK' /\ LockHeld'
  BY <1>1 DEF Go, Hold, IInv, FactoryTypeOK, LockHeld
<1>3. OnTheWay'
  BY <1>1 DEF Go, Hold, IInv, FactoryTypeOK, OnTheWay
<1>4. Swept'
  BY <1>1 DEF Go, IInv, FactoryTypeOK, Swept
<1>5. OpenHasServer' /\ OpenIsKept'
  BY <1>1 DEF Go, Hold, IInv, FactoryTypeOK, OpenHasServer, OpenIsKept
<1>. QED  BY <1>2, <1>3, <1>4, <1>5 DEF IInv

LEMMA RemoveStopsInv ==
    ASSUME IInv, NEW c \in Callers, RemoveStops(c)
    PROVE  IInv'
BY FactoryAssumption
   DEF RemoveStops, Go, Hold, IInv, FactoryTypeOK, LockHeld, OnTheWay, Swept, OpenHasServer,
       OpenIsKept

-----------------------------------------------------------------------------
\* Shutdown.
LEMMA ShutdownLocksInv ==
    ASSUME IInv, NEW c \in Callers, ShutdownLocks(c)
    PROVE  IInv'
BY FactoryAssumption
   DEF ShutdownLocks, Go, IInv, FactoryTypeOK, LockHeld, OnTheWay, Swept, OpenHasServer,
       OpenIsKept

LEMMA ShutdownStopsInv ==
    ASSUME IInv, NEW c \in Callers, ShutdownStops(c)
    PROVE  IInv'
<1>1. \A d \in Callers : d # c =>
          pc[d] \notin {"locked", "storing", "sweeping", "clearing"}
  BY DEF ShutdownStops, IInv, LockHeld
<1>2. FactoryTypeOK' /\ LockHeld' /\ OnTheWay'
  BY DEF ShutdownStops, IInv, FactoryTypeOK, LockHeld, OnTheWay
<1>3. Swept'
  BY <1>1 DEF ShutdownStops, IInv, Swept
<1>4. OpenHasServer' /\ OpenIsKept'
  BY FactoryAssumption DEF ShutdownStops, IInv, FactoryTypeOK, OpenHasServer, OpenIsKept
<1>. QED  BY <1>2, <1>3, <1>4 DEF IInv

LEMMA ShutdownClearsInv ==
    ASSUME IInv, NEW c \in Callers, ShutdownClears(c)
    PROVE  IInv'
BY DEF ShutdownClears, Go, IInv, FactoryTypeOK, LockHeld, OnTheWay, Swept, OpenHasServer,
       OpenIsKept

\* The old map has no running pool left to lose.
LEMMA ShutdownUnlocksInv ==
    ASSUME IInv, NEW c \in Callers, ShutdownUnlocks(c)
    PROVE  IInv'
<1>1. /\ pc[c] = "clearing"
      /\ \A s \in Servers : pools[s] \notin open
  BY DEF ShutdownUnlocks, IInv, Swept
<1>2. \A d \in Callers : d # c =>
          pc[d] \notin {"locked", "storing", "sweeping", "clearing"}
  BY <1>1 DEF IInv, LockHeld
<1>3. FactoryTypeOK' /\ LockHeld' /\ OnTheWay' /\ Swept'
  BY <1>1, <1>2 DEF ShutdownUnlocks, Go, IInv, FactoryTypeOK, LockHeld, OnTheWay, Swept
<1>4. OpenHasServer' /\ OpenIsKept'
  BY <1>1 DEF ShutdownUnlocks, Go, IInv, FactoryTypeOK, OpenHasServer, OpenIsKept
<1>. QED  BY <1>3, <1>4 DEF IInv

-----------------------------------------------------------------------------
\* Every step keeps the invariant, a stuttering one included.
LEMMA NextInv == IInv /\ [Next]_vars => IInv'
<1>. SUFFICES ASSUME IInv, [Next]_vars PROVE IInv'
  OBVIOUS
<1>1. CASE UNCHANGED vars
  BY <1>1 DEF vars, IInv, FactoryTypeOK, LockHeld, OnTheWay, Swept, OpenHasServer, OpenIsKept
<1>2. CASE Next
  <2>. PICK c \in Callers : Get(c) \/ Remove(c) \/ Shutdown(c)
    BY <1>2 DEF Next
  <2>1. CASE Get(c)
    BY <2>1, GetLooksInv, GetLocksInv, GetLooksAgainInv, GetStoresInv, PoolUsedInv DEF Get
  <2>2. CASE Remove(c)
    BY <2>2, RemoveTakesInv, RemoveStopsInv DEF Remove
  <2>3. CASE Shutdown(c)
    BY <2>3, ShutdownLocksInv, ShutdownStopsInv, ShutdownClearsInv, ShutdownUnlocksInv
       DEF Shutdown
  <2>. QED  BY <2>1, <2>2, <2>3
<1>. QED  BY <1>1, <1>2

LEMMA Invariant == Spec => []IInv
BY InitInv, NextInv, PTL DEF Spec

\* The variables of the registry keep their types (ConnectionPoolFactory).
THEOREM TypeCorrect == Spec => []FactoryTypeOK
<1>1. IInv => FactoryTypeOK
  BY DEF IInv
<1>. QED  BY <1>1, Invariant, PTL

\* GetPool, RemovePool and Shutdown lose no running pool, whatever their number and
\* however they overlap.
THEOREM NoPoolLost == Spec => []OpenIsKept
<1>1. IInv => OpenIsKept
  BY DEF IInv
<1>. QED  BY <1>1, Invariant, PTL

-----------------------------------------------------------------------------
\* The map files a pool under its own server.
Filed == \A s \in Servers : pools[s] # None => of[pools[s]] = s

\* What is about to be stored works, and what is about to be stopped is neither in the
\* map nor about to come into it.
InHand ==
    \A c \in Callers :
        /\ pc[c] = "storing" => got[c] \in open
        /\ pc[c] = "removing" =>
             /\ got[c] \in Pools
             /\ \A s \in Servers : pools[s] # got[c]
             /\ \A d \in Callers : pc[d] = "storing" => got[d] # got[c]

\* No Shutdown is between its first Stop and the new map.
NoSweep == \A d \in Callers : pc[d] \notin {"sweeping", "clearing"}

\* Then the pools in the map work.
MapWorks == NoSweep => \A s \in Servers : pools[s] # None => pools[s] \in open

WInv == IInv /\ Filed /\ InHand /\ MapWorks

\* The steps of GetPool before it has the lock, and after its return.
LEMMA GetOutsideKeeps ==
    ASSUME WInv, NEW c \in Callers, GetLooks(c) \/ GetLocks(c) \/ PoolUsed(c)
    PROVE  (Filed /\ InHand /\ MapWorks)'
<1>1. CASE GetLooks(c)
  BY <1>1 DEF GetLooks, Go, Hold, WInv, IInv, FactoryTypeOK, Filed, InHand, MapWorks, NoSweep
<1>2. CASE GetLocks(c)
  BY <1>2 DEF GetLocks, Go, WInv, IInv, FactoryTypeOK, Filed, InHand, MapWorks, NoSweep
<1>3. CASE PoolUsed(c)
  BY <1>3 DEF PoolUsed, Go, Hold, WInv, IInv, FactoryTypeOK, Filed, InHand, MapWorks, NoSweep
<1>. QED  BY <1>1, <1>2, <1>3

\* Its steps with the lock.
LEMMA GetInsideKeeps ==
    ASSUME WInv, NEW c \in Callers, GetLooksAgain(c) \/ GetStores(c)
    PROVE  (Filed /\ InHand /\ MapWorks)'
<1>1. CASE GetLooksAgain(c) /\ mu' = None /\ Hold(c, pools[server[c]]) /\ Go(c, "got")
           /\ UNCHANGED <<open, of>>
  BY <1>1 DEF GetLooksAgain, Go, Hold, WInv, IInv, FactoryTypeOK, Filed, InHand, MapWorks,
              NoSweep
<1>2. ASSUME NEW p \in Fresh,
             Hold(c, p), open' = open \union {p}, of' = [of EXCEPT ![p] = server[c]],
             Go(c, "storing"), pc[c] = "locked", UNCHANGED <<pools, server, left>>
      PROVE  (Filed /\ InHand /\ MapWorks)'
  <2>1. /\ p \in Pools
        /\ \A s \in Servers : pools[s] # p
        /\ \A d \in Callers : got[d] # p
    BY DEF Fresh
  <2>2. Filed'
    BY <1>2, <2>1 DEF WInv, IInv, FactoryTypeOK, Filed
  <2>3. InHand'
    BY <1>2, <2>1 DEF Go, Hold, WInv, IInv, FactoryTypeOK, InHand
  <2>4. MapWorks'
    BY <1>2, <2>1 DEF Go, WInv, IInv, FactoryTypeOK, MapWorks, NoSweep
  <2>. QED  BY <2>2, <2>3, <2>4
<1>3. CASE GetStores(c)
  <2>1. /\ pc[c] = "storing"
        /\ server[c] \in Servers
        /\ got[c] \in Pools
        /\ of[got[c]] = server[c]
        /\ got[c] \in open
    BY <1>3 DEF GetStores, WInv, IInv, OnTheWay, InHand
  <2>2. Filed'
    BY <1>3, <2>1 DEF GetStores, WInv, IInv, FactoryTypeOK, Filed
  <2>3. InHand'
    BY <1>3, <2>1 DEF GetStores, Go, WInv, IInv, FactoryTypeOK, InHand
  <2>4. MapWorks'
    BY <1>3, <2>1 DEF GetStores, Go, WInv, IInv, FactoryTypeOK, MapWorks, NoSweep
  <2>. QED  BY <2>2, <2>3, <2>4
<1>. QED  BY <1>1, <1>2, <1>3 DEF GetLooksAgain

\* RemovePool: the map has a pool once, so what leaves it is not left in it.
LEMMA RemoveKeeps ==
    ASSUME WInv, NEW c \in Callers, Remove(c)
    PROVE  (Filed /\ InHand /\ MapWorks)'
<1>1. CASE RemoveTakes(c)
  <2>. PICK s \in Servers : \E p \in Lookups(s) \ {None} :
         /\ server' = [server EXCEPT ![c] = s]
         /\ Hold(c, p)
         /\ pools' = [pools EXCEPT ![s] = None]
    BY <1>1 DEF RemoveTakes
  <2>. PICK p \in Lookups(s) \ {None} :
         /\ server' = [server EXCEPT ![c] = s]
         /\ Hold(c, p)
         /\ pools' = [pools EXCEPT ![s] = None]
    OBVIOUS
  <2>1. /\ pc[c] = "idle"
        /\ p = pools[s]
        /\ p # None
        /\ p \in Pools
        /\ Go(c, "removing")
        /\ UNCHANGED <<mu, left, open, of>>
    BY <1>1, FactoryAssumption DEF RemoveTakes, Lookups, WInv, IInv, FactoryTypeOK
  <2>2. \A r \in Servers : r # s => pools[r] # p
    BY <2>1 DEF WInv, Filed
  <2>3. \A d \in Callers : pc[d] = "storing" => got[d] # p
    BY <2>1 DEF WInv, IInv, OnTheWay, Filed
  <2>4. Filed'
    BY <2>1 DEF WInv, IInv, FactoryTypeOK, Filed
  <2>5. InHand'
    BY <2>1, <2>2, <2>3, FactoryAssumption DEF Go, Hold, WInv, IInv, FactoryTypeOK, InHand
  <2>6. MapWorks'
    BY <2>1 DEF Go, WInv, IInv, FactoryTypeOK, MapWorks, NoSweep
  <2>. QED  BY <2>4, <2>5, <2>6
<1>2. CASE RemoveStops(c)
  BY <1>2 DEF RemoveStops, Go, Hold, WInv, IInv, FactoryTypeOK, Filed, InHand, MapWorks, NoSweep
<1>. QED  BY <1>1, <1>2 DEF Remove

\* Shutdown: nobody is storing, and its first and its last step make the claim about
\* the map void or trivial.
LEMMA ShutdownKeeps ==
    ASSUME WInv, NEW c \in Callers, Shutdown(c)
    PROVE  (Filed /\ InHand /\ MapWorks)'
<1>1. CASE ShutdownLocks(c)
  BY <1>1 DEF ShutdownLocks, Go, WInv, IInv, FactoryTypeOK, Filed, InHand, MapWorks, NoSweep
<1>2. CASE ShutdownStops(c)
  <2>1. \A d \in Callers : pc[d] # "storing"
    BY <1>2 DEF ShutdownStops, WInv, IInv, LockHeld
  <2>. QED  BY <1>2, <2>1 DEF ShutdownStops, WInv, Filed, InHand, MapWorks, NoSweep
<1>3. CASE ShutdownClears(c)
  BY <1>3 DEF ShutdownClears, Go, WInv, IInv, FactoryTypeOK, Filed, InHand, MapWorks, NoSweep
<1>4. CASE ShutdownUnlocks(c)
  BY <1>4, FactoryAssumption
     DEF ShutdownUnlocks, Go, WInv, IInv, FactoryTypeOK, Filed, InHand, MapWorks, NoSweep
<1>. QED  BY <1>1, <1>2, <1>3, <1>4 DEF Shutdown

LEMMA MapInv == Spec => []WInv
<1>1. Init => WInv
  BY InitInv DEF Init, WInv, Filed, InHand, MapWorks
<1>2. WInv /\ [Next]_vars => WInv'
  <2>. SUFFICES ASSUME WInv, [Next]_vars PROVE WInv'
    OBVIOUS
  <2>1. IInv'
    BY NextInv DEF WInv
  <2>2. CASE UNCHANGED vars
    BY <2>1, <2>2 DEF vars, WInv, Filed, InHand, MapWorks, NoSweep
  <2>3. CASE Next
    <3>. PICK c \in Callers : Get(c) \/ Remove(c) \/ Shutdown(c)
      BY <2>3 DEF Next
    <3>. QED  BY <2>1, GetOutsideKeeps, GetInsideKeeps, RemoveKeeps, ShutdownKeeps
              DEF Get, WInv
  <2>. QED  BY <2>2, <2>3
<1>. QED  BY <1>1, <1>2, PTL DEF Spec

\* GetPool hands out a stopped pool only during a Shutdown: three of its steps return,
\* and what they return is in the map or just made.
THEOREM NoStalePool == Spec => StaleOnlyInShutdown
<1>. DEFINE Fine == \A c \in Callers :
                      pc[c] # "got" /\ pc'[c] = "got" /\ got'[c] \notin open' => ~NoSweep
<1>1. WInv /\ [Next]_vars => [Fine]_vars
  <2>. SUFFICES ASSUME WInv, Next, NEW c \in Callers,
                       pc[c] # "got", pc'[c] = "got", NoSweep
                PROVE  got'[c] \in open'
    OBVIOUS
  <2>. PICK d \in Callers : Get(d) \/ Remove(d) \/ Shutdown(d)
    BY DEF Next
  <2>1. CASE GetLooks(d)
    BY <2>1 DEF GetLooks, Go, Hold, Lookups, WInv, IInv, FactoryTypeOK, MapWorks, NoSweep
  <2>2. CASE GetLooksAgain(d)
    BY <2>2 DEF GetLooksAgain, Go, Hold, WInv, IInv, FactoryTypeOK, OnTheWay, MapWorks, NoSweep
  <2>3. CASE GetStores(d)
    BY <2>3 DEF GetStores, Go, WInv, IInv, FactoryTypeOK, InHand
  <2>4. CASE GetLocks(d) \/ PoolUsed(d) \/ Remove(d)
    BY <2>4 DEF GetLocks, PoolUsed, Remove, RemoveTakes, RemoveStops, Go, WInv, IInv,
                FactoryTypeOK
  <2>5. CASE Shutdown(d)
    BY <2>5 DEF Shutdown, ShutdownLocks, ShutdownStops, ShutdownClears, ShutdownUnlocks, Go,
                WInv, IInv, FactoryTypeOK
  <2>. QED  BY <2>1, <2>2, <2>3, <2>4, <2>5 DEF Get
<1>2. [Fine]_vars => [\A c \in Callers :
          pc[c] # "got" /\ pc'[c] = "got" /\ got'[c] \notin open' =>
              \E d \in Callers : pc[d] \in {"sweeping", "clearing"}]_vars
  BY DEF NoSweep
<1>. QED  BY <1>1, <1>2, MapInv, PTL DEF Spec, StaleOnlyInShutdown
=============================================================================
