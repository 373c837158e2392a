----------------------------- MODULE AdminProofs -----------------------------
(***************************************************************************)
(* Proofs about AdminCollector, for any number of handlers, any addresses  *)
(* and any times: its types, that its refreshes keep LazyCache's           *)
(* discipline, and that it keeps the addresses it cannot look up.          *)
(***************************************************************************)
EXTENDS AdminCollector, TLAPS

\* The ways a refresh can go on: it ends with a verdict of its own, or with a fault
\* and the last addresses, it begins, or it goes from one of its steps to the next.
Ends(r) == /\ \/ \E i \in Infos, e \in Verdicts : Collector!Store(r, i, e)
              \/ \E e \in AddrErrors : Collector!Store(r, Fallback(r), e)
           /\ opErr' \in [Requests -> BOOLEAN]

Begins(r) == /\ step[r] = "exists"
             /\ Collector!Goto(r, "operstate")
             /\ deadline' = [deadline EXCEPT ![r] = clock + ExecTimeout]
             /\ UNCHANGED <<Collector!cacheVars, gone, found, opErr>>

GoesOn(r) == /\ step[r] \in {"operstate", "addr"}
             /\ \E i \in Infos, s \in {"addr", "route"} : Collector!Proceed(r, i, s)
             /\ opErr' \in [Requests -> BOOLEAN]

-----------------------------------------------------------------------------

\* What a refresh puts together of new and old data is data.
LEMMA MixedInfo ==
  ASSUME NEW i \in Infos, NEW j \in Infos, NEW up \in BOOLEAN,
         NEW a \in Addrs \cup {Unset}
  PROVE  /\ [i EXCEPT !.link = up] \in Infos
         /\ [i EXCEPT !.ip = a] \in Infos
         /\ [i EXCEPT !.gateway = a] \in Infos
         /\ [j EXCEPT !.link = i.link] \in Infos
BY DEF Infos

\* Whatever is read and whatever fails, a refresh goes on in one of these ways.
LEMMA RefreshForms ==
  ASSUME TypeOK, NEW r \in Requests, Refresh(r)
  PROVE  Ends(r) \/ Begins(r) \/ GoesOn(r)
<1>1. found[r] \in Infos /\ prev[r].info \in Infos /\ opErr \in [Requests -> BOOLEAN]
  BY DEF TypeOK, Collector!TypeOK, Collector!Cache!TypeOK, Collector!Cache!Snaps
<1>2. CASE Exists(r)
  <2>1. Blank \in Infos
    BY DEF Blank, Infos
  <2> QED
    BY <1>1, <1>2, <2>1 DEF Exists, Collector!Exists, Ends, Begins, Verdicts
<1>3. CASE Operstate(r)
  <2>1. PICK up, failed \in BOOLEAN :
          /\ opErr' = [opErr EXCEPT ![r] = failed]
          /\ Collector!Proceed(r, [found[r] EXCEPT !.link = up], "addr")
    BY <1>3 DEF Operstate
  <2>2. [found[r] EXCEPT !.link = up] \in Infos
    BY <1>1, MixedInfo
  <2>3. opErr' \in [Requests -> BOOLEAN]
    BY <1>1, <2>1
  <2> QED
    BY <1>3, <2>1, <2>2, <2>3 DEF Operstate, GoesOn
<1>4. CASE IpAddr(r)
  <2>1. CASE Store(r, Fallback(r), AddrError(r))
    <3>1. AddrError(r) \in AddrErrors
      BY DEF AddrError, AddrErrors
    <3> QED
      BY <1>1, <2>1, <3>1 DEF Store, Ends
  <2>2. ASSUME NEW a \in Addrs \cup {Unset},
               Collector!Proceed(r, [found[r] EXCEPT !.ip = a], "route"),
               UNCHANGED opErr
        PROVE  GoesOn(r)
    <3>1. [found[r] EXCEPT !.ip = a] \in Infos
      BY <1>1, MixedInfo
    <3> QED
      BY <1>1, <1>4, <2>2, <3>1 DEF IpAddr, GoesOn
  <2> QED
    BY <1>4, <2>1, <2>2 DEF IpAddr
<1>5. CASE IpRoute(r)
  <2>1. PICK a \in Addrs \cup {Unset} :
          Store(r, [found[r] EXCEPT !.gateway = a], IF opErr[r] THEN "operstate" ELSE "nil")
    BY <1>5 DEF IpRoute
  <2>2. [found[r] EXCEPT !.gateway = a] \in Infos
    BY <1>1, MixedInfo
  <2>3. (IF opErr[r] THEN "operstate" ELSE "nil") \in Verdicts
    BY DEF Verdicts
  <2> QED
    BY <1>1, <2>1, <2>2, <2>3 DEF Store, Ends
<1> QED
  BY <1>2, <1>3, <1>4, <1>5 DEF Refresh

-----------------------------------------------------------------------------

\* The initial state has the right types.
LEMMA InitTypeOK == Init => TypeOK
BY AdminAssumption
   DEF Init, TypeOK, Blank, Infos, Verdicts, Collector!Init, Collector!TypeOK,
       Collector!Cache!Init, Collector!Cache!TypeOK, Collector!Cache!Snaps,
       Collector!Cache!Placeholder, Collector!Cache!LongAgo

\* A snapshot of data and an outcome leaves the types as they are.
LEMMA StoreTypeOK ==
  ASSUME TypeOK, NEW r \in Requests, NEW i \in Infos,
         NEW e \in Verdicts \cup AddrErrors, Collector!Store(r, i, e)
  PROVE  Collector!TypeOK'
<1>1. [info |-> Blank, err |-> "nil"] \in Collector!Cache!Snaps
  BY DEF Blank, Infos, Verdicts, Collector!Cache!Snaps
<1>2. [info |-> i, err |-> e] \in Collector!Cache!Snaps
  BY DEF Collector!Cache!Snaps
<1>3. Collector!Cache!TypeOK'
  BY <1>1, <1>2
     DEF TypeOK, Collector!TypeOK, Collector!Cache!TypeOK, Collector!Store,
         Collector!Cache!Publish, Collector!Cache!Goto, Collector!Cache!Unlock,
         Collector!Cache!Placeholder
<1>4. Blank \in Infos
  BY DEF Blank, Infos
<1> QED
  BY <1>3, <1>4
     DEF TypeOK, Collector!TypeOK, Collector!Store, Collector!Goto

\* A refresh that falls back publishes the link it found and the last addresses.
LEMMA LastAddrs ==
  ASSUME TypeOK, NEW r \in Requests
  PROVE  /\ Fallback(r) \in Infos
         /\ Addresses(Fallback(r)) = Addresses(prev[r].info)
<1>1. prev[r].info \in Infos /\ found[r] \in Infos
  BY DEF TypeOK, Collector!TypeOK, Collector!Cache!TypeOK, Collector!Cache!Snaps
<1> QED
  BY <1>1 DEF Fallback, Infos, Addresses

\* Every step keeps the types.
LEMMA NextTypeOK == TypeOK /\ [Next]_vars => TypeOK'
<1> SUFFICES ASSUME TypeOK, [Next]_vars
             PROVE  TypeOK'
  OBVIOUS
<1> USE AdminAssumption DEF TypeOK, Collector!TypeOK, Collector!Cache!TypeOK
<1>1. ASSUME NEW r \in Requests, Handle(r)
      PROVE  TypeOK'
  <2>0. opErr' = opErr
    BY <1>1 DEF Handle
  <2>1. CASE Collector!Call(r)
    BY <2>0, <2>1
       DEF Collector!Call, Collector!Cache!Call, Collector!Cache!Goto, Collector!local
  <2>2. CASE Collector!Check(r)
    BY <2>0, <2>2
       DEF Collector!Check, Collector!Cache!Check, Collector!Cache!Goto, Collector!local
  <2>3. CASE Collector!Enter(r)
    <3>1. Collector!Cache!TypeOK'
      BY <2>3 DEF Collector!Enter, Collector!Cache!Enter, Collector!Cache!Goto
    <3> QED
      BY <2>0, <2>3, <3>1 DEF Collector!Enter, Collector!Goto
  <2>4. CASE Collector!Load(r)
    BY <2>0, <2>4 DEF Collector!Load, Collector!Cache!Load, Collector!Cache!Goto
  <2>5. CASE Collector!HangUp(r)
    BY <2>0, <2>5 DEF Collector!HangUp, Collector!cacheVars
  <2> QED
    BY <1>1, <2>1, <2>2, <2>3, <2>4, <2>5 DEF Handle
<1>2. ASSUME NEW r \in Requests, Refresh(r)
      PROVE  TypeOK'
  <2>1. CASE Ends(r)
    <3>1. Fallback(r) \in Infos
      BY LastAddrs
    <3>2. PICK i \in Infos, e \in Verdicts \cup AddrErrors : Collector!Store(r, i, e)
      BY <2>1, <3>1 DEF Ends
    <3>3. opErr' \in [Requests -> BOOLEAN]
      BY <2>1 DEF Ends
    <3> QED
      BY <3>2, <3>3, StoreTypeOK
  <2>2. CASE Begins(r)
    BY <2>2 DEF Begins, Collector!Goto, Collector!cacheVars
  <2>3. CASE GoesOn(r)
    <3>1. PICK i \in Infos, s \in {"addr", "route"} : Collector!Proceed(r, i, s)
      BY <2>3 DEF GoesOn
    <3>2. opErr' \in [Requests -> BOOLEAN]
      BY <2>3 DEF GoesOn
    <3> QED
      BY <3>1, <3>2 DEF Collector!Proceed, Collector!Goto, Collector!cacheVars
  <2> QED
    BY <1>2, <2>1, <2>2, <2>3, RefreshForms
<1>3. CASE Collector!Tick /\ UNCHANGED opErr
  BY <1>3 DEF Collector!Tick, Collector!Cache!Tick, Collector!local
<1>4. CASE UNCHANGED vars
  BY <1>4 DEF vars
<1> QED
  BY <1>1, <1>2, <1>3, <1>4 DEF Next

\* The type invariant of the admin collector and of the cache inside it.
THEOREM TypeCorrect == Spec => []TypeOK
BY InitTypeOK, NextTypeOK, PTL DEF Spec

-----------------------------------------------------------------------------

\* A handler that remembers a snapshot remembers its addresses.
LEMMA Remembers ==
  ASSUME TypeOK, NEW r \in Requests, NEW s, prev' = [prev EXCEPT ![r] = s]
  PROVE  [q \in Requests |-> Projected(prev'[q])]
           = [[q \in Requests |-> Projected(prev[q])] EXCEPT ![r] = Projected(s)]
BY DEF TypeOK, Collector!TypeOK, Collector!Cache!TypeOK

\* What the collector stores is published by the cache of the addresses.
LEMMA Publishes ==
  ASSUME TypeOK, NEW r \in Requests, NEW i, NEW e, Collector!Store(r, i, e)
  PROVE  AddrCache!Publish(r, Addresses(i), e)
<1>1. Collector!Cache!Publish(r, i, e)
  BY DEF Collector!Store
<1>2. snap' = [info |-> i, err |-> e]
  BY <1>1 DEF Collector!Cache!Publish
<1>3. Projected(snap)' = [info |-> Addresses(i), err |-> e]
  BY <1>2 DEF Projected, Addresses
<1>4. prev' = [prev EXCEPT ![r] = [info |-> Blank, err |-> "nil"]]
  BY <1>1 DEF Collector!Cache!Publish, Collector!Cache!Placeholder
<1>5. [q \in Requests |-> Projected(prev'[q])]
        = [[q \in Requests |-> Projected(prev[q])]
             EXCEPT ![r] = [info |-> Addresses(Blank), err |-> "nil"]]
  <2>1. Projected([info |-> Blank, err |-> "nil"]) = [info |-> Addresses(Blank), err |-> "nil"]
    BY DEF Projected
  <2> QED
    BY <1>4, <2>1, Remembers
<1> QED
  BY <1>1, <1>3, <1>5
     DEF Collector!Cache!Publish, Collector!Cache!Unlock, Collector!Cache!Goto,
         AddrCache!Publish, AddrCache!Unlock, AddrCache!Goto, AddrCache!Placeholder,
         Projected, Addresses

\* Where the collector leaves its snapshots alone, so does the cache of the addresses.
LEMMA SameSnaps ==
  ASSUME UNCHANGED <<snap, prev>>
  PROVE  /\ Projected(snap)' = Projected(snap)
         /\ [q \in Requests |-> Projected(prev[q])]' = [q \in Requests |-> Projected(prev[q])]
BY DEF Projected, Addresses

\* Every step of the collector is one of LazyCache for the addresses, or one that
\* LazyCache does not see: a command that begins or ends, and a client that
\* disconnects.
LEMMA NextKeepsDiscipline ==
  TypeOK /\ [Next]_vars => [AddrCache!Next]_AddrCache!vars
<1> SUFFICES ASSUME TypeOK, [Next]_vars
             PROVE  [AddrCache!Next]_AddrCache!vars
  OBVIOUS
<1>1. ASSUME NEW r \in Requests,
             Collector!Cache!Call(r) \/ Collector!Cache!Check(r) \/ Collector!Cache!Load(r)
      PROVE  AddrCache!Next
  <2>1. UNCHANGED <<snap, prev>>
    BY <1>1 DEF Collector!Cache!Call, Collector!Cache!Check, Collector!Cache!Load
  <2>2. AddrCache!Call(r) \/ AddrCache!Check(r) \/ AddrCache!Load(r)
    BY <1>1, <2>1, SameSnaps
       DEF Collector!Cache!Call, Collector!Cache!Check, Collector!Cache!Load,
           Collector!Cache!Goto, Collector!Cache!Stale, Collector!Cache!Unlocked,
           AddrCache!Call, AddrCache!Check, AddrCache!Load,
           AddrCache!Goto, AddrCache!Stale, AddrCache!Unlocked
  <2> QED
    BY <2>2 DEF AddrCache!Next
<1>2. ASSUME NEW r \in Requests, Collector!Cache!Enter(r)
      PROVE  AddrCache!Next
  <2>1. CASE UNCHANGED <<mu, now, prev>> /\ ~Collector!Cache!StillStale
                                         /\ Collector!Cache!Goto(r, "load")
    <3>1. UNCHANGED <<snap, prev>>
      BY <1>2, <2>1 DEF Collector!Cache!Enter
    <3> QED
      BY <1>2, <2>1, <3>1, SameSnaps
         DEF Collector!Cache!Enter, Collector!Cache!Goto, Collector!Cache!Stale,
             Collector!Cache!StillStale, Collector!Cache!Unlocked,
             AddrCache!Next, AddrCache!Enter, AddrCache!Goto, AddrCache!Stale,
             AddrCache!StillStale, AddrCache!Unlocked
  <2>2. CASE prev' = [prev EXCEPT ![r] = snap] /\ Collector!Cache!StillStale
               /\ Collector!Cache!Goto(r, "refresh") /\ mu' = r
               /\ now' = [now EXCEPT ![r] = clock]
    <3>1. Projected(snap)' = Projected(snap)
      BY <1>2 DEF Collector!Cache!Enter, Projected, Addresses
    <3>2. [q \in Requests |-> Projected(prev[q])]'
            = [[q \in Requests |-> Projected(prev[q])] EXCEPT ![r] = Projected(snap)]
      BY <2>2, Remembers
    <3>3. AddrCache!Enter(r)
      BY <1>2, <2>2, <3>1, <3>2
         DEF Collector!Cache!Enter, Collector!Cache!Goto, Collector!Cache!Stale,
             Collector!Cache!StillStale, Collector!Cache!Unlocked,
             AddrCache!Enter, AddrCache!Goto, AddrCache!Stale,
             AddrCache!StillStale, AddrCache!Unlocked
    <3> QED
      BY <3>3 DEF AddrCache!Next
  <2> QED
    BY <1>2, <2>1, <2>2 DEF Collector!Cache!Enter
<1>3. ASSUME NEW r \in Requests, Handle(r)
      PROVE  AddrCache!Next \/ UNCHANGED AddrCache!vars
  <2>1. CASE Collector!HangUp(r)
    <3>1. UNCHANGED Collector!cacheVars
      BY <2>1 DEF Collector!HangUp
    <3> QED
      BY <3>1, SameSnaps DEF Collector!cacheVars, AddrCache!vars
  <2> QED
    BY <1>1, <1>2, <1>3, <2>1
       DEF Handle, Collector!Call, Collector!Check, Collector!Enter, Collector!Load
<1>4. ASSUME NEW r \in Requests, Ends(r)
      PROVE  AddrCache!Next
  <2>1. CASE \E i \in Infos, e \in Verdicts : Collector!Store(r, i, e)
    BY <2>1, Publishes DEF AddrCache!Refresh, AddrCache!Next
  <2>2. CASE \E e \in AddrErrors : Collector!Store(r, Fallback(r), e)
    <3>1. PICK e \in AddrErrors : Collector!Store(r, Fallback(r), e)
      BY <2>2
    <3>2. AddrCache!LastGood(r) = Addresses(Fallback(r))
      BY LastAddrs DEF AddrCache!LastGood, Projected
    <3>3. AddrCache!Publish(r, AddrCache!LastGood(r), e)
      BY <3>1, <3>2, Publishes
    <3> QED
      BY <3>3 DEF AddrCache!Refresh, AddrCache!Next
  <2> QED
    BY <1>4, <2>1, <2>2 DEF Ends
<1>5. ASSUME NEW r \in Requests, Begins(r) \/ GoesOn(r)
      PROVE  UNCHANGED AddrCache!vars
  <2>1. UNCHANGED Collector!cacheVars
    BY <1>5 DEF Begins, GoesOn, Collector!Proceed
  <2> QED
    BY <2>1, SameSnaps DEF Collector!cacheVars, AddrCache!vars
<1>6. CASE Collector!Tick
  <2>1. Collector!Cache!Tick
    BY <1>6 DEF Collector!Tick
  <2>2. UNCHANGED <<snap, prev>>
    BY <2>1 DEF Collector!Cache!Tick
  <2> QED
    BY <2>1, <2>2, SameSnaps DEF Collector!Cache!Tick, AddrCache!Tick, AddrCache!Next
<1>7. CASE UNCHANGED vars
  BY <1>7, SameSnaps DEF vars, AddrCache!vars
<1> QED
  BY <1>3, <1>4, <1>5, <1>6, <1>7, RefreshForms DEF Next

\* The commands of a refresh, whichever fail, are hidden behind LazyCache's
\* discipline (eth.go:124, refresh), with the addresses as what a failing `ip addr`
\* leaves.
THEOREM Discipline == Spec => KeepsDiscipline
<1>1. Init => AddrCache!Init
  BY DEF Init, Collector!Init, Collector!Cache!Init, Collector!Cache!Placeholder,
         Collector!Cache!LongAgo, AddrCache!Init, AddrCache!Placeholder,
         AddrCache!LongAgo, Projected
<1> QED
  BY <1>1, NextKeepsDiscipline, TypeCorrect, PTL
     DEF Spec, KeepsDiscipline, AddrCache!Spec

-----------------------------------------------------------------------------

\* What is proved about LazyCache holds of the cache of the addresses.
Lazy == INSTANCE LazyCacheProofs
          WITH Infos <- {Addresses(i) : i \in Infos}, Blank <- Addresses(Blank),
               Faults <- AddrErrors, NoErr <- "nil",
               snap <- Projected(snap),
               prev <- [r \in Requests |-> Projected(prev[r])]

\* The collector's data and outcomes are as LazyCache assumes.
LEMMA LazyAssumption == Lazy!CacheAssumption
<1>1. Blank \in Infos
  BY DEF Blank, Infos
<1> QED
  BY <1>1, AdminAssumption DEF Lazy!CacheAssumption, Verdicts

\* LazyCacheProofs has the initial states and the steps of the cache.
LEMMA SameCache == /\ AddrCache!Init => Lazy!Init
                   /\ [AddrCache!Next]_AddrCache!vars => [Lazy!Next]_Lazy!vars
<1>1. AddrCache!Init => Lazy!Init
  BY DEF AddrCache!Init, AddrCache!Placeholder, AddrCache!LongAgo,
         Lazy!Init, Lazy!Placeholder, Lazy!LongAgo
<1>2. [AddrCache!Next]_AddrCache!vars => [Lazy!Next]_Lazy!vars
  BY DEF AddrCache!vars, AddrCache!Next, AddrCache!Call,
         AddrCache!Check, AddrCache!Enter, AddrCache!Refresh,
         AddrCache!Load, AddrCache!Tick, AddrCache!Goto,
         AddrCache!Publish, AddrCache!Unlocked, AddrCache!Unlock,
         AddrCache!Stale, AddrCache!StillStale, AddrCache!LastGood,
         AddrCache!Placeholder,
         Lazy!vars, Lazy!Next, Lazy!Call, Lazy!Check, Lazy!Enter, Lazy!Refresh, Lazy!Load,
         Lazy!Tick, Lazy!Goto, Lazy!Publish, Lazy!Unlocked, Lazy!Unlock, Lazy!Stale,
         Lazy!StillStale, Lazy!LastGood, Lazy!Placeholder
<1> QED
  BY <1>1, <1>2

\* A behaviour of the collector is one of LazyCache, as LazyCacheProofs has it.
LEMMA LazySpec == Spec => Lazy!Spec
BY Discipline, SameCache, PTL DEF KeepsDiscipline, AddrCache!Spec, Lazy!Spec

\* What handlers read of the wired interface is the outcome of an attempt to refresh
\* that was begun less than TTL before they asked, be it a success or a fault, which
\* says so and comes with older data.
THEOREM FreshReads == Spec => []Lazy!ServedFresh
BY LazySpec, LazyAssumption, Lazy!FreshReads, PTL

\* With its commands, its mutex and its two tests hidden, the collector does what
\* FreshRead promises.
THEOREM ImplementsFreshRead == Spec => Lazy!Implements
BY LazySpec, LazyAssumption, Lazy!Refinement, PTL

-----------------------------------------------------------------------------

\* The handler with the mutex is at a step of the refresh, and nobody else has
\* replaced the snapshot that it took as its last one.
Guarded == \A r \in Requests :
             /\ pc[r] = "refresh" <=> mu = r
             /\ step[r] # "none" <=> mu = r
             /\ mu = r => prev[r] = snap

\* What AddrErrorKeepsAddrs needs: TypeOK and Guarded are inductive together.
GuardedInv == TypeOK /\ Guarded

\* Every step keeps Guarded.
LEMMA NextGuarded == GuardedInv /\ [Next]_vars => GuardedInv'
<1> SUFFICES ASSUME TypeOK, Guarded, [Next]_vars
             PROVE  Guarded'
  BY NextTypeOK DEF GuardedInv
<1> USE AdminAssumption
    DEF TypeOK, Collector!TypeOK, Collector!Cache!TypeOK, Collector!Cache!Goto, Guarded
<1>1. ASSUME NEW r \in Requests, Handle(r)
      PROVE  Guarded'
  <2>1. CASE Collector!Call(r)
    BY <2>1 DEF Collector!Call, Collector!Cache!Call, Collector!local
  <2>2. CASE Collector!Check(r)
    BY <2>2 DEF Collector!Check, Collector!Cache!Check, Collector!local
  <2>3. CASE Collector!Enter(r)
    BY <2>3 DEF Collector!Enter, Collector!Cache!Enter, Collector!Cache!Unlocked,
                Collector!Goto
  <2>4. CASE Collector!Load(r)
    BY <2>4 DEF Collector!Load, Collector!Cache!Load
  <2>5. CASE Collector!HangUp(r)
    BY <2>5 DEF Collector!HangUp, Collector!cacheVars
  <2> QED
    BY <1>1, <2>1, <2>2, <2>3, <2>4, <2>5 DEF Handle
<1>2. ASSUME NEW r \in Requests, Refresh(r)
      PROVE  Guarded'
  <2>1. CASE Ends(r)
    <3>1. PICK i, e : Collector!Store(r, i, e)
      BY <2>1 DEF Ends
    <3> QED
      BY <3>1 DEF Collector!Store, Collector!Cache!Publish, Collector!Cache!Unlock,
                  Collector!Goto
  <2>2. CASE Begins(r)
    BY <2>2 DEF Begins, Collector!Goto, Collector!cacheVars
  <2>3. CASE GoesOn(r)
    BY <2>3 DEF GoesOn, Collector!Proceed, Collector!Goto, Collector!cacheVars
  <2> QED
    BY <1>2, <2>1, <2>2, <2>3, RefreshForms
<1>3. CASE Collector!Tick
  BY <1>3 DEF Collector!Tick, Collector!Cache!Tick, Collector!local
<1>4. CASE UNCHANGED vars
  BY <1>4 DEF vars
<1> QED
  BY <1>1, <1>2, <1>3, <1>4 DEF Next

\* Only a refresh whose `ip addr` failed stores one of its errors, and it stores
\* the addresses that were on display.
LEMMA NextKeepsAddrs ==
  GuardedInv /\ [Next]_vars =>
    [snap'.err \in AddrErrors => /\ snap'.info.ip = snap.info.ip
                                 /\ snap'.info.gateway = snap.info.gateway]_vars
<1> SUFFICES ASSUME GuardedInv, Next, snap'.err \in AddrErrors
             PROVE  snap'.info.ip = snap.info.ip /\ snap'.info.gateway = snap.info.gateway
  OBVIOUS
<1>1. CASE snap' = snap
  BY <1>1
<1>2. ASSUME NEW r \in Requests, NEW i, NEW e, Collector!Store(r, i, e)
      PROVE  snap' = [info |-> i, err |-> e] /\ mu = r
  BY <1>2 DEF Collector!Store, Collector!Cache!Publish, GuardedInv, Guarded
<1>3. ASSUME NEW r \in Requests, NEW i, NEW e, Collector!Store(r, i, e), e \notin AddrErrors
      PROVE  FALSE
  BY <1>2, <1>3
<1>4. ASSUME NEW r \in Requests, Store(r, Fallback(r), AddrError(r))
      PROVE  snap'.info.ip = snap.info.ip /\ snap'.info.gateway = snap.info.gateway
  <2>1. snap'.info = Fallback(r) /\ prev[r] = snap
    BY <1>2, <1>4 DEF Store, GuardedInv, Guarded
  <2>2. prev[r].info \in Infos
    BY DEF GuardedInv, TypeOK, Collector!TypeOK, Collector!Cache!TypeOK, Collector!Cache!Snaps
  <2> QED
    BY <2>1, <2>2 DEF Fallback, Infos
<1>5. ASSUME NEW r \in Requests, Handle(r)
      PROVE  snap' = snap
  BY <1>5 DEF Handle, Collector!Call, Collector!Cache!Call, Collector!Check,
              Collector!Cache!Check, Collector!Enter, Collector!Cache!Enter, Collector!Load,
              Collector!Cache!Load, Collector!HangUp, Collector!cacheVars
<1>6. ASSUME NEW r \in Requests, Refresh(r)
      PROVE  \/ snap' = snap
             \/ Store(r, Fallback(r), AddrError(r))
  <2>1. CASE Exists(r)
    BY <1>3, <2>1 DEF Exists, Collector!Exists, Collector!cacheVars, AddrErrors
  <2>2. CASE Operstate(r)
    BY <2>2 DEF Operstate, Collector!Proceed, Collector!cacheVars
  <2>3. CASE IpAddr(r)
    BY <2>3 DEF IpAddr, Collector!Proceed, Collector!cacheVars
  <2>4. CASE IpRoute(r)
    <3>1. PICK i, e : Store(r, i, e) /\ e \in {"operstate", "nil"}
      BY <2>4 DEF IpRoute
    <3> QED
      BY <1>3, <3>1 DEF Store, AddrErrors
  <2> QED
    BY <1>6, <2>1, <2>2, <2>3, <2>4 DEF Refresh
<1>7. CASE Collector!Tick
  BY <1>1, <1>7 DEF Collector!Tick, Collector!Cache!Tick
<1> QED
  BY <1>1, <1>4, <1>5, <1>6, <1>7 DEF Next

\* While `ip addr` fails the last addresses stay (eth.go:167), with any number of
\* handlers that ask.
THEOREM AddrsKept == Spec => AddrErrorKeepsAddrs
<1>1. Init => GuardedInv
  BY InitTypeOK, AdminAssumption
     DEF GuardedInv, Guarded, Init, Collector!Init, Collector!Cache!Init
<1> QED
  BY <1>1, NextGuarded, NextKeepsAddrs, PTL DEF Spec, AddrErrorKeepsAddrs

==============================================================================
