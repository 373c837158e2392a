---------------------------- MODULE HotspotProofs ----------------------------
(***************************************************************************)
(* Proofs about HotspotCollector, for any number of handlers, any stations *)
(* and addresses and any times: its types, and that its refreshes keep     *)
(* LazyCache's discipline.                                                 *)
(***************************************************************************)
EXTENDS HotspotCollector, TLAPS

\* The ways a refresh can go on: it ends with a verdict of its own or with a fault
\* and the clients it replaces, it begins, or it goes from iw to the leases.
Ends(r) == \/ \E i \in Infos, e \in Verdicts : Collector!Store(r, i, e)
           \/ \E e \in Faults : Collector!Store(r, prev[r].info, e)

Begins(r) == /\ Collector!Goto(r, "iw")
             /\ deadline' = [deadline EXCEPT ![r] = clock + ExecTimeout]
             /\ UNCHANGED <<Collector!cacheVars, gone, found>>

GoesOn(r) == \E i \in Infos : Collector!Proceed(r, i, "leases")

-----------------------------------------------------------------------------

\* Without stations there is nothing, and that is data.
LEMMA NobodyInfo == Nobody \in Infos
<1>1. Nobody \in [{} -> Addrs \cup {Unset}]
  BY DEF Nobody
<1> QED
  BY <1>1 DEF Infos

\* The stations that iw lists are data before they have addresses.
LEMMA StationsInfo ==
  ASSUME NEW S \in SUBSET Macs
  PROVE  [m \in S |-> Unset] \in Infos
<1>1. [m \in S |-> Unset] \in [S -> Addrs \cup {Unset}]
  OBVIOUS
<1> QED
  BY <1>1 DEF Infos

\* Leases of stations that are not there add nothing, and stations without a lease
\* stay as they are.
LEMMA EnrichInfo ==
  ASSUME NEW clients \in Infos, NEW leases \in Leases
  PROVE  /\ Enrich(clients, leases) \in Infos
         /\ DOMAIN Enrich(clients, leases) = DOMAIN clients
<1>1. PICK S \in SUBSET Macs : clients \in [S -> Addrs \cup {Unset}]
  BY DEF Infos
<1>2. PICK T \in SUBSET Macs : leases \in [T -> Addrs]
  BY DEF Leases
<1>3. Enrich(clients, leases) \in [S -> Addrs \cup {Unset}]
  BY <1>1, <1>2 DEF Enrich
<1> QED
  BY <1>1, <1>3 DEF Infos

\* Whatever iw and the lease file give, a refresh goes on in one of these ways.
LEMMA RefreshForms ==
  ASSUME TypeOK, NEW r \in Requests, Refresh(r)
  PROVE  Ends(r) \/ Begins(r) \/ GoesOn(r)
<1>1. found[r] \in Infos
  BY DEF TypeOK, Collector!TypeOK
<1>2. CASE Collector!Exists(r)
  BY <1>2, NobodyInfo DEF Collector!Exists, Ends, Begins, Verdicts
<1>3. CASE StationDump(r)
  BY <1>3, StationsInfo DEF StationDump, Fails, Ends, GoesOn, Faults
<1>4. CASE ReadLeases(r)
  BY <1>1, <1>4, EnrichInfo DEF ReadLeases, Ends, Verdicts
<1> QED
  BY <1>2, <1>3, <1>4 DEF Refresh

-----------------------------------------------------------------------------

\* The initial state has the right types.
LEMMA InitTypeOK == Init => TypeOK
BY HotspotAssumption, NobodyInfo
   DEF Init, TypeOK, Verdicts, Collector!Init, Collector!TypeOK,
       Collector!Cache!Init, Collector!Cache!TypeOK, Collector!Cache!Snaps,
       Collector!Cache!Placeholder, Collector!Cache!LongAgo

\* A snapshot of data and an outcome leaves the types as they are.
LEMMA StoreTypeOK ==
  ASSUME TypeOK, NEW r \in Requests, NEW i \in Infos, NEW e \in Verdicts \cup Faults,
         Collector!Store(r, i, e)
  PROVE  TypeOK'
<1>1. [info |-> Nobody, err |-> "nil"] \in Collector!Cache!Snaps
  BY NobodyInfo DEF Verdicts, Collector!Cache!Snaps
<1>2. [info |-> i, err |-> e] \in Collector!Cache!Snaps
  BY DEF Collector!Cache!Snaps
<1>3. Collector!Cache!TypeOK'
  BY <1>1, <1>2
     DEF TypeOK, Collector!TypeOK, Collector!Cache!TypeOK, Collector!Store,
         Collector!Cache!Publish, Collector!Cache!Goto, Collector!Cache!Unlock,
         Collector!Cache!Placeholder
<1>4. Nobody \in Infos
  BY NobodyInfo
<1> QED
  BY <1>3, <1>4
     DEF TypeOK, Collector!TypeOK, Collector!Store, Collector!Goto

\* Every step keeps the types.
LEMMA NextTypeOK == TypeOK /\ [Next]_vars => TypeOK'
<1> SUFFICES ASSUME TypeOK, [Next]_vars
             PROVE  TypeOK'
  OBVIOUS
<1> USE HotspotAssumption DEF TypeOK, Collector!TypeOK, Collector!Cache!TypeOK
<1>1. ASSUME NEW r \in Requests, Collector!Call(r)
      PROVE  TypeOK'
  BY <1>1 DEF Collector!Call, Collector!Cache!Call, Collector!Cache!Goto, Collector!local
<1>2. ASSUME NEW r \in Requests, Collector!Check(r)
      PROVE  TypeOK'
  BY <1>2 DEF Collector!Check, Collector!Cache!Check, Collector!Cache!Goto, Collector!local
<1>3. ASSUME NEW r \in Requests, Collector!Enter(r)
      PROVE  TypeOK'
  <2>1. Collector!Cache!TypeOK'
    BY <1>3 DEF Collector!Enter, Collector!Cache!Enter, Collector!Cache!Goto
  <2> QED
    BY <1>3, <2>1 DEF Collector!Enter, Collector!Goto
<1>4. ASSUME NEW r \in Requests, Collector!Load(r)
      PROVE  TypeOK'
  BY <1>4 DEF Collector!Load, Collector!Cache!Load, Collector!Cache!Goto
<1>5. ASSUME NEW r \in Requests, Collector!HangUp(r)
      PROVE  TypeOK'
  BY <1>5 DEF Collector!HangUp, Collector!cacheVars
<1>6. ASSUME NEW r \in Requests, Refresh(r)
      PROVE  TypeOK'
  <2>1. CASE Ends(r)
    <3>1. prev[r].info \in Infos
      BY DEF Collector!Cache!Snaps
    <3> QED
      BY <2>1, <3>1, StoreTypeOK DEF Ends
  <2>2. CASE Begins(r)
    BY <2>2 DEF Begins, Collector!Goto, Collector!cacheVars
  <2>3. CASE GoesOn(r)
    BY <2>3 DEF GoesOn, Collector!Proceed, Collector!Goto, Collector!cacheVars
  <2> QED
    BY <1>6, <2>1, <2>2, <2>3, RefreshForms
<1>7. CASE Collector!Tick
  BY <1>7 DEF Collector!Tick, Collector!Cache!Tick, Collector!local
<1>8. CASE UNCHANGED vars
  BY <1>8 DEF vars
<1> QED
  BY <1>1, <1>2, <1>3, <1>4, <1>5, <1>6, <1>7, <1>8 DEF Next

\* The type invariant of the hotspot collector and of the cache inside it.
THEOREM TypeCorrect == Spec => []TypeOK
BY InitTypeOK, NextTypeOK, PTL DEF Spec

-----------------------------------------------------------------------------

\* Every step of the collector is one of LazyCache, or one that LazyCache does
\* not see: a command that begins or ends, and a client that disconnects.
LEMMA NextKeepsDiscipline ==
  TypeOK /\ [Next]_vars => [Collector!Cache!Next]_Collector!Cache!vars
<1> SUFFICES ASSUME TypeOK, [Next]_vars
             PROVE  [Collector!Cache!Next]_Collector!Cache!vars
  OBVIOUS
<1>1. ASSUME NEW r \in Requests,
             \/ Collector!Call(r) \/ Collector!Check(r)
             \/ Collector!Enter(r) \/ Collector!Load(r)
      PROVE  Collector!Cache!Next
  BY <1>1 DEF Collector!Call, Collector!Check, Collector!Enter, Collector!Load,
              Collector!Cache!Next
<1>2. ASSUME NEW r \in Requests, Collector!HangUp(r)
      PROVE  UNCHANGED Collector!Cache!vars
  BY <1>2 DEF Collector!HangUp, Collector!cacheVars, Collector!Cache!vars
<1>3. ASSUME NEW r \in Requests, Ends(r)
      PROVE  Collector!Cache!Refresh(r)
  BY <1>3 DEF Ends, Collector!Store, Collector!Cache!Refresh, Collector!Cache!LastGood
<1>4. ASSUME NEW r \in Requests, Begins(r) \/ GoesOn(r)
      PROVE  UNCHANGED Collector!Cache!vars
  BY <1>4 DEF Begins, GoesOn, Collector!Proceed, Collector!cacheVars, Collector!Cache!vars
<1>5. CASE Collector!Tick
  BY <1>5 DEF Collector!Tick, Collector!Cache!Next
<1>6. CASE UNCHANGED vars
  BY <1>6 DEF vars, Collector!Cache!vars
<1> QED
  BY <1>1, <1>2, <1>3, <1>4, <1>5, <1>6, RefreshForms DEF Next, Collector!Cache!Next

\* What a refresh runs and reads, whatever fails, is hidden behind LazyCache's
\* discipline (internal/hotspot/collector.go, refresh).
THEOREM Discipline == Spec => KeepsDiscipline
<1>1. Init => Collector!Cache!Init
  BY DEF Init, Collector!Init
<1> QED
  BY <1>1, NextKeepsDiscipline, TypeCorrect, PTL
     DEF Spec, KeepsDiscipline, Collector!Cache!Spec

-----------------------------------------------------------------------------

\* What is proved about LazyCache holds of the collector's cache.
Lazy == INSTANCE LazyCacheProofs WITH Blank <- Nobody, NoErr <- "nil"

\* The collector's data and outcomes are as LazyCache assumes.
LEMMA LazyAssumption == Lazy!CacheAssumption
BY HotspotAssumption, NobodyInfo DEF Lazy!CacheAssumption, Verdicts

\* LazyCacheProofs has the initial states and the steps of the cache.
LEMMA SameCache == /\ Collector!Cache!Init => Lazy!Init
                   /\ [Collector!Cache!Next]_Collector!Cache!vars => [Lazy!Next]_Lazy!vars
<1>1. Collector!Cache!Init => Lazy!Init
  BY DEF Collector!Cache!Init, Collector!Cache!Placeholder, Collector!Cache!LongAgo,
         Lazy!Init, Lazy!Placeholder, Lazy!LongAgo
<1>2. [Collector!Cache!Next]_Collector!Cache!vars => [Lazy!Next]_Lazy!vars
  BY DEF Collector!Cache!vars, Collector!Cache!Next, Collector!Cache!Call,
         Collector!Cache!Check, Collector!Cache!Enter, Collector!Cache!Refresh,
         Collector!Cache!Load, Collector!Cache!Tick, Collector!Cache!Goto,
         Collector!Cache!Publish, Collector!Cache!Unlocked, Collector!Cache!Unlock,
         Collector!Cache!Stale, Collector!Cache!StillStale, Collector!Cache!LastGood,
         Collector!Cache!Placeholder,
         Lazy!vars, Lazy!Next, Lazy!Call, Lazy!Check, Lazy!Enter, Lazy!Refresh, Lazy!Load,
         Lazy!Tick, Lazy!Goto, Lazy!Publish, Lazy!Unlocked, Lazy!Unlock, Lazy!Stale,
         Lazy!StillStale, Lazy!LastGood, Lazy!Placeholder
<1> QED
  BY <1>1, <1>2

\* A behaviour of the collector is one of LazyCache, as LazyCacheProofs has it.
LEMMA LazySpec == Spec => Lazy!Spec
BY Discipline, SameCache, PTL DEF KeepsDiscipline, Collector!Cache!Spec, Lazy!Spec

\* What handlers read of the hotspot's clients is the outcome of an attempt to refresh
\* that was begun less than TTL before they asked, be it a success or a fault, which
\* says so and comes with older data.
THEOREM FreshReads == Spec => []Lazy!ServedFresh
BY LazySpec, LazyAssumption, Lazy!FreshReads, PTL

\* With its commands, its mutex and its two tests hidden, the collector does what
\* FreshRead promises.
THEOREM ImplementsFreshRead == Spec => Lazy!Implements
BY LazySpec, LazyAssumption, Lazy!Refinement, PTL

==============================================================================
