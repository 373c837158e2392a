------------------------------ MODULE WanProofs ------------------------------
(***************************************************************************)
(* Proofs about WanCollector, for any number of handlers, any links and    *)
(* addresses and any times: its types, that its refreshes keep LazyCache's *)
(* discipline, how long they hold the mutex and what they show of a link   *)
(* that is down.                                                           *)
(***************************************************************************)
EXTENDS WanCollector, TLAPS

\* The ways a refresh can go on: it ends with a verdict of its own or with a fault
\* and the data it replaces, it begins its commands, or it goes from one to the next.
Ends(r) == \/ \E i \in Infos, e \in Verdicts : Collector!Store(r, i, e)
           \/ \E e \in Faults : Collector!Store(r, prev[r].info, e)

Begins(r) == /\ step[r] = "exists"
             /\ Collector!Goto(r, "iw")
             /\ deadline' = [deadline EXCEPT ![r] = clock + ExecTimeout]
             /\ UNCHANGED <<Collector!cacheVars, gone, found>>

GoesOn(r) == \E i \in Infos, s \in Commands : /\ step[r] \in Commands
                                              /\ Collector!Proceed(r, i, s)

-----------------------------------------------------------------------------

\* What the parsers can return is data of the right type.
LEMMA LinkInfo ==
  ASSUME NEW l \in Links \cup {Unset}, NEW s \in BOOLEAN
  PROVE  [Blank EXCEPT !.present = TRUE, !.supplicant = s, !.link = l] \in Infos
BY DEF Blank, Infos

\* Whatever the commands print and whichever fails, a refresh goes on in one of these
\* ways.
LEMMA RefreshForms ==
  ASSUME TypeOK, NEW r \in Requests, Refresh(r)
  PROVE  Ends(r) \/ Begins(r) \/ GoesOn(r)
<1>1. found[r] \in Infos
  BY DEF TypeOK, Collector!TypeOK
<1>2. Blank \in Infos
  BY DEF Blank, Infos
<1>3. CASE Collector!Exists(r)
  BY <1>2, <1>3 DEF Collector!Exists, Ends, Begins, Verdicts
<1>4. CASE IwLink(r)
  <2>1. CASE Fails(r, "iw")
    BY <2>1 DEF Fails, Ends, Faults
  <2>2. ASSUME NEW l \in Links \cup {Unset}, NEW s \in BOOLEAN,
               NEW i, i = [Blank EXCEPT !.present = TRUE, !.supplicant = s, !.link = l],
               \/ Collector!Store(r, i, "nil")
               \/ Collector!Proceed(r, i, "addr")
        PROVE  Ends(r) \/ GoesOn(r)
    BY <1>4, <2>2, LinkInfo DEF IwLink, Ends, GoesOn, Verdicts, Commands
  <2> QED
    BY <1>4, <2>1, <2>2 DEF IwLink
<1>5. CASE IpAddr(r)
  <2>1. CASE Fails(r, "ip addr")
    BY <2>1 DEF Fails, Ends, Faults
  <2>2. ASSUME NEW a \in Addrs \cup {Unset},
               Collector!Proceed(r, [found[r] EXCEPT !.ip = a], "route")
        PROVE  GoesOn(r)
    <3>1. [found[r] EXCEPT !.ip = a] \in Infos
      BY <1>1 DEF Infos
    <3> QED
      BY <1>5, <2>2, <3>1 DEF IpAddr, GoesOn, Commands
  <2> QED
    BY <1>5, <2>1, <2>2 DEF IpAddr
<1>6. CASE IpRoute(r)
  <2>1. CASE Fails(r, "ip route")
    BY <2>1 DEF Fails, Ends, Faults
  <2>2. ASSUME NEW a \in Addrs \cup {Unset},
               Collector!Store(r, [found[r] EXCEPT !.gateway = a], "nil")
        PROVE  Ends(r)
    <3>1. [found[r] EXCEPT !.gateway = a] \in Infos
      BY <1>1 DEF Infos
    <3> QED
      BY <2>2, <3>1 DEF Ends, Verdicts
  <2> QED
    BY <1>6, <2>1, <2>2 DEF IpRoute
<1> QED
  BY <1>3, <1>4, <1>5, <1>6 DEF Refresh

-----------------------------------------------------------------------------

\* The initial state has the right types.
LEMMA InitTypeOK == Init => TypeOK
BY WanAssumption
   DEF Init, TypeOK, Blank, Infos, Verdicts, Collector!Init, Collector!TypeOK,
       Collector!Cache!Init, Collector!Cache!TypeOK, Collector!Cache!Snaps,
       Collector!Cache!Placeholder, Collector!Cache!LongAgo

\* A snapshot of data and an outcome leaves the types as they are.
LEMMA StoreTypeOK ==
  ASSUME TypeOK, NEW r \in Requests, NEW i \in Infos, NEW e \in Verdicts \cup Faults,
         Collector!Store(r, i, e)
  PROVE  TypeOK'
<1>1. [info |-> Blank, err |-> "nil"] \in Collector!Cache!Snaps
  BY DEF Blank, Infos, Verdicts, Collector!Cache!Snaps
<1>2. [info |-> i, err |-> e] \in Collector!Cache!Snaps
  BY DEF Collector!Cache!Snaps
<1>3. Collector!Cache!TypeOK'
  BY <1>1, <1>2
     DEF TypeOK, Collector!TypeOK, Collector!Cache!TypeOK, Collector!Store,
         Collector!Cache!Publish, Collector!Cache!Goto, Collector!Cache!Unlock,
         Collector!Cache!Placeholder
<1>4. Blank \in Infos
  BY DEF Blank, Infos
<1> QED
  BY <1>3, <1>4
     DEF TypeOK, Collector!TypeOK, Collector!Store, Collector!Goto

\* Every step keeps the types.
LEMMA NextTypeOK == TypeOK /\ [Next]_vars => TypeOK'
<1> SUFFICES ASSUME TypeOK, [Next]_vars
             PROVE  TypeOK'
  OBVIOUS
<1> USE WanAssumption DEF TypeOK, Collector!TypeOK, Collector!Cache!TypeOK
<1>1. ASSUME NEW r \in Requests, Collector!Call(r)
      PROVE  TypeOK'
  BY <1>1 DEF Collector!Call, Collector!Cache!Call, Collector!Cache!Goto, Collector!local
<1>2. ASSUME NEW r \in Requests, Collector!Check(r)
      PROVE  TypeOK'
  BY <1>2 DEF Collector!Check, Collector!Cache!Check, Collector!Cache!Goto, Collector!local
<1>3. ASSUME NEW r \in Requests, Collector!Enter(r)
      PROVE  TypeOK'
  <2>1. Collector!Cache!TypeOK'
    BY <1>3 DEF Collector!Enter, Collector!Cache!Enter, Collector!Cache!Goto
  <2> QED
    BY <1>3, <2>1 DEF Collector!Enter, Collector!Goto
<1>4. ASSUME NEW r \in Requests, Collector!Load(r)
      PROVE  TypeOK'
  BY <1>4 DEF Collector!Load, Collector!Cache!Load, Collector!Cache!Goto
<1>5. ASSUME NEW r \in Requests, Collector!HangUp(r)
      PROVE  TypeOK'
  BY <1>5 DEF Collector!HangUp, Collector!cacheVars
<1>6. ASSUME NEW r \in Requests, Refresh(r)
      PROVE  TypeOK'
  <2>1. CASE Ends(r)
    <3>1. prev[r].info \in Infos
      BY DEF Collector!Cache!Snaps
    <3> QED
      BY <2>1, <3>1, StoreTypeOK DEF Ends
  <2>2. CASE Begins(r)
    BY <2>2 DEF Begins, Collector!Goto, Collector!cacheVars, Commands
  <2>3. CASE GoesOn(r)
    BY <2>3 DEF GoesOn, Collector!Proceed, Collector!Goto, Collector!cacheVars
  <2> QED
    BY <1>6, <2>1, <2>2, <2>3, RefreshForms
<1>7. CASE Collector!Tick
  BY <1>7 DEF Collector!Tick, Collector!Cache!Tick, Collector!local
<1>8. CASE UNCHANGED vars
  BY <1>8 DEF vars
<1> QED
  BY <1>1, <1>2, <1>3, <1>4, <1>5, <1>6, <1>7, <1>8 DEF Next

\* The type invariant of the WAN collector and of the cache inside it.
THEOREM TypeCorrect == Spec => []TypeOK
BY InitTypeOK, NextTypeOK, PTL DEF Spec

-----------------------------------------------------------------------------

\* Every step of the collector is one of LazyCache, or one that LazyCache does
\* not see: a command that begins or ends, and a client that disconnects.
LEMMA NextKeepsDiscipline ==
  TypeOK /\ [Next]_vars => [Collector!Cache!Next]_Collector!Cache!vars
<1> SUFFICES ASSUME TypeOK, [Next]_vars
             PROVE  [Collector!Cache!Next]_Collector!Cache!vars
  OBVIOUS
<1>1. ASSUME NEW r \in Requests,
             \/ Collector!Call(r) \/ Collector!Check(r)
             \/ Collector!Enter(r) \/ Collector!Load(r)
      PROVE  Collector!Cache!Next
  BY <1>1 DEF Collector!Call, Collector!Check, Collector!Enter, Collector!Load,
              Collector!Cache!Next
<1>2. ASSUME NEW r \in Requests, Collector!HangUp(r)
      PROVE  UNCHANGED Collector!Cache!vars
  BY <1>2 DEF Collector!HangUp, Collector!cacheVars, Collector!Cache!vars
<1>3. ASSUME NEW r \in Requests, Ends(r)
      PROVE  Collector!Cache!Refresh(r)
  BY <1>3 DEF Ends, Collector!Store, Collector!Cache!Refresh, Collector!Cache!LastGood
<1>4. ASSUME NEW r \in Requests, Begins(r) \/ GoesOn(r)
      PROVE  UNCHANGED Collector!Cache!vars
  BY <1>4 DEF Begins, GoesOn, Collector!Proceed, Collector!cacheVars, Collector!Cache!vars
<1>5. CASE Collector!Tick
  BY <1>5 DEF Collector!Tick, Collector!Cache!Next
<1>6. CASE UNCHANGED vars
  BY <1>6 DEF vars, Collector!Cache!vars
<1> QED
  BY <1>1, <1>2, <1>3, <1>4, <1>5, <1>6, RefreshForms DEF Next, Collector!Cache!Next

\* The commands of a refresh, whichever fail, are hidden behind LazyCache's
\* discipline (collector.go:127, refresh).
THEOREM Discipline == Spec => KeepsDiscipline
<1>1. Init => Collector!Cache!Init
  BY DEF Init, Collector!Init
<1> QED
  BY <1>1, NextKeepsDiscipline, TypeCorrect, PTL
     DEF Spec, KeepsDiscipline, Collector!Cache!Spec

-----------------------------------------------------------------------------

\* What is proved about LazyCache holds of the collector's cache.
Lazy == INSTANCE LazyCacheProofs WITH NoErr <- "nil"

\* The collector's data and outcomes are as LazyCache assumes.
LEMMA LazyAssumption == Lazy!CacheAssumption
BY WanAssumption DEF Lazy!CacheAssumption, Infos, Blank, Verdicts

\* LazyCacheProofs has the initial states and the steps of the cache.
LEMMA SameCache == /\ Collector!Cache!Init => Lazy!Init
                   /\ [Collector!Cache!Next]_Collector!Cache!vars => [Lazy!Next]_Lazy!vars
<1>1. Collector!Cache!Init => Lazy!Init
  BY DEF Collector!Cache!Init, Collector!Cache!Placeholder, Collector!Cache!LongAgo,
         Lazy!Init, Lazy!Placeholder, Lazy!LongAgo
<1>2. [Collector!Cache!Next]_Collector!Cache!vars => [Lazy!Next]_Lazy!vars
  BY DEF Collector!Cache!vars, Collector!Cache!Next, Collector!Cache!Call,
         Collector!Cache!Check, Collector!Cache!Enter, Collector!Cache!Refresh,
         Collector!Cache!Load, Collector!Cache!Tick, Collector!Cache!Goto,
         Collector!Cache!Publish, Collector!Cache!Unlocked, Collector!Cache!Unlock,
         Collector!Cache!Stale, Collector!Cache!StillStale, Collector!Cache!LastGood,
         Collector!Cache!Placeholder,
         Lazy!vars, Lazy!Next, Lazy!Call, Lazy!Check, Lazy!Enter, Lazy!Refresh, Lazy!Load,
         Lazy!Tick, Lazy!Goto, Lazy!Publish, Lazy!Unlocked, Lazy!Unlock, Lazy!Stale,
         Lazy!StillStale, Lazy!LastGood, Lazy!Placeholder
<1> QED
  BY <1>1, <1>2

\* A behaviour of the collector is one of LazyCache, as LazyCacheProofs has it.
LEMMA LazySpec == Spec => Lazy!Spec
BY Discipline, SameCache, PTL DEF KeepsDiscipline, Collector!Cache!Spec, Lazy!Spec

\* What handlers read of the upstream link is the outcome of an attempt to refresh
\* that was begun less than TTL before they asked, be it a success or a fault, which
\* says so and comes with older data.
THEOREM FreshReads == Spec => []Lazy!ServedFresh
BY LazySpec, LazyAssumption, Lazy!FreshReads, PTL

\* With its commands, its mutex and its two tests hidden, the collector does what
\* FreshRead promises.
THEOREM ImplementsFreshRead == Spec => Lazy!Implements
BY LazySpec, LazyAssumption, Lazy!Refinement, PTL

-----------------------------------------------------------------------------

\* The handler with the mutex is at a step of the refresh, and its commands end
\* ExecTimeout after it took the time, for no time passes before the first begins.
Held == \A r \in Requests :
          /\ pc[r] = "refresh" <=> mu = r
          /\ step[r] # "none" <=> mu = r
          /\ step[r] = "exists" => now[r] = clock
          /\ step[r] \in Commands => /\ deadline[r] = now[r] + ExecTimeout
                                     /\ clock <= deadline[r]

\* HeldBriefly with what it takes to be inductive.
HeldInv == TypeOK /\ Held

\* Every step of a handler keeps Held, for itself and for the others.
LEMMA NextHeld == HeldInv /\ [Next]_vars => HeldInv'
<1> SUFFICES ASSUME TypeOK, Held, [Next]_vars
             PROVE  Held'
  BY NextTypeOK DEF HeldInv
<1> USE WanAssumption
    DEF TypeOK, Collector!TypeOK, Collector!Cache!TypeOK, Collector!Cache!Goto, Held, Commands
<1>1. ASSUME NEW r \in Requests, Collector!Call(r)
      PROVE  Held'
  BY <1>1 DEF Collector!Call, Collector!Cache!Call, Collector!local
<1>2. ASSUME NEW r \in Requests, Collector!Check(r)
      PROVE  Held'
  BY <1>2 DEF Collector!Check, Collector!Cache!Check, Collector!local
<1>3. ASSUME NEW r \in Requests, Collector!Enter(r)
      PROVE  Held'
  BY <1>3 DEF Collector!Enter, Collector!Cache!Enter, Collector!Cache!Unlocked, Collector!Goto
<1>4. ASSUME NEW r \in Requests, Collector!Load(r)
      PROVE  Held'
  BY <1>4 DEF Collector!Load, Collector!Cache!Load
<1>5. ASSUME NEW r \in Requests, Collector!HangUp(r)
      PROVE  Held'
  BY <1>5 DEF Collector!HangUp, Collector!cacheVars
<1>6. ASSUME NEW r \in Requests, Refresh(r)
      PROVE  Held'
  <2>1. CASE Ends(r)
    <3>1. PICK i, e : Collector!Store(r, i, e)
      BY <2>1 DEF Ends
    <3> QED
      BY <3>1 DEF Collector!Store, Collector!Cache!Publish, Collector!Cache!Unlock,
                  Collector!Goto
  <2>2. CASE Begins(r)
    BY <2>2 DEF Begins, Collector!Goto, Collector!cacheVars
  <2>3. CASE GoesOn(r)
    BY <2>3 DEF GoesOn, Collector!Proceed, Collector!Goto, Collector!cacheVars
  <2> QED
    BY <1>6, <2>1, <2>2, <2>3, RefreshForms
<1>7. CASE Collector!Tick
  BY <1>7 DEF Collector!Tick, Collector!Cache!Tick, Collector!local
<1>8. CASE UNCHANGED vars
  BY <1>8 DEF vars
<1> QED
  BY <1>1, <1>2, <1>3, <1>4, <1>5, <1>6, <1>7, <1>8 DEF Next

\* A refresh holds the mutex for one ExecTimeout at most, with any number of
\* commands that hang (collector.go:160).
THEOREM MutexHeldBriefly == Spec => []HeldBriefly
<1>1. Init => HeldInv
  BY InitTypeOK, WanAssumption
     DEF HeldInv, Held, Init, Commands, Collector!Init, Collector!Cache!Init
<1>2. HeldInv => HeldBriefly
  BY WanAssumption
     DEF HeldInv, Held, HeldBriefly, TypeOK, Collector!TypeOK, Collector!Cache!TypeOK, Commands
<1> QED
  BY <1>1, <1>2, NextHeld, PTL DEF Spec

-----------------------------------------------------------------------------

BlankIfDown(info) == info.link = Unset => info.ip = Unset /\ info.gateway = Unset

\* The snapshot shows no addresses without a link, nor does any snapshot that a
\* refresh may fall back on, and a refresh that looks up addresses has a link.
Shown == /\ BlankIfDown(snap.info)
         /\ \A r \in Requests : /\ BlankIfDown(prev[r].info)
                                /\ step[r] \in {"addr", "route"} => found[r].link # Unset

\* DisconnectedIsBlank with what it takes to be inductive.
ShownInv == TypeOK /\ Shown

\* What a refresh has found so far is shown blank where it must be.
LEMMA StoreShown ==
  ASSUME ShownInv, NEW r \in Requests, NEW i \in Infos, NEW e,
         BlankIfDown(i), Collector!Store(r, i, e)
  PROVE  Shown'
<1>1. BlankIfDown(Blank)
  BY DEF BlankIfDown, Blank
<1>2. snap' = [info |-> i, err |-> e]
  BY DEF Collector!Store, Collector!Cache!Publish
<1>3. prev' = [prev EXCEPT ![r] = [info |-> Blank, err |-> "nil"]]
  BY DEF Collector!Store, Collector!Cache!Publish, Collector!Cache!Placeholder
<1>4. /\ found' = [found EXCEPT ![r] = Blank]
      /\ step' = [step EXCEPT ![r] = "none"]
  BY DEF Collector!Store, Collector!Goto
<1>5. \A q \in Requests : BlankIfDown(prev'[q].info)
  BY <1>1, <1>3 DEF ShownInv, Shown, TypeOK, Collector!TypeOK, Collector!Cache!TypeOK
<1>6. \A q \in Requests : step'[q] \in {"addr", "route"} => found'[q].link # Unset
  BY <1>4 DEF ShownInv, Shown, TypeOK, Collector!TypeOK
<1> QED
  BY <1>2, <1>5, <1>6 DEF Shown, BlankIfDown

\* Every step keeps Shown: only what IwLink stores is without a link, and that is
\* otherwise blank.
LEMMA NextShown == ShownInv /\ [Next]_vars => ShownInv'
<1> SUFFICES ASSUME ShownInv, [Next]_vars
             PROVE  Shown'
  BY NextTypeOK DEF ShownInv
<1> USE DEF ShownInv, TypeOK, Collector!TypeOK, Collector!Cache!TypeOK
<1>1. ASSUME NEW r \in Requests, Collector!Call(r) \/ Collector!Check(r)
      PROVE  Shown'
  BY <1>1 DEF Collector!Call, Collector!Cache!Call, Collector!Check, Collector!Cache!Check,
              Collector!local, Shown
<1>2. ASSUME NEW r \in Requests, Collector!Enter(r)
      PROVE  Shown'
  <2>1. \A q \in Requests : BlankIfDown(prev'[q].info)
    BY <1>2 DEF Collector!Enter, Collector!Cache!Enter, Shown
  <2>2. UNCHANGED <<snap, found>> /\ step' \in [Requests -> Commands \cup {"none", "exists"}]
    BY <1>2 DEF Collector!Enter, Collector!Cache!Enter, Collector!Goto
  <2>3. \A q \in Requests : step'[q] \in {"addr", "route"} => step'[q] = step[q]
    BY <1>2 DEF Collector!Enter, Collector!Goto
  <2> QED
    BY <2>1, <2>2, <2>3 DEF Shown
<1>3. ASSUME NEW r \in Requests, Collector!Load(r) \/ Collector!HangUp(r)
      PROVE  Shown'
  BY <1>3 DEF Collector!Load, Collector!Cache!Load, Collector!HangUp, Collector!cacheVars, Shown
<1>4. ASSUME NEW r \in Requests, Collector!Exists(r)
      PROVE  Shown'
  <2>1. CASE Collector!Store(r, Blank, "absent")
    BY <2>1, StoreShown DEF Blank, Infos, BlankIfDown
  <2>2. CASE ~Collector!Store(r, Blank, "absent")
    BY <1>4, <2>2 DEF Collector!Exists, Collector!Goto, Collector!cacheVars, Shown
  <2> QED
    BY <2>1, <2>2
<1>5. ASSUME NEW r \in Requests, NEW e, Fails(r, e)
      PROVE  Shown'
  BY <1>5, StoreShown DEF Fails, Shown, Collector!Cache!Snaps
<1>6. ASSUME NEW r \in Requests, IwLink(r)
      PROVE  Shown'
  <2>1. ASSUME NEW l \in Links \cup {Unset}, NEW s \in BOOLEAN,
               NEW i, i = [Blank EXCEPT !.present = TRUE, !.supplicant = s, !.link = l],
               \/ l = Unset /\ Collector!Store(r, i, "nil")
               \/ l # Unset /\ Collector!Proceed(r, i, "addr")
        PROVE  Shown'
    <3>1. i \in Infos
      BY <2>1, LinkInfo
    <3>2. BlankIfDown(i) /\ i.link = l
      BY <2>1 DEF BlankIfDown, Blank
    <3>3. CASE Collector!Store(r, i, "nil")
      BY <3>1, <3>2, <3>3, StoreShown
    <3>4. CASE l # Unset /\ Collector!Proceed(r, i, "addr")
      BY <3>2, <3>4 DEF Collector!Proceed, Collector!Goto, Collector!cacheVars, Shown
    <3> QED
      BY <2>1, <3>3, <3>4
  <2> QED
    BY <1>5, <1>6, <2>1 DEF IwLink
<1>7. ASSUME NEW r \in Requests, IpAddr(r)
      PROVE  Shown'
  <2>1. ASSUME NEW a \in Addrs \cup {Unset},
               Collector!Proceed(r, [found[r] EXCEPT !.ip = a], "route")
        PROVE  Shown'
    <3>1. [found[r] EXCEPT !.ip = a].link # Unset
      BY <1>7 DEF IpAddr, Shown, Infos
    <3> QED
      BY <2>1, <3>1 DEF Collector!Proceed, Collector!Goto, Collector!cacheVars, Shown
  <2> QED
    BY <1>5, <1>7, <2>1 DEF IpAddr
<1>8. ASSUME NEW r \in Requests, IpRoute(r)
      PROVE  Shown'
  <2>1. ASSUME NEW a \in Addrs \cup {Unset},
               Collector!Store(r, [found[r] EXCEPT !.gateway = a], "nil")
        PROVE  Shown'
    <3>1. [found[r] EXCEPT !.gateway = a] \in Infos
      BY DEF Infos
    <3>2. [found[r] EXCEPT !.gateway = a].link # Unset
      BY <1>8 DEF IpRoute, Shown, Infos
    <3> QED
      BY <2>1, <3>1, <3>2, StoreShown DEF BlankIfDown
  <2> QED
    BY <1>5, <1>8, <2>1 DEF IpRoute
<1>9. CASE Collector!Tick
  BY <1>9 DEF Collector!Tick, Collector!Cache!Tick, Collector!local, Shown
<1>10. CASE UNCHANGED vars
  BY <1>10 DEF vars, Shown
<1> QED
  BY <1>1, <1>2, <1>3, <1>4, <1>6, <1>7, <1>8, <1>9, <1>10 DEF Next, Refresh

\* A link that is down is shown without addresses, whatever failed before
\* (ssid.go:20).
THEOREM NothingOfAnEarlierLink == Spec => []DisconnectedIsBlank
<1>1. Init => ShownInv
  BY InitTypeOK
     DEF ShownInv, Shown, BlankIfDown, Init, Blank, Collector!Init, Collector!Cache!Init,
         Collector!Cache!Placeholder
<1>2. ShownInv => DisconnectedIsBlank
  BY DEF ShownInv, Shown, BlankIfDown, DisconnectedIsBlank
<1> QED
  BY <1>1, <1>2, NextShown, PTL DEF Spec

==============================================================================
