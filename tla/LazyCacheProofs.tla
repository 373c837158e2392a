--------------------------- MODULE LazyCacheProofs ---------------------------
(***************************************************************************)
(* Proofs about LazyCache, for any number of handlers, any data and any    *)
(* TTL: the type invariant, the safety invariants, and that LazyCache      *)
(* implements FreshRead.                                                   *)
(***************************************************************************)
EXTENDS LazyCache, TLAPS

\* Times are ordered: nobody asks in the future, the snapshot is no younger than
\* the clock, and a refresh takes its time after its handler has asked.
TimesInOrder == /\ lastAt <= clock
                /\ \A r \in Requests : asked[r] <= clock
                /\ \A r \in Requests : pc[r] = "refresh" => asked[r] <= now[r]

\* The inductive invariant. ServedFresh alone is not inductive: that a refresh
\* leaves its own handler a fresh outcome needs TimesInOrder, and that it leaves
\* the others one needs RefreshInOrder, which rests on Exclusive.
Order == Exclusive /\ TimesInOrder /\ RefreshInOrder /\ ServedFresh

IInv == TypeOK /\ Order

-----------------------------------------------------------------------------

\* The initial state has the right types.
LEMMA InitTypeOK == Init => TypeOK
BY CacheAssumption DEF Init, TypeOK, Snaps, Placeholder, LongAgo

\* Every step keeps the types: times stay times, snapshots stay snapshots.
LEMMA NextTypeOK == TypeOK /\ [Next]_vars => TypeOK'
<1> SUFFICES ASSUME TypeOK, [Next]_vars
             PROVE  TypeOK'
  OBVIOUS
<1> USE CacheAssumption DEF TypeOK, Snaps, Placeholder, Unlocked, Unlock, LastGood
<1>1. ASSUME NEW r \in Requests, Call(r)
      PROVE  TypeOK'
  BY <1>1 DEF Call, Goto
<1>2. ASSUME NEW r \in Requests, Check(r)
      PROVE  TypeOK'
  BY <1>2 DEF Check, Goto
<1>3. ASSUME NEW r \in Requests, Enter(r)
      PROVE  TypeOK'
  <2>1. CASE Stale
    BY <1>3, <2>1 DEF Enter, StillStale, Goto
  <2>2. CASE ~Stale
    BY <1>3, <2>2 DEF Enter, StillStale, Goto
  <2> QED
    BY <2>1, <2>2
<1>4. ASSUME NEW r \in Requests, Refresh(r)
      PROVE  TypeOK'
  <2>1. PICK i \in Infos, e \in Verdicts \cup Faults : Publish(r, i, e)
    BY <1>4 DEF Refresh
  <2> QED
    BY <2>1 DEF Publish, Goto
<1>5. ASSUME NEW r \in Requests, Load(r)
      PROVE  TypeOK'
  BY <1>5 DEF Load, Goto
<1>6. CASE Tick
  BY <1>6 DEF Tick
<1>7. CASE UNCHANGED vars
  BY <1>7 DEF vars
<1> QED
  BY <1>1, <1>2, <1>3, <1>4, <1>5, <1>6, <1>7 DEF Next

\* The type invariant of the shared refresh discipline.
THEOREM TypeCorrect == Spec => []TypeOK
BY InitTypeOK, NextTypeOK, PTL DEF Spec

-----------------------------------------------------------------------------

\* No handler holds the mutex at first, and none has anything to read.
LEMMA InitIInv == Init => IInv
<1> SUFFICES ASSUME Init
             PROVE  IInv
  OBVIOUS
<1>1. TypeOK
  BY InitTypeOK
<1>2. Exclusive /\ RefreshInOrder /\ ServedFresh
  BY CacheAssumption DEF Init, Exclusive, RefreshInOrder, ServedFresh
<1>3. TimesInOrder
  BY CacheAssumption DEF Init, TimesInOrder, LongAgo
<1> QED
  BY <1>1, <1>2, <1>3 DEF IInv, Order

\* What a refresh publishes was begun a TTL after what it replaces and not
\* before its handler asked, and its last-good data is what it replaces.
LEMMA PublishedInOrder ==
  ASSUME IInv, NEW r \in Requests, pc[r] = "refresh"
  PROVE  /\ mu = r
         /\ lastAt + TTL <= now[r] /\ now[r] <= clock
         /\ asked[r] <= now[r]
         /\ prev[r] = snap
BY DEF IInv, Order, Exclusive, RefreshInOrder, TimesInOrder

\* Publishing keeps the inductive invariant: this is where all of it is needed.
LEMMA RefreshIInv ==
  ASSUME IInv, NEW r \in Requests, Refresh(r)
  PROVE  Order'
<1> USE CacheAssumption DEF IInv, Order, TypeOK
<1>1. PICK i \in Infos, e \in Verdicts \cup Faults : Publish(r, i, e)
  BY DEF Refresh, LastGood, Snaps
<1>2. /\ mu = r
      /\ lastAt + TTL <= now[r] /\ now[r] <= clock
      /\ asked[r] <= now[r]
  BY <1>1, PublishedInOrder DEF Publish
<1>3. \A q \in Requests : pc[q] = "refresh" => q = r
  BY <1>2 DEF Exclusive
<1>4. \A q \in Requests : pc'[q] # "refresh"
  BY <1>1, <1>3 DEF Publish, Goto
<1>5. Exclusive'
  BY <1>1, <1>4 DEF Publish, Unlock, Exclusive
<1>6. RefreshInOrder'
  BY <1>4 DEF RefreshInOrder
<1>7. TimesInOrder'
  BY <1>1, <1>2, <1>4 DEF Publish, TimesInOrder
<1>8. ServedFresh'
  <2> SUFFICES ASSUME NEW q \in Requests, pc'[q] = "load"
               PROVE  asked[q] < now[r] + TTL
    BY <1>1 DEF Publish, ServedFresh
  <2>1. CASE q = r
    BY <2>1, <1>2
  <2>2. CASE q # r
    <3>1. pc[q] = "load"
      BY <2>2, <1>1 DEF Publish, Goto
    <3>2. asked[q] < lastAt + TTL
      BY <3>1 DEF ServedFresh
    <3> QED
      BY <3>2, <1>2
  <2> QED
    BY <2>1, <2>2
<1> QED
  BY <1>5, <1>6, <1>7, <1>8 DEF Order

\* Every step keeps the inductive invariant.
LEMMA NextIInv == IInv /\ [Next]_vars => IInv'
<1> SUFFICES ASSUME IInv, [Next]_vars
             PROVE  IInv'
  OBVIOUS
<1>0. TypeOK'
  BY NextTypeOK DEF IInv
<1>1. ASSUME NEW r \in Requests, Call(r)
      PROVE  Order'
  BY <1>1, CacheAssumption
     DEF IInv, Order, TypeOK, Call, Goto, Exclusive, TimesInOrder, RefreshInOrder, ServedFresh
<1>2. ASSUME NEW r \in Requests, Check(r)
      PROVE  Order'
  BY <1>2, CacheAssumption
     DEF IInv, Order, TypeOK, Check, Unlocked, Stale, Goto, Exclusive, TimesInOrder, RefreshInOrder,
         ServedFresh
<1>3. ASSUME NEW r \in Requests, Enter(r)
      PROVE  Order'
  <2> USE CacheAssumption DEF IInv, Order, TypeOK, Enter, Unlocked, StillStale, Goto
  <2>1. Exclusive'
    BY <1>3 DEF Exclusive
  <2>2. TimesInOrder'
    BY <1>3 DEF TimesInOrder
  <2>3. RefreshInOrder'
    BY <1>3 DEF RefreshInOrder, Exclusive, Stale
  <2>4. ServedFresh'
    BY <1>3 DEF ServedFresh, TimesInOrder, Stale
  <2> QED
    BY <2>1, <2>2, <2>3, <2>4 DEF Order
<1>4. ASSUME NEW r \in Requests, Refresh(r)
      PROVE  Order'
  BY <1>4, RefreshIInv
<1>5. ASSUME NEW r \in Requests, Load(r)
      PROVE  Order'
  BY <1>5, CacheAssumption
     DEF IInv, Order, TypeOK, Load, Goto, Exclusive, TimesInOrder, RefreshInOrder, ServedFresh
<1>6. ASSUME Tick
      PROVE  Order'
  BY <1>6 DEF IInv, Order, TypeOK, Tick, Exclusive, TimesInOrder, RefreshInOrder, ServedFresh
<1>7. ASSUME UNCHANGED vars
      PROVE  Order'
  BY <1>7 DEF IInv, Order, vars, Exclusive, TimesInOrder, RefreshInOrder, ServedFresh
<1>8. Order'
  BY <1>1, <1>2, <1>3, <1>4, <1>5, <1>6, <1>7 DEF Next
<1> QED
  BY <1>0, <1>8 DEF IInv

\* The inductive invariant holds throughout.
LEMMA Invariance == Spec => []IInv
BY InitIInv, NextIInv, PTL DEF Spec

\* Only the holder of the mutex refreshes (collector.go:128, "defer Unlock").
THEOREM MutualExclusion == Spec => []Exclusive
<1>1. IInv => Exclusive
  BY DEF IInv, Order
<1> QED
  BY <1>1, Invariance, PTL

\* Refreshes that publish are a TTL apart and none replaces data it has not seen.
THEOREM OrderedRefreshes == Spec => []RefreshInOrder
<1>1. IInv => RefreshInOrder
  BY DEF IInv, Order
<1> QED
  BY <1>1, Invariance, PTL

\* Every handler is given the outcome of an attempt to refresh that was begun less
\* than TTL before it asked (collector.go:115-123), although it reads the snapshot
\* after it has let go of the mutex. If that attempt was a fault, its data is older.
THEOREM FreshReads == Spec => []ServedFresh
<1>1. IInv => ServedFresh
  BY DEF IInv, Order
<1> QED
  BY <1>1, Invariance, PTL

-----------------------------------------------------------------------------

\* The contract's view of the handlers' calls.
View == [r \in Requests |-> IF pc[r] = "idle" THEN -1 ELSE asked[r]]

\* The initial state is one of the contract's.
LEMMA InitImplements == Init => Contract!Init
BY CacheAssumption
   DEF Init, Placeholder, LongAgo, Contract!Init, Contract!LongAgo, Contract!Idle

\* A handler that moves from one place to another without asking or leaving is
\* out of the contract's sight.
LEMMA MovesUnseen ==
  ASSUME NEW r \in Requests, NEW l, pc[r] # "idle", l # "idle", TypeOK,
         Goto(r, l), asked' = asked
  PROVE  View' = View
BY DEF Goto, View, TypeOK

\* Every step is a step of the contract or invisible to it.
LEMMA NextImplements == IInv /\ [Next]_vars => [Contract!Next]_Contract!vars
<1> SUFFICES ASSUME IInv, [Next]_vars
             PROVE  [Contract!Next]_Contract!vars
  OBVIOUS
<1> USE DEF IInv, TypeOK
<1>1. ASSUME NEW r \in Requests, Call(r)
      PROVE  Contract!Ask(r)
  BY <1>1 DEF Call, Goto, Contract!Ask, Contract!Idle
<1>2. ASSUME NEW r \in Requests, Check(r)
      PROVE  UNCHANGED Contract!vars
  BY <1>2, MovesUnseen DEF Check, View, Contract!vars
<1>3. ASSUME NEW r \in Requests, Enter(r)
      PROVE  UNCHANGED Contract!vars
  BY <1>3, MovesUnseen DEF Enter, View, Contract!vars
<1>4. ASSUME NEW r \in Requests, Refresh(r)
      PROVE  Contract!Publish
  <2>1. PICK i \in Infos, e \in Verdicts \cup Faults :
          Publish(r, i, e) /\ (e \in Verdicts \/ i = prev[r].info)
    BY <1>4 DEF Refresh, LastGood, Snaps
  <2>2. /\ lastAt + TTL <= now[r] /\ now[r] <= clock
        /\ prev[r] = snap
    BY <2>1, PublishedInOrder DEF Publish
  <2>3. lastAt' \in (lastAt + TTL) .. clock
    BY <2>1, <2>2, CacheAssumption DEF Publish
  <2>4. \/ snap' \in [info : Infos, err : Verdicts]
        \/ \E f \in Faults : snap' = [snap EXCEPT !.err = f]
    BY <2>1, <2>2 DEF Publish, Snaps
  <2>5. View' = View
    BY <2>1, MovesUnseen DEF Publish
  <2> QED
    BY <2>1, <2>3, <2>4, <2>5 DEF Publish, View, Contract!Publish
<1>5. ASSUME NEW r \in Requests, Load(r)
      PROVE  Contract!Serve(r)
  <2>1. asked[r] < lastAt + TTL
    BY <1>5 DEF Load, Order, ServedFresh
  <2>2. View[r] = asked[r] /\ asked[r] # -1
    BY <1>5 DEF Load, View
  <2>3. View' = [View EXCEPT ![r] = -1]
    BY <1>5 DEF Load, Goto, View
  <2>4. UNCHANGED <<clock, lastAt, snap>>
    BY <1>5 DEF Load
  <2> QED
    BY <2>1, <2>2, <2>3, <2>4 DEF View, Contract!Serve, Contract!Idle
<1>6. ASSUME Tick
      PROVE  Contract!Tick
  BY <1>6 DEF Tick, Contract!Tick
<1>7. ASSUME UNCHANGED vars
      PROVE  UNCHANGED Contract!vars
  BY <1>7 DEF vars, Contract!vars
<1> QED
  BY <1>1, <1>2, <1>3, <1>4, <1>5, <1>6, <1>7 DEF Next, Contract!Next

\* With the mutex, the two staleness tests and the locals hidden, the refresh
\* discipline does what FreshRead promises.
THEOREM Refinement == Spec => Implements
BY InitImplements, NextImplements, Invariance, PTL
   DEF Spec, Implements, Contract!Spec

==============================================================================
