--------------------------- MODULE SamplersProofs ----------------------------
(***************************************************************************)
(* Theorems about the two samplers that run in the background.             *)
(***************************************************************************)
EXTENDS Netstats, System, FiniteSetTheorems, WellFoundedInduction, TLAPS

(***************************************************************************)
(* The throughput sampler, for any interfaces, any width of the counters and *)
(* any amount of traffic between two samples.                              *)
(***************************************************************************)

\* A counter's value stays within its width and does not exceed what was added up;
\* it is exact when that does not wrap around.
LEMMA Wrapped ==
  ASSUME NEW n \in Nat
  PROVE  /\ n % Width \in Counters
         /\ n % Width <= n
         /\ n < Width => n % Width = n
BY NetstatsAssumption DEF Counters

\* The last sample that was read: tick's own until it is published.
LastRead(i) == IF pc = "publish" THEN cur[i] ELSE prev[i]

\* Since the last sample a counter has grown by no more than was carried, and by
\* just that while it is intact.
Accounted == \A i \in Ifaces :
  /\ dev[i] # Gone /\ LastRead(i) # Gone => dev[i] <= LastRead(i) + moved[i]
  /\ intact[i] => dev[i] # Gone /\ LastRead(i) # Gone /\ dev[i] = LastRead(i) + moved[i]

\* The same of the two samples that tick compares.
Compared == pc = "publish" =>
  \A i \in Ifaces :
    /\ cur[i] # Gone /\ prev[i] # Gone => cur[i] <= prev[i] + real[i].bytes
    /\ real[i].exact => /\ cur[i] # Gone /\ prev[i] # Gone
                        /\ cur[i] = prev[i] + real[i].bytes

\* The inductive invariant: what is published is what Compared says, and that is
\* what Accounted says when tick reads.
IInv == TypeOK /\ Accounted /\ Compared /\ NeverOverstated /\ ExactWhenIntact

-----------------------------------------------------------------------------

\* Traffic is accounted for, across any number of wrap-arounds.
LEMMA CarryIInv ==
  ASSUME IInv, NEW i \in Ifaces, Carry(i)
  PROVE  IInv'
<1>1. PICK n \in 1 .. MaxMoved - moved[i] :
        /\ dev' = [dev EXCEPT ![i] = (@ + n) % Width]
        /\ moved' = [moved EXCEPT ![i] = @ + n]
        /\ intact' = [intact EXCEPT ![i] = @ /\ dev[i] + n < Width]
  BY DEF Carry
<1>2. /\ dev[i] \in Counters /\ dev[i] # Gone
      /\ n \in Nat /\ moved[i] \in Nat
  BY NetstatsAssumption DEF Carry, IInv, TypeOK, Samples
<1>3. /\ (dev[i] + n) % Width \in Counters
      /\ (dev[i] + n) % Width <= dev[i] + n
      /\ dev[i] + n < Width => (dev[i] + n) % Width = dev[i] + n
  <2>1. dev[i] + n \in Nat
    BY <1>2, NetstatsAssumption DEF Counters
  <2> QED
    BY <2>1, Wrapped
<1>4. UNCHANGED <<pc, cur, prev, snap, real>>
  BY DEF Carry
<1>5. TypeOK'
  <2>1. dev' \in Samples
    BY <1>1, <1>3 DEF IInv, TypeOK, Samples
  <2>2. moved' \in [Ifaces -> Nat]
    BY <1>1, <1>2 DEF IInv, TypeOK
  <2>3. intact' \in [Ifaces -> BOOLEAN]
    BY <1>1 DEF IInv, TypeOK
  <2> QED
    BY <1>4, <2>1, <2>2, <2>3 DEF IInv, TypeOK
<1>6. Accounted'
  <2> SUFFICES ASSUME NEW j \in Ifaces
               PROVE  /\ dev'[j] # Gone /\ LastRead(j) # Gone => dev'[j] <= LastRead(j) + moved'[j]
                      /\ intact'[j] => /\ dev'[j] # Gone /\ LastRead(j) # Gone
                                       /\ dev'[j] = LastRead(j) + moved'[j]
    BY <1>4 DEF Accounted, LastRead
  <2>1. CASE j # i
    BY <1>1, <2>1 DEF IInv, TypeOK, Samples, Accounted
  <2>2. CASE j = i
    <3>1. /\ dev'[i] = (dev[i] + n) % Width
          /\ moved'[i] = moved[i] + n
          /\ intact'[i] = (intact[i] /\ dev[i] + n < Width)
      BY <1>1 DEF IInv, TypeOK, Samples
    <3>2. dev'[i] # Gone
      BY <3>1, <1>3, NetstatsAssumption DEF Counters
    <3>3. LastRead(i) # Gone => LastRead(i) \in Counters
      BY DEF LastRead, IInv, TypeOK, Samples
    <3>4. LastRead(i) # Gone => dev'[i] <= LastRead(i) + moved'[i]
      BY <1>2, <1>3, <3>1, <3>3, NetstatsAssumption DEF IInv, Accounted, Counters
    <3>5. intact'[i] => LastRead(i) # Gone /\ dev'[i] = LastRead(i) + moved'[i]
      <4> SUFFICES ASSUME intact'[i]
                   PROVE  LastRead(i) # Gone /\ dev'[i] = LastRead(i) + moved'[i]
        OBVIOUS
      <4>1. intact[i] /\ dev[i] + n < Width
        BY <3>1
      <4>2. LastRead(i) # Gone /\ dev[i] = LastRead(i) + moved[i]
        BY <4>1 DEF IInv, Accounted
      <4> QED
        BY <1>2, <1>3, <3>1, <3>3, <4>1, <4>2, NetstatsAssumption DEF Counters
    <3> QED
      BY <2>2, <3>2, <3>4, <3>5
  <2> QED
    BY <2>1, <2>2
<1> QED
  BY <1>4, <1>5, <1>6 DEF IInv, Compared, NeverOverstated, ExactWhenIntact

\* An interface that goes away, or comes back from zero, has grown by nothing.
LEMMA PlugIInv ==
  ASSUME IInv, NEW i \in Ifaces, Vanish(i) \/ Appear(i)
  PROVE  IInv'
<1>1. UNCHANGED <<pc, cur, prev, snap, moved, real>>
  BY DEF Vanish, Appear
<1>2. TypeOK'
  <2>1. 0 \in Counters
    BY NetstatsAssumption DEF Counters
  <2> QED
    BY <1>1, <2>1 DEF Vanish, Appear, IInv, TypeOK, Samples
<1>3. Accounted'
  <2> SUFFICES ASSUME NEW j \in Ifaces
               PROVE  /\ dev'[j] # Gone /\ LastRead(j) # Gone => dev'[j] <= LastRead(j) + moved[j]
                      /\ intact'[j] => /\ dev'[j] # Gone /\ LastRead(j) # Gone
                                       /\ dev'[j] = LastRead(j) + moved[j]
    BY <1>1 DEF Accounted, LastRead
  <2>1. LastRead(j) # Gone => LastRead(j) \in Nat
    BY NetstatsAssumption DEF LastRead, IInv, TypeOK, Samples, Counters
  <2>2. moved[j] \in Nat
    BY DEF IInv, TypeOK
  <2>3. CASE j # i
    BY <2>3 DEF IInv, TypeOK, Samples, Accounted, Vanish, Appear
  <2>4. CASE j = i /\ Vanish(i)
    BY <2>4 DEF IInv, TypeOK, Samples, Vanish
  <2>5. CASE j = i /\ Appear(i)
    <3>1. dev'[i] = 0 /\ ~intact'[i]
      BY <2>5 DEF IInv, TypeOK, Samples, Accounted, Appear
    <3> QED
      BY <2>1, <2>2, <2>5, <3>1
  <2> QED
    BY <2>3, <2>4, <2>5
<1> QED
  BY <1>1, <1>2, <1>3 DEF IInv, Compared, NeverOverstated, ExactWhenIntact

\* Reading a sample settles the account of the one before.
LEMMA ReadIInv == IInv /\ Read => IInv'
<1> SUFFICES ASSUME IInv, Read
             PROVE  IInv'
  OBVIOUS
<1> USE DEF Read
<1>0. PICK lost \in SUBSET Ifaces :
        cur' = [i \in Ifaces |-> IF i \in lost THEN Gone ELSE dev[i]]
  OBVIOUS
<1>1. cur' \in Samples
  BY <1>0 DEF IInv, TypeOK, Samples
<1>2. TypeOK'
  <2>1. real' \in [Ifaces -> [bytes : Nat, exact : BOOLEAN]]
    BY DEF IInv, TypeOK
  <2>2. moved' \in [Ifaces -> Nat] /\ intact' \in [Ifaces -> BOOLEAN]
    OBVIOUS
  <2> QED
    BY <1>1, <2>1, <2>2 DEF IInv, TypeOK
<1>3. Accounted'
  <2> SUFFICES ASSUME NEW i \in Ifaces
               PROVE  /\ dev[i] # Gone /\ cur'[i] # Gone => dev[i] <= cur'[i] + 0
                      /\ cur'[i] # Gone => dev[i] # Gone /\ dev[i] = cur'[i] + 0
    BY DEF Accounted, LastRead
  <2>1. cur'[i] # Gone => cur'[i] = dev[i]
    BY <1>0
  <2>2. dev[i] # Gone => dev[i] \in Int
    BY DEF IInv, TypeOK, Samples, Counters
  <2> QED
    BY <2>1, <2>2
<1>4. Compared'
  <2> SUFFICES ASSUME NEW i \in Ifaces
               PROVE  /\ cur'[i] # Gone /\ prev[i] # Gone => cur'[i] <= prev[i] + moved[i]
                      /\ intact[i] /\ cur'[i] # Gone
                           => prev[i] # Gone /\ cur'[i] = prev[i] + moved[i]
    BY DEF Compared
  <2>1. cur'[i] # Gone => cur'[i] = dev[i]
    BY <1>0
  <2>2. LastRead(i) = prev[i]
    BY DEF LastRead
  <2> QED
    BY <2>1, <2>2 DEF IInv, Accounted
<1> QED
  BY <1>2, <1>3, <1>4 DEF IInv, NeverOverstated, ExactWhenIntact

\* A rate is what the two samples differ by, and no number of bytes is negative.
LEMMA PublishIInv == IInv /\ Publish => IInv'
<1> SUFFICES ASSUME IInv, Publish
             PROVE  IInv'
  OBVIOUS
<1>1. /\ pc = "publish" /\ pc' = "wait"
      /\ prev' = cur /\ cur' = Absent
      /\ UNCHANGED <<dev, moved, intact, real>>
  BY DEF Publish
<1>2. ASSUME NEW i \in Ifaces
      PROVE  /\ Rate(i) \in Counters
             /\ Rate(i) <= real[i].bytes
             /\ real[i].exact => Rate(i) = real[i].bytes
  <2>1. real[i].bytes \in Nat
    BY DEF IInv, TypeOK
  <2>2. CASE cur[i] # Gone /\ prev[i] # Gone
    <3>1. cur[i] \in Counters /\ prev[i] \in Counters
      BY <2>2 DEF IInv, TypeOK, Samples
    <3>2. Rate(i) = IF cur[i] < prev[i] THEN 0 ELSE cur[i] - prev[i]
      BY <2>2 DEF Rate, ComputeMbps
    <3>3. /\ cur[i] <= prev[i] + real[i].bytes
          /\ real[i].exact => cur[i] = prev[i] + real[i].bytes
      BY <1>1, <2>2 DEF IInv, Compared
    <3> QED
      BY <2>1, <3>1, <3>2, <3>3, NetstatsAssumption DEF Counters
  <2>3. CASE ~(cur[i] # Gone /\ prev[i] # Gone)
    <3>1. Rate(i) = 0
      BY <2>3 DEF Rate
    <3>2. ~real[i].exact
      BY <1>1, <2>3 DEF IInv, Compared
    <3> QED
      BY <2>1, <3>1, <3>2, NetstatsAssumption DEF Counters
  <2> QED
    BY <2>2, <2>3
<1>3. PICK up \in [Ifaces -> BOOLEAN] :
        snap' = [i \in Ifaces |-> [up |-> up[i], rate |-> Rate(i), total |-> Total(cur[i])]]
  BY DEF Publish
<1>4. TypeOK'
  <2>1. \A i \in Ifaces : Total(cur[i]) \in Counters
    BY NetstatsAssumption DEF Total, IInv, TypeOK, Samples, Counters
  <2>2. snap' \in [Ifaces -> Stats]
    BY <1>2, <1>3, <2>1 DEF Stats
  <2>3. cur' \in Samples
    BY <1>1 DEF Absent, Samples
  <2> QED
    BY <1>1, <2>2, <2>3 DEF IInv, TypeOK
<1>5. Accounted'
  BY <1>1 DEF IInv, Accounted, LastRead
<1>6. NeverOverstated' /\ ExactWhenIntact'
  BY <1>1, <1>2, <1>3 DEF NeverOverstated, ExactWhenIntact
<1> QED
  BY <1>1, <1>4, <1>5, <1>6 DEF IInv, Compared

\* Nothing has been carried or compared at first.
LEMMA InitIInv == Init => IInv
<1> SUFFICES ASSUME Init
             PROVE  IInv
  OBVIOUS
<1>1. 0 \in Counters
  BY NetstatsAssumption DEF Counters
<1>2. TypeOK
  BY <1>1 DEF Init, TypeOK, Absent, Samples, InitialInterfaces, Stats
<1>3. Accounted /\ Compared
  BY DEF Init, Accounted, Compared, LastRead, Absent
<1>4. NeverOverstated /\ ExactWhenIntact
  BY DEF Init, NeverOverstated, ExactWhenIntact, InitialInterfaces
<1> QED
  BY <1>2, <1>3, <1>4 DEF IInv

\* Every step keeps the inductive invariant.
LEMMA NextIInv == IInv /\ [Next]_vars => IInv'
<1> SUFFICES ASSUME IInv, [Next]_vars
             PROVE  IInv'
  OBVIOUS
<1>1. CASE Fire \/ Stop
  BY <1>1 DEF Fire, Stop, IInv, TypeOK, Accounted, LastRead, Compared, NeverOverstated,
              ExactWhenIntact
<1>2. CASE UNCHANGED vars
  BY <1>2 DEF vars, IInv, TypeOK, Accounted, LastRead, Compared, NeverOverstated,
              ExactWhenIntact
<1> QED
  BY <1>1, <1>2, CarryIInv, PlugIInv, ReadIInv, PublishIInv DEF Next

-----------------------------------------------------------------------------

\* The type invariant of the throughput sampler: rates and totals fit a counter.
THEOREM TypeCorrect == Spec => []TypeOK
<1>1. IInv => TypeOK
  BY DEF IInv
<1> QED
  BY <1>1, InitIInv, NextIInv, PTL DEF Spec

\* throughput.go:224: for counters of any width that wrap, reset and vanish any
\* number of times, no rate counts bytes that were not carried.
THEOREM RatesNotOverstated == Spec => []NeverOverstated
<1>1. IInv => NeverOverstated
  BY DEF IInv
<1> QED
  BY <1>1, InitIInv, NextIInv, PTL DEF Spec

\* The rate of an interface that nothing has happened to is exact.
THEOREM RatesExact == Spec => []ExactWhenIntact
<1>1. IInv => ExactWhenIntact
  BY DEF IInv
<1> QED
  BY <1>1, InitIInv, NextIInv, PTL DEF Spec

-----------------------------------------------------------------------------

(***************************************************************************)
(* The system sampler, whatever the files hold and however thermal zones come *)
(* and go.                                                                 *)
(***************************************************************************)

\* The inductive invariant: once the loop has run, what Run remembers is what the
\* last sample found, and it always agrees with the log. LogTellsThrottling says
\* nothing of warned, which decides what the next step logs.
LogInv == /\ host.throttled \in BOOLEAN
          /\ warned \in BOOLEAN
          /\ warned <=> log = "throttled"
          /\ run = "wait" => (warned <=> host.throttled)

\* Without a temperature nothing is throttled; with one, the threshold decides.
LEMMA MeasureThrottled == Measure => host'.throttled \in BOOLEAN
<1> SUFFICES ASSUME Measure
             PROVE  host'.throttled \in BOOLEAN
  OBVIOUS
<1>1. PICK temp \in Temps(zone') :
        host'.throttled = IF temp = Failed THEN NoInfo.throttled
                                           ELSE temp >= ThermalThrottle
  BY DEF Measure
<1>2. temp = Failed \/ temp \in Int
  BY DEF Temps, ThermalThrottle
<1>3. CASE temp = Failed
  BY <1>1, <1>3 DEF NoInfo
<1>4. CASE temp # Failed
  <2>1. host'.throttled = (temp >= ThermalThrottle)
    BY <1>1, <1>4
  <2> QED
    BY <2>1, <1>2, <1>4 DEF ThermalThrottle
<1> QED
  BY <1>3, <1>4

\* Nothing has been logged before the first sample.
LEMMA InitLogInv == HostInit => LogInv
<1> SUFFICES ASSUME HostInit
             PROVE  LogInv
  OBVIOUS
<1>1. host.throttled = FALSE
  BY DEF HostInit, NoInfo
<1> QED
  BY <1>1 DEF HostInit, LogInv

\* A step of the loop logs a change and remembers it; no other step does either.
LEMMA NextLogInv == LogInv /\ [HostNext]_hostVars => LogInv'
<1> SUFFICES ASSUME LogInv, [HostNext]_hostVars
             PROVE  LogInv'
  OBVIOUS
<1> USE DEF LogInv
<1>1. CASE Seed
  BY <1>1, MeasureThrottled DEF Seed
<1>2. CASE Loop
  <2>1. host'.throttled \in BOOLEAN
    BY <1>2, MeasureThrottled DEF Loop
  <2> QED
    BY <1>2, <2>1 DEF Loop, Warn
<1>3. CASE Done
  BY <1>3 DEF Done
<1>4. ASSUME NEW z \in Zones, Hotplug(z)
      PROVE  LogInv'
  BY <1>4 DEF Hotplug
<1>5. CASE UNCHANGED hostVars
  BY <1>5 DEF hostVars
<1> QED
  BY <1>1, <1>2, <1>3, <1>4, <1>5 DEF HostNext

\* info.go:139: whatever is read, fails or is plugged in, and for any number of
\* samples, the last line logged tells whether the last sample is throttled.
THEOREM LogIsTrue == HostSpec => []LogTellsThrottling
<1>1. LogInv => LogTellsThrottling
  BY DEF LogInv, LogTellsThrottling
<1> QED
  BY <1>1, InitLogInv, NextLogInv, PTL DEF HostSpec

-----------------------------------------------------------------------------

(***************************************************************************)
(* Scans are folds, which are functions on the sets of positions up to     *)
(* some n. They are proved about by induction over such a set Q of sets.   *)
(***************************************************************************)

\* What holds of a set of positions if it holds of it without one, whichever, holds of
\* all: there is no smallest exception.
LEMMA Peel ==
  ASSUME NEW S, IsFiniteSet(S), NEW Q, {} \in Q,
         \A s \in SUBSET S : s # {} /\ (\A x \in s : s \ {x} \in Q) => s \in Q
  PROVE  SUBSET S \subseteq Q
<1> DEFINE Bad == (SUBSET S) \ Q
<1> SUFFICES ASSUME Bad # {}
             PROVE  FALSE
  OBVIOUS
<1>1. IsWellFoundedOn(StrictSubsetOrdering(S), SUBSET S)
  BY FS_StrictSubsetOrderingWellFounded, FS_FiniteSubsetsOfFinite
<1>2. PICK s \in Bad : \A u \in Bad : <<u, s>> \notin StrictSubsetOrdering(S)
  <2>1. Bad \subseteq SUBSET S
    OBVIOUS
  <2> HIDE DEF Bad
  <2> QED
    BY <1>1, <2>1, WFMin
<1>3. ASSUME NEW x \in s
      PROVE  s \ {x} \in Q
  <2>1. <<s \ {x}, s>> \in StrictSubsetOrdering(S)
    BY <1>2, <1>3 DEF StrictSubsetOrdering
  <2> QED
    BY <1>2, <2>1
<1> QED
  BY <1>2, <1>3

\* The same of the positions up to n.
LEMMA PeelPositions ==
  ASSUME NEW n \in Nat, NEW Q, {} \in Q,
         \A s \in SUBSET (1 .. n) : s # {} /\ (\A x \in s : s \ {x} \in Q) => s \in Q
  PROVE  \A s \in SUBSET (1 .. n) : s \in Q
<1>1. IsFiniteSet(1 .. n)
  BY FS_Interval
<1>2. SUBSET (1 .. n) \subseteq Q
  BY <1>1, Peel, Zenon
<1> QED
  BY <1>2

\* A set of positions has a last one.
LEMMA LastPosition ==
  ASSUME NEW n \in Nat, NEW s \in SUBSET (1 .. n), s # {}
  PROVE  Max(s) \in s /\ \A y \in s : Max(s) >= y
<1> DEFINE Q == {t \in SUBSET (1 .. n) : t # {} => \E m \in t : \A y \in t : m >= y}
<1>1. ASSUME NEW t \in SUBSET (1 .. n), t # {}, \A x \in t : t \ {x} \in Q
      PROVE  t \in Q
  <2>1. PICK x \in t : TRUE
    BY <1>1
  <2>2. CASE t \ {x} = {}
    BY <2>1, <2>2
  <2>3. CASE t \ {x} # {}
    <3>1. PICK m \in t \ {x} : \A y \in t \ {x} : m >= y
      BY <1>1, <2>1, <2>3
    <3>2. CASE m >= x
      BY <3>1, <3>2
    <3>3. CASE x > m
      BY <2>1, <3>1, <3>3
    <3> QED
      BY <2>1, <3>1, <3>2, <3>3
  <2> QED
    BY <2>2, <2>3
<1>2. {} \in Q
  OBVIOUS
<1>3. \A t \in SUBSET (1 .. n) : t \in Q
  <2> HIDE DEF Q
  <2>1. \A t \in SUBSET (1 .. n) : t # {} /\ (\A x \in t : t \ {x} \in Q) => t \in Q
    BY <1>1
  <2> QED
    BY <1>2, <2>1, PeelPositions, Zenon
<1>4. \E m \in s : \A y \in s : m >= y
  BY <1>3
<1> QED
  BY <1>4 DEF Max

\* g folds over the positions in t, with F[i] for what it does with position i.
Folding(g, t, base, F) ==
  \A s \in SUBSET t : g[s] = IF s = {} THEN base ELSE F[Max(s)][g[s \ {Max(s)}]]

\* There is such a g: it is extended by one position after the other.
LEMMA FoldingExists ==
  ASSUME NEW n \in Nat, NEW V, NEW base \in V, NEW F \in [1 .. n -> [V -> V]]
  PROVE  \E g \in [SUBSET (1 .. n) -> V] : Folding(g, 1 .. n, base, F)
<1> DEFINE Q == {t \in SUBSET (1 .. n) : \E g \in [SUBSET t -> V] : Folding(g, t, base, F)}
<1>1. {} \in Q
  <2> DEFINE g == [s \in SUBSET {} |-> base]
  <2>1. g \in [SUBSET {} -> V] /\ Folding(g, {}, base, F)
    BY DEF Folding
  <2> QED
    BY <2>1
<1>2. ASSUME NEW t \in SUBSET (1 .. n), t # {}, \A x \in t : t \ {x} \in Q
      PROVE  t \in Q
  <2> DEFINE m == Max(t)
  <2>1. m \in t /\ \A y \in t : m >= y
    BY <1>2, LastPosition
  <2>2. PICK g \in [SUBSET (t \ {m}) -> V] : Folding(g, t \ {m}, base, F)
    BY <1>2, <2>1
  <2> DEFINE h == [s \in SUBSET t |-> IF m \in s THEN F[m][g[s \ {m}]] ELSE g[s]]
  <2> HIDE DEF m
  <2>3. h \in [SUBSET t -> V]
    BY <2>1, <2>2
  <2>4. ASSUME NEW s \in SUBSET t
        PROVE  h[s] = IF s = {} THEN base ELSE F[Max(s)][h[s \ {Max(s)}]]
    <3>1. CASE m \in s
      <4>1. Max(s) \in s /\ Max(s) >= m
        BY <3>1, LastPosition
      <4>2. Max(s) = m
        <5>1. Max(s) \in 1 .. n /\ m \in 1 .. n
          BY <2>1, <4>1
        <5>2. m >= Max(s)
          BY <2>1, <4>1
        <5> HIDE DEF h
        <5> QED
          BY <4>1, <5>1, <5>2
      <4>3. h[s \ {m}] = g[s \ {m}]
        OBVIOUS
      <4> QED
        BY <3>1, <4>2, <4>3
    <3>2. CASE m \notin s
      <4>1. s \in SUBSET (t \ {m})
        BY <3>2
      <4>2. g[s] = IF s = {} THEN base ELSE F[Max(s)][g[s \ {Max(s)}]]
        BY <2>2, <4>1 DEF Folding
      <4>3. h[s] = g[s] /\ h[s \ {Max(s)}] = g[s \ {Max(s)}]
        BY <3>2
      <4> QED
        BY <4>2, <4>3
    <3> QED
      BY <3>1, <3>2
  <2>5. Folding(h, t, base, F)
    BY <2>4 DEF Folding
  <2> QED
    BY <2>3, <2>5
<1>3. \A s \in SUBSET (1 .. n) : s \in Q
  <2> HIDE DEF Q
  <2>1. \A t \in SUBSET (1 .. n) : t # {} /\ (\A x \in t : t \ {x} \in Q) => t \in Q
    BY <1>2
  <2> QED
    BY <1>1, <2>1, PeelPositions, Zenon
<1>4. 1 .. n \in Q
  BY <1>3
<1> QED
  BY <1>4

\* What a line of /proc/meminfo may have been scanned into.
Scans == [total : 0 .. MaxKB \cup {Failed}, avail : 0 .. MaxKB \cup {Failed}]

\* A line leaves the sizes numbers, or not found.
LEMMA ScanTyped ==
  ASSUME NEW mem \in Scans, NEW line \in Lines
  PROVE  Scan(mem, line) \in Scans
BY DEF Scans, Lines, Scan

\* Neither does the whole file leave anything else.
LEMMA FoldScan ==
  ASSUME NEW n \in Nat, NEW lines \in [1 .. n -> Lines], NEW base \in Scans
  PROVE  FoldLeft(Scan, base, lines) \in Scans
<1> DEFINE Is(g) == g = [s \in SUBSET (1 .. n) |->
                           IF s = {} THEN base ELSE Scan(g[s \ {Max(s)}], lines[Max(s)])]
           F == [i \in 1 .. n |-> [mem \in Scans |-> Scan(mem, lines[i])]]
           iter == CHOOSE g : Is(g)
<1>1. F \in [1 .. n -> [Scans -> Scans]]
  BY ScanTyped
<1>2. \E g : Is(g)
  <2>1. PICK g \in [SUBSET (1 .. n) -> Scans] : Folding(g, 1 .. n, base, F)
    <3> HIDE DEF F
    <3> QED
      BY <1>1, FoldingExists
  <2>2. ASSUME NEW s \in SUBSET (1 .. n)
        PROVE  g[s] = IF s = {} THEN base ELSE Scan(g[s \ {Max(s)}], lines[Max(s)])
    <3>1. g[s] = IF s = {} THEN base ELSE F[Max(s)][g[s \ {Max(s)}]]
      BY <2>1 DEF Folding
    <3>2. CASE s # {}
      <4>1. Max(s) \in 1 .. n
        BY <3>2, LastPosition
      <4>2. g[s \ {Max(s)}] \in Scans
        BY <2>1
      <4> QED
        BY <3>1, <3>2, <4>1, <4>2
    <3> QED
      BY <3>1, <3>2
  <2>3. Is(g)
    BY <2>1, <2>2
  <2> QED
    BY <2>3
<1>3. Is(iter)
  BY <1>2, Zenon
<1>4. FoldLeft(Scan, base, lines) = iter[1 .. n]
  <2>1. DOMAIN lines = 1 .. n
    OBVIOUS
  <2> QED
    BY <2>1, Zenon DEF FoldLeft, MapThenFoldSet
<1> DEFINE Q == {s \in SUBSET (1 .. n) : iter[s] \in Scans}
<1> HIDE DEF iter
<1>5. {} \in Q
  BY <1>3
<1>6. ASSUME NEW s \in SUBSET (1 .. n), s # {}, \A x \in s : s \ {x} \in Q
      PROVE  s \in Q
  <2>1. Max(s) \in s
    BY <1>6, LastPosition
  <2>2. iter[s] = Scan(iter[s \ {Max(s)}], lines[Max(s)])
    BY <1>3, <1>6
  <2> QED
    BY <1>6, <2>1, <2>2, ScanTyped
<1>7. \A s \in SUBSET (1 .. n) : s \in Q
  <2> HIDE DEF Q
  <2>1. \A s \in SUBSET (1 .. n) : s # {} /\ (\A x \in s : s \ {x} \in Q) => s \in Q
    BY <1>6
  <2> QED
    BY <1>5, <2>1, PeelPositions, Zenon
<1> QED
  BY <1>4, <1>7

\* No size of a host wraps around in bytes, and a smaller one has fewer of them.
LEMMA InBytes ==
  ASSUME NEW k \in 0 .. MaxKB, NEW l \in 0 .. MaxKB, l <= k
  PROVE  /\ Bytes(k) \in 0 .. MaxKB * KB
         /\ Bytes(l) \in 0 .. MaxKB * KB
         /\ Bytes(l) <= Bytes(k)
<1>1. ASSUME NEW i \in Nat, NEW j \in Nat, i <= j
      PROVE  i * KB \in Nat /\ j * KB \in Nat /\ i * KB <= j * KB
  <2>1. KB \in Nat
    BY SystemAssumption
  <2>2. j * KB = i * KB + (j - i) * KB /\ (j - i) * KB \in Nat
    BY <1>1, <2>1
  <2> QED
    BY <1>1, <2>1, <2>2
<1>2. MaxKB \in Nat /\ k \in Nat /\ l \in Nat /\ k <= MaxKB /\ l <= MaxKB
  BY SystemAssumption
<1>3. /\ k * KB \in 0 .. MaxKB * KB
      /\ l * KB \in 0 .. MaxKB * KB
      /\ l * KB <= k * KB
  BY <1>1, <1>2
<1>4. \A b \in 0 .. MaxKB * KB : b % Word = b
  BY SystemAssumption
<1> QED
  BY <1>3, <1>4 DEF Bytes


\* info.go:197: no more memory is used than there is, and neither number wraps.
LEMMA MemoryRead ==
  ASSUME NEW mem \in MemReadings
  PROVE  mem # Failed => mem \in Memory /\ mem.used <= mem.total
<1> DEFINE none == [total |-> Failed, avail |-> Failed]
<1> SUFFICES ASSUME mem # Failed
             PROVE  mem \in Memory /\ mem.used <= mem.total
  OBVIOUS
<1>1. PICK lines \in BoundedSeq(Lines, MaxLines) : mem = ParseMeminfo(lines)
  BY Zenon DEF MemReadings
<1>2. PICK n \in 0 .. MaxLines : lines \in [1 .. n -> Lines]
  BY SystemAssumption DEF BoundedSeq, SeqOf
<1>3. n \in Nat
  BY SystemAssumption
<1>4. none \in Scans
  BY DEF Scans
<1> DEFINE got == FoldLeft(Scan, none, lines)
<1>5. got \in Scans
  <2> HIDE DEF none
  <2> QED
    BY <1>2, <1>3, <1>4, FoldScan, Zenon
<1>6. mem = IF Failed \in {got.total, got.avail}
              THEN Failed
              ELSE [total |-> Bytes(got.total), used |-> Used(got.total, got.avail)]
  BY <1>1, Zenon DEF ParseMeminfo
<1> HIDE DEF got
<1>7. mem = [total |-> Bytes(got.total), used |-> Used(got.total, got.avail)]
  BY <1>6
<1>8. got.total \in 0 .. MaxKB /\ got.avail \in 0 .. MaxKB
  BY <1>5, <1>6 DEF Scans
<1> DEFINE less == IF got.avail > got.total THEN got.total ELSE got.avail
<1>9. got.total - less \in 0 .. MaxKB /\ got.total - less <= got.total
  BY <1>8, SystemAssumption
<1>10. Used(got.total, got.avail) = Bytes(got.total - less)
  BY DEF Used
<1> HIDE DEF less
<1>11. /\ Bytes(got.total) \in 0 .. MaxKB * KB
       /\ Bytes(got.total - less) \in 0 .. MaxKB * KB
       /\ Bytes(got.total - less) <= Bytes(got.total)
  BY <1>8, <1>9, InBytes
<1> QED
  BY <1>7, <1>10, <1>11 DEF Memory

-----------------------------------------------------------------------------

(***************************************************************************)
(* selectThermalZone                                                       *)
(***************************************************************************)

\* The zones of these types.
Typed(T, s) == {z \in s : zones[z] \in T}

\* best is the best one of the zones in s.
BestOf(s, best) ==
  IF Typed({"cpu-thermal"}, s) # {} THEN best \in Typed({"cpu-thermal"}, s)
  ELSE IF Typed(Lesser, s) # {} THEN best \in Typed(Lesser, s)
  ELSE best = NoZone

\* The better one of the best so far and one more is the best of all of them.
LEMMA AcceptBest ==
  ASSUME NEW s \in SUBSET Zones, NEW z \in s, NEW best, BestOf(s \ {z}, best)
  PROVE  BestOf(s, Accept(best, z))
<1>1. \A y \in s : y # NoZone
  BY DEF Zones, NoZone
<1>2. CASE Typed({"cpu-thermal"}, s \ {z}) # {}
  <2>1. best \in s /\ zones[best] = "cpu-thermal" /\ best # NoZone
    BY <1>1, <1>2 DEF BestOf, Typed
  <2> QED
    BY <2>1 DEF BestOf, Typed, Accept
<1>3. CASE Typed({"cpu-thermal"}, s \ {z}) = {} /\ Typed(Lesser, s \ {z}) # {}
  <2>1. /\ best \in s /\ zones[best] \in Lesser /\ best # NoZone
        /\ zones[best] # "cpu-thermal"
    BY <1>1, <1>3 DEF BestOf, Typed, Lesser
  <2>2. Accept(best, z) = IF zones[z] = "cpu-thermal" THEN z ELSE best
    BY <2>1 DEF Accept
  <2> QED
    BY <1>3, <2>1, <2>2 DEF BestOf, Typed, Lesser
<1>4. CASE Typed({"cpu-thermal"}, s \ {z}) = {} /\ Typed(Lesser, s \ {z}) = {}
  <2>1. best = NoZone
    BY <1>4 DEF BestOf
  <2>2. Accept(best, z) = IF zones[z] = "cpu-thermal" \/ zones[z] \in Lesser
                            THEN z ELSE NoZone
    BY <2>1 DEF Accept
  <2> QED
    BY <1>4, <2>2 DEF BestOf, Typed, Lesser
<1> QED
  BY <1>2, <1>3, <1>4

\* So the scan over all zones finds the best of them.
LEMMA ScanFindsBest ==
  ASSUME zones \in [Zones -> Types]
  PROVE  BestOf(Zones, FoldLeftDomain(Accept, NoZone, zones))
<1> DEFINE n == ZoneSlots
           V == Zones \cup {NoZone}
           order == [i \in DOMAIN zones |-> i]
           Is(g) == g = [s \in SUBSET (1 .. n) |->
                           IF s = {} THEN NoZone
                                     ELSE Accept(g[s \ {Max(s)}], order[Max(s)])]
           F == [i \in 1 .. n |-> [best \in V |-> Accept(best, order[i])]]
           iter == CHOOSE g : Is(g)
<1>0. n \in Nat /\ Zones = 1 .. n /\ DOMAIN zones = 1 .. n
  BY SystemAssumption DEF Zones
<1>a. \A i \in 1 .. n : order[i] = i
  BY <1>0
<1>1. F \in [1 .. n -> [V -> V]]
  <2>1. ASSUME NEW i \in 1 .. n, NEW best \in V
        PROVE  Accept(best, order[i]) \in V
    BY <1>0, <1>a DEF Accept
  <2> QED
    BY <2>1
<1>2. \E g : Is(g)
  <2>1. PICK g \in [SUBSET (1 .. n) -> V] : Folding(g, 1 .. n, NoZone, F)
    <3>1. NoZone \in V
      OBVIOUS
    <3> HIDE DEF F, V, n
    <3> QED
      BY <1>0, <1>1, <3>1, FoldingExists
  <2>2. ASSUME NEW s \in SUBSET (1 .. n)
        PROVE  g[s] = IF s = {} THEN NoZone
                                ELSE Accept(g[s \ {Max(s)}], order[Max(s)])
    <3>1. g[s] = IF s = {} THEN NoZone ELSE F[Max(s)][g[s \ {Max(s)}]]
      BY <2>1 DEF Folding
    <3>2. CASE s # {}
      <4>1. Max(s) \in 1 .. n
        BY <1>0, <3>2, LastPosition
      <4>2. g[s \ {Max(s)}] \in V
        BY <2>1
      <4> QED
        BY <3>1, <3>2, <4>1, <4>2
    <3> QED
      BY <3>1, <3>2
  <2>3. Is(g)
    BY <2>1, <2>2
  <2> QED
    BY <2>3
<1>3. Is(iter)
  BY <1>2, Zenon
<1>4. FoldLeftDomain(Accept, NoZone, zones) = iter[1 .. n]
  <2>1. DOMAIN order = 1 .. n
    BY <1>0
  <2> HIDE DEF order
  <2>2. FoldLeft(Accept, NoZone, order) = iter[1 .. n]
    BY <2>1, Zenon DEF FoldLeft, MapThenFoldSet
  <2> QED
    BY <2>2, Zenon DEF FoldLeftDomain, order
<1> DEFINE Q == {s \in SUBSET (1 .. n) : BestOf(s, iter[s])}
<1> HIDE DEF iter
<1>5. {} \in Q
  BY <1>3 DEF BestOf, Typed
<1>6. ASSUME NEW s \in SUBSET (1 .. n), s # {}, \A x \in s : s \ {x} \in Q
      PROVE  s \in Q
  <2>1. Max(s) \in s
    BY <1>0, <1>6, LastPosition
  <2>2. iter[s] = Accept(iter[s \ {Max(s)}], Max(s))
    BY <1>3, <1>6, <1>a, <2>1
  <2>3. BestOf(s \ {Max(s)}, iter[s \ {Max(s)}])
    BY <1>6, <2>1
  <2> HIDE DEF n
  <2>4. BestOf(s, Accept(iter[s \ {Max(s)}], Max(s)))
    BY <1>0, <2>1, <2>3, AcceptBest
  <2> QED
    BY <2>2, <2>4
<1>7. \A s \in SUBSET (1 .. n) : s \in Q
  <2> HIDE DEF Q, n
  <2>1. \A s \in SUBSET (1 .. n) : s # {} /\ (\A x \in s : s \ {x} \in Q) => s \in Q
    BY <1>6
  <2> QED
    BY <1>0, <1>5, <2>1, PeelPositions, Zenon
<1>8. BestOf(1 .. n, iter[1 .. n])
  BY <1>7
<1> QED
  BY <1>0, <1>4, <1>8

\* The zone that a sample reads is BestOf, or zone 0.
LEMMA ZoneSelected ==
  ASSUME zones \in [Zones -> Types]
  PROVE  /\ SelectThermalZone \in Zones \cup {NoZone}
         /\ Typed({"cpu-thermal"}, Zones) # {} =>
              SelectThermalZone \in Typed({"cpu-thermal"}, Zones)
         /\ Typed({"cpu-thermal"}, Zones) = {} /\ Typed(Lesser, Zones) # {} =>
              SelectThermalZone \in Typed(Lesser, Zones)
         /\ Typed({"cpu-thermal"}, Zones) = {} /\ Typed(Lesser, Zones) = {} =>
              SelectThermalZone = IF zones[1] = "none" THEN NoZone ELSE 1
<1> DEFINE best == FoldLeftDomain(Accept, NoZone, zones)
<1>1. BestOf(Zones, best)
  BY ScanFindsBest
<1>2. SelectThermalZone = IF best = NoZone /\ zones[1] # "none" THEN 1 ELSE best
  BY Zenon DEF SelectThermalZone
<1>3. 1 \in Zones /\ NoZone \notin Zones
  BY SystemAssumption DEF Zones, NoZone
<1> HIDE DEF best
<1> QED
  BY <1>1, <1>2, <1>3 DEF BestOf, Typed

-----------------------------------------------------------------------------

\* What each snapshot is, and which zone it is of.
HostInv == HostTypeOK /\ SnapshotIsSound /\ ZoneIsPreferred

\* Whatever the readers return, the snapshot is well formed, and sound.
LEMMA MeasureSound == Measure => host' \in Snapshots /\ SnapshotIsSound'
<1> SUFFICES ASSUME Measure
             PROVE  host' \in Snapshots /\ SnapshotIsSound'
  OBVIOUS
<1>1. PICK load \in {1, Failed}, mem \in MemReadings, temp \in Temps(zone') :
       host' = [load |-> IF load = Failed THEN NoInfo.load ELSE load,
                mem |-> IF mem = Failed THEN NoInfo.mem ELSE mem,
                temp |-> IF temp = Failed THEN NoInfo.temp ELSE temp,
                throttled |-> IF temp = Failed THEN NoInfo.throttled
                                               ELSE temp >= ThermalThrottle,
                err |-> {s \in Sources : Failed = CASE s = "loadavg" -> load
                                                    [] s = "meminfo" -> mem
                                                    [] s = "temp" -> temp}]
  BY Zenon DEF Measure
<1> DEFINE L == IF load = Failed THEN 0 ELSE load
           M == IF mem = Failed THEN NoMemory ELSE mem
           T == IF temp = Failed THEN 0 ELSE temp
           H == IF temp = Failed THEN FALSE ELSE temp >= ThermalThrottle
           E == {s \in Sources : Failed = CASE s = "loadavg" -> load
                                            [] s = "meminfo" -> mem
                                            [] s = "temp" -> temp}
<1>2. host' = [load |-> L, mem |-> M, temp |-> T, throttled |-> H, err |-> E]
  BY <1>1 DEF NoInfo
<1>3. L \in {0, 1} /\ ("loadavg" \in E => L = 0)
  BY DEF Sources
<1>4. M \in Memory /\ M.used <= M.total /\ ("meminfo" \in E => M = NoMemory)
  <2>1. NoMemory \in Memory /\ NoMemory.used <= NoMemory.total
    BY SystemAssumption DEF NoMemory, Memory
  <2>2. "meminfo" \in E => mem = Failed
    BY DEF Sources
  <2> HIDE DEF E
  <2> QED
    BY <2>1, <2>2, MemoryRead
<1>5. temp = Failed \/ temp \in {ThermalThrottle - 1, ThermalThrottle}
  BY DEF Temps
<1>6. T \in {0, ThermalThrottle - 1, ThermalThrottle} /\ ("temp" \in E => T = 0)
  BY <1>5 DEF Sources
<1>7. H \in BOOLEAN /\ (H <=> T >= ThermalThrottle)
  <2>1. CASE temp = Failed
    BY <2>1 DEF ThermalThrottle
  <2>2. CASE temp # Failed
    BY <1>5, <2>2 DEF ThermalThrottle
  <2> QED
    BY <2>1, <2>2
<1>8. E \in SUBSET Sources
  OBVIOUS
<1> HIDE DEF L, M, T, H, E
<1>9. host' \in Snapshots
  BY <1>2, <1>3, <1>4, <1>6, <1>7, <1>8 DEF Snapshots
<1>10. /\ host'.load = L /\ host'.mem = M /\ host'.temp = T
       /\ host'.throttled = H /\ host'.err = E
  BY <1>2
<1>11. SnapshotIsSound'
  BY <1>3, <1>4, <1>6, <1>7, <1>10, Zenon DEF SnapshotIsSound
<1> QED
  BY <1>9, <1>11

\* A sample reads the zone that is best when it is taken.
LEMMA MeasurePreferred ==
  HostTypeOK /\ Measure =>
    /\ zones' \in [Zones -> Types] /\ zone' \in Zones \cup {NoZone}
    /\ steady' \in BOOLEAN /\ ZoneIsPreferred'
<1> SUFFICES ASSUME HostTypeOK, Measure
             PROVE  /\ zones' \in [Zones -> Types] /\ zone' \in Zones \cup {NoZone}
                    /\ steady' \in BOOLEAN /\ ZoneIsPreferred'
  OBVIOUS
<1>1. zones' = zones /\ zone' = SelectThermalZone /\ steady' = TRUE
  BY Zenon DEF Measure
<1>2. zones \in [Zones -> Types]
  BY DEF HostTypeOK
<1> DEFINE z == SelectThermalZone
<1>3. /\ z \in Zones \cup {NoZone}
      /\ Typed({"cpu-thermal"}, Zones) # {} => z \in Typed({"cpu-thermal"}, Zones)
      /\ Typed({"cpu-thermal"}, Zones) = {} /\ Typed(Lesser, Zones) # {} =>
           z \in Typed(Lesser, Zones)
      /\ Typed({"cpu-thermal"}, Zones) = {} /\ Typed(Lesser, Zones) = {} =>
           z = IF zones[1] = "none" THEN NoZone ELSE 1
  BY <1>2, ZoneSelected, Zenon
<1>4. zone' = z
  BY <1>1
<1> HIDE DEF z
<1>5. ZoneIsPreferred'
  BY <1>1, <1>3, <1>4 DEF ZoneIsPreferred, Typed
<1> QED
  BY <1>1, <1>2, <1>3, <1>4, <1>5

\* Before the first sample nothing is known, and no zone was read.
LEMMA InitHostInv == HostInit => HostInv
<1> SUFFICES ASSUME HostInit
             PROVE  HostInv
  OBVIOUS
<1> USE DEF HostInit
<1>1. NoInfo \in Snapshots
  <2>1. NoMemory \in Memory
    BY SystemAssumption DEF NoMemory, Memory
  <2> QED
    BY <2>1 DEF NoInfo, Snapshots
<1>2. HostTypeOK
  BY <1>1 DEF HostTypeOK
<1>3. SnapshotIsSound
  BY DEF SnapshotIsSound, NoInfo, NoMemory, ThermalThrottle
<1>4. ZoneIsPreferred
  BY DEF ZoneIsPreferred
<1> QED
  BY <1>2, <1>3, <1>4 DEF HostInv

\* Only a sample changes the snapshot; what is plugged in only ends ZoneIsPreferred's
\* premise.
LEMMA NextHostInv == HostInv /\ [HostNext]_hostVars => HostInv'
<1> SUFFICES ASSUME HostInv, [HostNext]_hostVars
             PROVE  HostInv'
  OBVIOUS
<1>0. HostTypeOK /\ SnapshotIsSound /\ ZoneIsPreferred
  BY DEF HostInv
<1>1. ASSUME Measure, run' \in {"seeded", "wait"}, warned' \in BOOLEAN,
             log' \in {"nothing", "throttled", "cleared"}
      PROVE  HostInv'
  <2>1. host' \in Snapshots /\ SnapshotIsSound'
    BY <1>1, MeasureSound
  <2>2. /\ zones' \in [Zones -> Types] /\ zone' \in Zones \cup {NoZone}
        /\ steady' \in BOOLEAN /\ ZoneIsPreferred'
    BY <1>0, <1>1, MeasurePreferred
  <2>3. HostTypeOK'
    BY <1>1, <2>1, <2>2, Zenon DEF HostTypeOK
  <2> QED
    BY <2>1, <2>2, <2>3 DEF HostInv
<1>2. CASE Seed
  BY <1>0, <1>1, <1>2 DEF Seed, HostTypeOK
<1>3. CASE Loop
  <2>1. host'.throttled \in BOOLEAN
    BY <1>3, MeasureThrottled DEF Loop
  <2>2. warned' \in BOOLEAN /\ log' \in {"nothing", "throttled", "cleared"}
    BY <1>0, <1>3, <2>1 DEF Loop, Warn, HostTypeOK
  <2> QED
    BY <1>1, <1>3, <2>2 DEF Loop
<1>4. CASE Done
  <2>1. UNCHANGED <<zones, host, warned, log, zone, steady>> /\ run' = "stopped"
    BY <1>4 DEF Done
  <2>2. HostTypeOK'
    BY <1>0, <2>1 DEF HostTypeOK
  <2>3. SnapshotIsSound' /\ ZoneIsPreferred'
    BY <1>0, <2>1 DEF SnapshotIsSound, ZoneIsPreferred
  <2> QED
    BY <2>2, <2>3 DEF HostInv
<1>5. ASSUME NEW z \in Zones, Hotplug(z)
      PROVE  HostInv'
  <2>1. /\ UNCHANGED <<run, host, warned, log, zone>> /\ steady' = FALSE
        /\ zones' \in [Zones -> Types]
    BY <1>0, <1>5 DEF Hotplug, HostTypeOK
  <2>2. HostTypeOK'
    BY <1>0, <2>1 DEF HostTypeOK
  <2>3. SnapshotIsSound' /\ ZoneIsPreferred'
    BY <1>0, <2>1 DEF SnapshotIsSound, ZoneIsPreferred
  <2> QED
    BY <2>2, <2>3 DEF HostInv
<1>6. CASE UNCHANGED hostVars
  <2>1. UNCHANGED <<zones, run, host, warned, log, zone, steady>>
    BY <1>6 DEF hostVars
  <2>2. HostTypeOK'
    BY <1>0, <2>1 DEF HostTypeOK
  <2>3. SnapshotIsSound' /\ ZoneIsPreferred'
    BY <1>0, <2>1 DEF SnapshotIsSound, ZoneIsPreferred
  <2> QED
    BY <2>2, <2>3 DEF HostInv
<1> QED
  BY <1>2, <1>3, <1>4, <1>5, <1>6 DEF HostNext

\* Every value that the sampler publishes and remembers is one that its fields can
\* hold (info.go:37-54); that used memory has not wrapped around is SnapshotsAreSound.
THEOREM HostTypeCorrect == HostSpec => []HostTypeOK
<1>1. HostInv => HostTypeOK
  BY DEF HostInv
<1> QED
  BY <1>1, InitHostInv, NextHostInv, PTL DEF HostSpec

\* info.go:185 and 197: whatever /proc/meminfo holds and whichever readers fail, no
\* field is left over from an earlier snapshot, nothing is throttled without a
\* temperature and no more memory is used than there is.
THEOREM SnapshotsAreSound == HostSpec => []SnapshotIsSound
<1>1. HostInv => SnapshotIsSound
  BY DEF HostInv
<1> QED
  BY <1>1, InitHostInv, NextHostInv, PTL DEF HostSpec

\* info.go:68 and 306: of any number of zones, in any order, the scan of the
\* directory ends with a best one.
THEOREM BestZoneIsRead == HostSpec => []ZoneIsPreferred
<1>1. HostInv => ZoneIsPreferred
  BY DEF HostInv
<1> QED
  BY <1>1, InitHostInv, NextHostInv, PTL DEF HostSpec

==============================================================================
