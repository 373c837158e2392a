------------------------------- MODULE Netstats -------------------------------
(***************************************************************************)
(* internal/netstats: a goroutine samples the byte counters of the         *)
(* interfaces from /proc/net/dev, at once and then whenever its ticker     *)
(* fires, and publishes rates and totals. Between two samples interfaces   *)
(* carry traffic, wrap around, vanish and come back from zero, any number  *)
(* of times.                                                               *)
(*                                                                         *)
(* One counter stands for both directions. A rate is left as the number of *)
(* bytes it is computed from: the time between two ticks is positive, for  *)
(* Go's clock is monotonic, so computeMbps' guard on it never applies.     *)
(***************************************************************************)
EXTENDS Integers

CONSTANTS Ifaces,  \* the interfaces that New was given
          Width,   \* 2^64: counters are uint64
          Gone,    \* no such interface, or none in the sample
          MaxMoved \* bound on the bytes carried between two samples, for checking

ASSUME NetstatsAssumption == /\ Width \in Nat \ {0}
                             /\ MaxMoved \in Nat
                             /\ Gone \notin 0 .. Width - 1

VARIABLES dev,    \* external: the kernel's counters
          pc,     \* where Run is
          cur,    \* tick's local current
          prev,   \* c.prev
          snap,   \* *c.snap
          moved,  \* history: bytes carried since the last sample was read
          intact, \* history: it had a counter, which has only grown since
          real    \* history: what moved and intact were when tick last read a sample

vars == <<dev, pc, cur, prev, snap, moved, intact, real>>

Counters == 0 .. Width - 1

Samples == [Ifaces -> Counters \cup {Gone}]

Absent == [i \in Ifaces |-> Gone]

Stats == [up : BOOLEAN, rate : Counters, total : Counters]

TypeOK == /\ dev \in Samples
          /\ pc \in {"tick", "publish", "wait", "stopped"}
          /\ cur \in Samples
          /\ prev \in Samples
          /\ snap \in [Ifaces -> Stats]
          /\ moved \in [Ifaces -> Nat]
          /\ intact \in [Ifaces -> BOOLEAN]
          /\ real \in [Ifaces -> [bytes : Nat, exact : BOOLEAN]]

\* Mutant: the first snapshot has no interfaces.
NoInterfaces == [i \in {} |-> i]

InitialInterfaces == [i \in Ifaces |-> [up |-> FALSE, rate |-> 0, total |-> 0]]

\* c.prev is empty at first, which tick treats like a sample without interfaces.
Init == /\ dev \in Samples
        /\ pc = "tick"
        /\ cur = Absent
        /\ prev = Absent
        /\ snap = InitialInterfaces
        /\ moved = [i \in Ifaces |-> 0]
        /\ intact = [i \in Ifaces |-> FALSE]
        /\ real = [i \in Ifaces |-> [bytes |-> 0, exact |-> FALSE]]

-----------------------------------------------------------------------------

\* External: an interface carries bytes, and its counter may wrap around.
Carry(i) ==
  /\ dev[i] # Gone
  /\ \E n \in 1 .. MaxMoved - moved[i] :
       /\ dev' = [dev EXCEPT ![i] = (@ + n) % Width]
       /\ moved' = [moved EXCEPT ![i] = @ + n]
       /\ intact' = [intact EXCEPT ![i] = @ /\ dev[i] + n < Width]
  /\ UNCHANGED <<pc, cur, prev, snap, real>>

\* External: an adapter is unplugged, or its driver reset.
Vanish(i) == /\ dev[i] # Gone
             /\ dev' = [dev EXCEPT ![i] = Gone]
             /\ intact' = [intact EXCEPT ![i] = FALSE]
             /\ UNCHANGED <<pc, cur, prev, snap, moved, real>>

\* External: an interface appears, with a counter that starts from zero.
Appear(i) == /\ dev[i] = Gone
             /\ dev' = [dev EXCEPT ![i] = 0]
             /\ UNCHANGED <<pc, cur, prev, snap, moved, intact, real>>

\* The ticker fires.
Fire == /\ pc = "wait"
        /\ pc' = "tick"
        /\ UNCHANGED <<dev, cur, prev, snap, moved, intact, real>>

\* tick reads /proc/net/dev. An interface whose line is malformed counts as absent,
\* and so does every interface when the file cannot be read.
Read == /\ pc = "tick"
        /\ \E lost \in SUBSET Ifaces :
             cur' = [i \in Ifaces |-> IF i \in lost THEN Gone ELSE dev[i]]
        /\ real' = [i \in Ifaces |->
                      [bytes |-> moved[i],
                       exact |-> intact[i] /\ cur'[i] # Gone]]
        /\ moved' = [i \in Ifaces |-> 0]
        /\ intact' = [i \in Ifaces |-> cur'[i] # Gone]
        /\ pc' = "publish"
        /\ UNCHANGED <<dev, prev, snap>>

\* Mutant: the difference of two uint64, whichever is larger.
Wraps(old, new) == (new - old) % Width

\* Mutant: a counter that has grown is taken for one that was reset.
Reversed(old, new) == IF new > old THEN 0 ELSE (new - old) % Width

\* computeMbps: a counter that has moved backward has no rate.
ComputeMbps(old, new) == IF new < old THEN 0 ELSE new - old

\* The counter's total, zero without a sample.
Total(c) == IF c = Gone THEN 0 ELSE c

\* Two samples with the interface in both have a rate.
Rate(i) == IF cur[i] # Gone /\ prev[i] # Gone
             THEN ComputeMbps(prev[i], cur[i])
             ELSE 0

\* tick reads operstate, interface by interface, and publishes; an operstate that
\* cannot be read counts as not up.
Publish ==
  /\ pc = "publish"
  /\ \E up \in [Ifaces -> BOOLEAN] :
       /\ \A i \in Ifaces : up[i] => dev[i] # Gone
       /\ snap' = [i \in Ifaces |->
                     [up |-> up[i], rate |-> Rate(i), total |-> Total(cur[i])]]
  /\ prev' = cur
  /\ cur' = Absent
  /\ pc' = "wait"
  /\ UNCHANGED <<dev, moved, intact, real>>

\* The context is done when Run waits.
Stop == /\ pc = "wait"
        /\ pc' = "stopped"
        /\ UNCHANGED <<dev, cur, prev, snap, moved, intact, real>>

Next == \/ \E i \in Ifaces : Carry(i) \/ Vanish(i) \/ Appear(i)
        \/ Fire \/ Read \/ Publish \/ Stop

Spec == Init /\ [][Next]_vars

-----------------------------------------------------------------------------

\* throughput.go:224: no reset, wrap-around, unplugged adapter or failed read
\* makes a published rate count bytes that the interface has not carried between
\* the last two samples.
NeverOverstated ==
  pc \in {"wait", "tick", "stopped"} =>
    \A i \in Ifaces : snap[i].rate <= real[i].bytes

\* Two samples of an interface that was there all the time, with no wrap-around
\* in between, give exactly the bytes it has carried, whatever came before.
ExactWhenIntact ==
  pc \in {"wait", "tick", "stopped"} =>
    \A i \in Ifaces : real[i].exact => snap[i].rate = real[i].bytes

==============================================================================
