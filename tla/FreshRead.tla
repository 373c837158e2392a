------------------------------ MODULE FreshRead ------------------------------
(***************************************************************************)
(* What a lazily refreshed collector (hotspot, WAN, admin) promises to the *)
(* handlers that read it, without its mutex, its two staleness tests or    *)
(* the commands of a refresh:                                              *)
(*   - what it publishes was begun at least TTL after what it replaces;    *)
(*   - publishing a fault leaves the data that was there;                  *)
(*   - a reader is given the outcome of an attempt that was begun less     *)
(*     than TTL before it asked, and so never what the collector starts    *)
(*     with, published before any attempt.                                 *)
(* The data of an attempt that ended in a fault is what was there before:  *)
(* of any age, or the blank that the collector started with.               *)
(***************************************************************************)
EXTENDS Integers

CONSTANTS Requests, \* concurrent readers
          Infos,    \* the data a refresh can publish
          Verdicts, \* outcomes that say something about the interface
          Faults,   \* outcomes that say nothing about it
          TTL

VARIABLES clock, \* the current time
          at,    \* when the attempt whose outcome is published was begun
          pub,   \* the published data and the outcome that came with it
          call   \* call[r]: the time at which r asked, or Idle

vars == <<clock, at, pub, call>>

Idle == -1

\* The zero time.Time of a collector that has never been refreshed: a time
\* that every reader finds expired.
LongAgo == -TTL

Init == /\ clock = 0
        /\ at = LongAgo
        /\ pub \in [info : Infos, err : Verdicts]
        /\ call = [r \in Requests |-> Idle]

Ask(r) == /\ call[r] = Idle
          /\ call' = [call EXCEPT ![r] = clock]
          /\ UNCHANGED <<clock, at, pub>>

Publish == /\ at' \in (at + TTL) .. clock
           /\ \/ pub' \in [info : Infos, err : Verdicts]
              \/ \E e \in Faults : pub' = [pub EXCEPT !.err = e]
           /\ UNCHANGED <<clock, call>>

Serve(r) == /\ call[r] # Idle
            /\ call[r] < at + TTL
            /\ call' = [call EXCEPT ![r] = Idle]
            /\ UNCHANGED <<clock, at, pub>>

Tick == /\ clock' = clock + 1
        /\ UNCHANGED <<at, pub, call>>

Next == \/ \E r \in Requests : Ask(r) \/ Serve(r)
        \/ Publish
        \/ Tick

Spec == Init /\ [][Next]_vars

==============================================================================
