------------------------------ MODULE LazyCache ------------------------------
(***************************************************************************)
(* The refresh discipline shared by the hotspot, WAN and admin collectors  *)
(* (their Snapshot and refresh methods are three copies of it): handlers   *)
(* test the age of the cache under the mutex, let go of it, take it again  *)
(* to refresh, test again, run the refresh with the mutex held, publish    *)
(* through an atomic pointer and read that pointer without the mutex.      *)
(*                                                                         *)
(* What one refresh runs is left to WanCollector, HotspotCollector and     *)
(* AdminCollector; here it ends in any verdict or any fault.               *)
(***************************************************************************)
EXTENDS Integers

CONSTANTS Requests, \* handler goroutines
          Infos,    \* the data a refresh can publish
          Blank,    \* the data of the placeholder snapshot
          Verdicts, \* outcomes published with the data the refresh found
          Faults,   \* outcomes published with the data of the previous snapshot
          NoErr,    \* the nil error
          Free,     \* the holder of an unlocked mutex
          TTL,      \* cacheTTL, in ticks of the clock
          MaxClock  \* bound on the clock, for model checking

ASSUME CacheAssumption == /\ TTL \in Nat \ {0}
                          /\ MaxClock \in Nat
                          /\ Blank \in Infos
                          /\ NoErr \in Verdicts
                          /\ Free \notin Requests

VARIABLES clock,  \* c.clock()
          mu,     \* who holds c.mu
          lastAt, \* c.lastAt
          snap,   \* *c.snap: Info (or Clients) and Err
          pc,     \* where each handler is
          asked,  \* history: when the handler called Snapshot
          now,    \* refresh's local now
          prev    \* refresh's local prev

vars == <<clock, mu, lastAt, snap, pc, asked, now, prev>>

Snaps == [info : Infos, err : Verdicts \cup Faults]

\* time.Time{} is centuries before clock(): any age at or above TTL will do.
LongAgo == -TTL

TypeOK == /\ clock \in Nat
          /\ mu \in Requests \cup {Free}
          /\ lastAt \in Int
          /\ snap \in Snaps
          /\ pc \in [Requests -> {"idle", "check", "lock", "refresh", "load"}]
          /\ asked \in [Requests -> Nat]
          /\ now \in [Requests -> Nat]
          /\ prev \in [Requests -> Snaps]

\* Mutant: the constructor publishes a snapshot without data.
NilSnapshot == [info |-> "nil", err |-> NoErr]

Placeholder == [info |-> Blank, err |-> NoErr]

Init == /\ clock = 0
        /\ mu = Free
        /\ lastAt = LongAgo
        /\ snap = Placeholder
        /\ pc = [r \in Requests |-> "idle"]
        /\ asked = [r \in Requests |-> 0]
        /\ now = [r \in Requests |-> 0]
        /\ prev = [r \in Requests |-> Placeholder]

-----------------------------------------------------------------------------

Goto(r, l) == pc' = [pc EXCEPT ![r] = l]

\* A handler calls Snapshot(r.Context()).
Call(r) == /\ pc[r] = "idle"
           /\ Goto(r, "check")
           /\ asked' = [asked EXCEPT ![r] = clock]
           /\ UNCHANGED <<clock, mu, lastAt, snap, now, prev>>

\* Mutant: data that is just TTL old still counts as fresh.
StaleTooLate == clock - lastAt > TTL

Stale == clock - lastAt >= TTL

\* Mutant: no mutex.
NoMutex == TRUE

\* c.mu can be taken.
Unlocked == mu = Free

\* Mutant: the mutex is not released.
NoUnlock == mu' = mu

\* The deferred Unlock.
Unlock == mu' = Free

\* Snapshot's own staleness test: it takes and releases the mutex.
Check(r) == /\ pc[r] = "check"
            /\ Unlocked
            /\ Goto(r, IF Stale THEN "lock" ELSE "load")
            /\ UNCHANGED <<clock, mu, lastAt, snap, asked, now, prev>>

\* Mutant: refresh does not test again.
NoSecondTest == TRUE

\* refresh's own staleness test.
StillStale == Stale

\* refresh takes the mutex and tests again; a cache that is fresh by now ends it.
Enter(r) == /\ pc[r] = "lock"
            /\ Unlocked
            /\ \/ /\ ~StillStale
                  /\ Goto(r, "load")
                  /\ UNCHANGED <<mu, now, prev>>
               \/ /\ StillStale
                  /\ Goto(r, "refresh")
                  /\ mu' = r
                  /\ now' = [now EXCEPT ![r] = clock]
                  /\ prev' = [prev EXCEPT ![r] = snap]
            /\ UNCHANGED <<clock, lastAt, snap, asked>>

\* snap.Store, lastAt = now and the deferred Unlock. lastAt is only read with
\* the mutex held, so nobody can tell the three apart. Locals that go out of
\* scope return to their initial value.
Publish(r, info, err) == /\ pc[r] = "refresh"
                         /\ snap' = [info |-> info, err |-> err]
                         /\ lastAt' = now[r]
                         /\ Unlock
                         /\ Goto(r, "load")
                         /\ now' = [now EXCEPT ![r] = 0]
                         /\ prev' = [prev EXCEPT ![r] = Placeholder]
                         /\ UNCHANGED <<clock, asked>>

\* Mutant: a refresh that fails publishes no data.
NoLastGood(r) == Blank

\* The data of the snapshot that refresh found.
LastGood(r) == prev[r].info

Refresh(r) == \/ \E i \in Infos, e \in Verdicts : Publish(r, i, e)
              \/ \E e \in Faults : Publish(r, LastGood(r), e)

\* return c.snap.Load(), without the mutex.
Load(r) == /\ pc[r] = "load"
           /\ Goto(r, "idle")
           /\ asked' = [asked EXCEPT ![r] = 0]
           /\ UNCHANGED <<clock, mu, lastAt, snap, now, prev>>

Tick == /\ clock < MaxClock
        /\ clock' = clock + 1
        /\ UNCHANGED <<mu, lastAt, snap, pc, asked, now, prev>>

Next == \/ \E r \in Requests : \/ Call(r) \/ Check(r) \/ Enter(r)
                               \/ Refresh(r) \/ Load(r)
        \/ Tick

Spec == Init /\ [][Next]_vars

\* A Go mutex hands itself to a waiter that has starved for a millisecond, so a
\* handler that keeps finding it free in passing gets it (strong fairness). A
\* refresh ends because its commands are killed when their context expires.
Fairness == \A r \in Requests : /\ SF_vars(Check(r))
                                /\ SF_vars(Enter(r))
                                /\ WF_vars(Refresh(r))
                                /\ WF_vars(Load(r))

FairSpec == Spec /\ Fairness

-----------------------------------------------------------------------------

\* The mutex is held exactly while its holder refreshes.
Exclusive == \A r \in Requests : pc[r] = "refresh" <=> mu = r

\* The refresh in progress began a full TTL after the last one that published,
\* and nobody replaced the snapshot it took as its last-good data.
RefreshInOrder == \A r \in Requests : pc[r] = "refresh" =>
                     /\ lastAt + TTL <= now[r]
                     /\ now[r] <= clock
                     /\ prev[r] = snap

\* A handler about to read the pointer reads the outcome of an attempt to refresh
\* that was not yet TTL old when it asked: never the snapshot of the constructor,
\* never the outcome of an earlier attempt. It bounds the age of the attempt: if
\* that ended in a fault, the reader is told so and gets the last-good data, which
\* may be of any age, and the placeholder's if no attempt has succeeded.
ServedFresh == \A r \in Requests : pc[r] = "load" => asked[r] < lastAt + TTL

\* Every request gets its snapshot, whoever else polls and whatever fails.
Answered == \A r \in Requests : pc[r] = "check" ~> pc[r] = "idle"

\* The contract, with the mutex and the two tests hidden.
Contract == INSTANCE FreshRead
              WITH at <- lastAt,
                   pub <- snap,
                   call <- [r \in Requests |->
                              IF pc[r] = "idle" THEN -1 ELSE asked[r]]

Implements == Contract!Spec

==============================================================================
