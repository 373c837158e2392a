-------------------------- MODULE HotspotCollector --------------------------
(***************************************************************************)
(* internal/hotspot: a refresh of the access point's clients runs `iw dev  *)
(* station dump` and then looks every station up in dnsmasq's lease file.  *)
(* A snapshot's Clients are a function from the MAC of each station to the *)
(* IP its lease gives it; they are published sorted by MAC, so the         *)
(* function determines the slice. Radio data and hostnames are left out.   *)
(***************************************************************************)
EXTENDS Integers

CONSTANTS Requests, Free, TTL, MaxClock, ExecTimeout, \* as in CommandCache
          Macs,  \* stations
          Addrs, \* IPv4 addresses
          Unset  \* no address

ASSUME HotspotAssumption == /\ TTL \in Nat \ {0}
                            /\ ExecTimeout \in Nat \ {0}
                            /\ MaxClock \in Nat
                            /\ Unset \notin Addrs
                            /\ Free \notin Requests

\* parseLeases: the last lease of each MAC in the file.
Leases == UNION {[S -> Addrs] : S \in SUBSET Macs}

Infos == UNION {[S -> Addrs \cup {Unset}] : S \in SUBSET Macs}

Nobody == [m \in {} |-> Unset]

\* A lease file that cannot be read is an error, but published with what iw said:
\* the snapshot is not the last-good one, as it is after a fault.
Verdicts == {"nil", "absent", "leases"}

Faults == {"iw"}

VARIABLES clock, mu, lastAt, snap, pc, asked, now, prev,
          gone, step, found, deadline \* as in CommandCache

Collector == INSTANCE CommandCache
               WITH Blank <- Nobody, NoErr <- "nil", Absent <- "absent",
                    Steps <- {"iw", "leases"}, Commands <- {"iw"}, First <- "iw"

vars == <<clock, mu, lastAt, snap, pc, asked, now, prev,
          gone, step, found, deadline>>

TypeOK == Collector!TypeOK

Init == Collector!Init

-----------------------------------------------------------------------------

\* Mutant: an error that does not say what failed.
FailsUnnamed(r) == Collector!Store(r, prev[r].info, "error")

\* Mutant: nobody is shown while iw fails.
FailsEmpty(r) == Collector!Store(r, Nobody, "iw")

\* The last-good clients with the error.
Fails(r) == Collector!Store(r, prev[r].info, "iw")

\* parseStationDump: the stations that iw lists, without addresses yet.
StationDump(r) == /\ step[r] = "iw"
                  /\ \/ Fails(r)
                     \/ /\ Collector!Lives(r)
                        /\ \E S \in SUBSET Macs :
                             Collector!Proceed(r, [m \in S |-> Unset], "leases")

Enrich(clients, leases) ==
  [m \in DOMAIN clients |-> IF m \in DOMAIN leases THEN leases[m] ELSE clients[m]]

\* Reading the file takes no context. Without a file there are no leases; any
\* other error is published with clients that have no addresses.
ReadLeases(r) == /\ step[r] = "leases"
                 /\ \/ \E leases \in Leases :
                         Collector!Store(r, Enrich(found[r], leases), "nil")
                    \/ Collector!Store(r, found[r], "leases")

Refresh(r) == Collector!Exists(r) \/ StationDump(r) \/ ReadLeases(r)

Next == \/ \E r \in Requests : \/ Collector!Call(r)
                               \/ Collector!Check(r)
                               \/ Collector!Enter(r)
                               \/ Collector!Load(r)
                               \/ Collector!HangUp(r)
                               \/ Refresh(r)
        \/ Collector!Tick

Spec == Init /\ [][Next]_vars

-----------------------------------------------------------------------------

\* The refreshes keep LazyCache's discipline: every way out publishes, unlocks
\* and dates the snapshot, and an iw that fails republishes the clients that the
\* cache still holds.
KeepsDiscipline == Collector!Cache!Spec

==============================================================================
