--------------------------- MODULE AdminCollector ---------------------------
(***************************************************************************)
(* internal/admin/eth.go: a refresh of the wired interface reads operstate *)
(* and runs `ip addr` and `ip route`. Unlike the other two collectors it   *)
(* mixes what it found with what it had: when `ip addr` fails the link is  *)
(* new and the addresses are old; when operstate fails it publishes all it *)
(* could find, and a failing `ip route` is no error.                       *)
(***************************************************************************)
EXTENDS Integers

CONSTANTS Requests, Free, TTL, MaxClock, ExecTimeout, \* as in CommandCache
          Addrs, \* IPv4 addresses
          Unset  \* no address

ASSUME AdminAssumption == /\ TTL \in Nat \ {0}
                          /\ ExecTimeout \in Nat \ {0}
                          /\ MaxClock \in Nat
                          /\ Unset \notin Addrs
                          /\ Free \notin Requests

Infos == [link : BOOLEAN, ip : Addrs \cup {Unset}, gateway : Addrs \cup {Unset}]

Blank == [link |-> FALSE, ip |-> Unset, gateway |-> Unset]

AddrErrors == {"ip addr", "ip addr and operstate"}

\* Outcomes that come with whatever the refresh could find. Those of AddrErrors
\* come with the last addresses.
Verdicts == {"nil", "absent", "operstate"}

VARIABLES clock, mu, lastAt, snap, pc, asked, now, prev,
          gone, step, found, deadline, \* as in CommandCache
          opErr                        \* refresh's local opErr is not nil

Collector == INSTANCE CommandCache
               WITH Faults <- AddrErrors, NoErr <- "nil", Absent <- "absent",
                    Steps <- {"operstate", "addr", "route"},
                    Commands <- {"addr", "route"}, First <- "operstate"

vars == <<clock, mu, lastAt, snap, pc, asked, now, prev,
          gone, step, found, deadline, opErr>>

TypeOK == /\ Collector!TypeOK
          /\ opErr \in [Requests -> BOOLEAN]

Init == /\ Collector!Init
        /\ opErr = [r \in Requests |-> FALSE]

-----------------------------------------------------------------------------

Store(r, info, err) == /\ Collector!Store(r, info, err)
                       /\ opErr' = [opErr EXCEPT ![r] = FALSE]

\* The link is up if operstate can be read and says so.
Operstate(r) == /\ step[r] = "operstate"
                /\ \E up, failed \in BOOLEAN :
                     /\ up => ~failed
                     /\ opErr' = [opErr EXCEPT ![r] = failed]
                     /\ Collector!Proceed(r, [found[r] EXCEPT !.link = up], "addr")

\* Mutant: an error that does not say what failed.
AddrErrorUnnamed(r) == "error"

\* What the snapshot says when `ip addr` fails.
AddrError(r) == IF opErr[r] THEN "ip addr and operstate" ELSE "ip addr"

\* Mutant: no addresses while `ip addr` fails.
NoFallback(r) == found[r]

\* Mutant: only the address is kept.
HalfFallback(r) == [found[r] EXCEPT !.ip = prev[r].info.ip]

\* The link that was just read, with the last addresses.
Fallback(r) == [prev[r].info EXCEPT !.link = found[r].link]

IpAddr(r) ==
  /\ step[r] = "addr"
  /\ \/ Store(r, Fallback(r), AddrError(r))
     \/ /\ Collector!Lives(r)
        /\ \E a \in Addrs \cup {Unset} :
             Collector!Proceed(r, [found[r] EXCEPT !.ip = a], "route")
        /\ UNCHANGED opErr

\* A route command that fails leaves the gateway blank and no error behind.
IpRoute(r) == /\ step[r] = "route"
              /\ \E a \in IF Collector!Lives(r) THEN Addrs \cup {Unset} ELSE {Unset} :
                   Store(r, [found[r] EXCEPT !.gateway = a],
                         IF opErr[r] THEN "operstate" ELSE "nil")

Exists(r) == Collector!Exists(r) /\ UNCHANGED opErr

Refresh(r) == Exists(r) \/ Operstate(r) \/ IpAddr(r) \/ IpRoute(r)

Handle(r) == /\ \/ Collector!Call(r)
                \/ Collector!Check(r)
                \/ Collector!Enter(r)
                \/ Collector!Load(r)
                \/ Collector!HangUp(r)
             /\ UNCHANGED opErr

Next == \/ \E r \in Requests : Handle(r) \/ Refresh(r)
        \/ Collector!Tick /\ UNCHANGED opErr

Spec == Init /\ [][Next]_vars

-----------------------------------------------------------------------------

\* What a refresh can fall back on: the link is always its own.
Addresses(info) == [ip |-> info.ip, gateway |-> info.gateway]

Projected(s) == [info |-> Addresses(s.info), err |-> s.err]

\* The cache of the addresses.
AddrCache == INSTANCE LazyCache
               WITH Infos <- {Addresses(i) : i \in Infos}, Blank <- Addresses(Blank),
                    Faults <- AddrErrors, NoErr <- "nil",
                    snap <- Projected(snap),
                    prev <- [r \in Requests |-> Projected(prev[r])]

\* The refreshes keep LazyCache's discipline: every way out publishes, unlocks and
\* dates the snapshot, and a failing `ip addr` republishes the addresses that the
\* cache still holds. eth.go:5 claims as much of every failed refresh and of all of
\* Info; but what operstate fails to tell is a verdict here, and Link is not kept.
KeepsDiscipline == AddrCache!Spec

\* eth.go:167: while `ip addr` fails, for whatever reason and however often, the
\* last addresses stay on display, with the error.
AddrErrorKeepsAddrs ==
  [][snap'.err \in AddrErrors => /\ snap'.info.ip = snap.info.ip
                                 /\ snap'.info.gateway = snap.info.gateway]_vars

==============================================================================
