---------------------------- MODULE WanCollector ----------------------------
(***************************************************************************)
(* internal/wan/collector.go: a refresh of the upstream link runs `iw dev  *)
(* link`, looks for wpa_supplicant and, when the link is associated, runs  *)
(* `ip addr` and `ip route`. What a command prints is any value of its     *)
(* type, read when the command ends: the host may change between any two.  *)
(***************************************************************************)
EXTENDS Integers

CONSTANTS Requests, Free, TTL, MaxClock, ExecTimeout, \* as in CommandCache
          Links, \* associations iw can report: SSID, BSSID and radio data
          Addrs, \* IPv4 addresses
          Unset  \* the zero value of a link or an address

ASSUME WanAssumption == /\ TTL \in Nat \ {0}
                        /\ ExecTimeout \in Nat \ {0}
                        /\ MaxClock \in Nat
                        /\ Unset \notin Links \cup Addrs
                        /\ Free \notin Requests

\* Info, with SSID .. TxBitrateMbps as one link; Connected is link # Unset.
Infos == [present : BOOLEAN, supplicant : BOOLEAN, link : Links \cup {Unset},
          ip : Addrs \cup {Unset}, gateway : Addrs \cup {Unset}]

Blank == [present |-> FALSE, supplicant |-> FALSE, link |-> Unset,
          ip |-> Unset, gateway |-> Unset]

Verdicts == {"nil", "absent"}

Faults == {"iw", "ip addr", "ip route"}

Commands == {"iw", "addr", "route"}

VARIABLES clock, mu, lastAt, snap, pc, asked, now, prev,
          gone, step, found, deadline \* as in CommandCache

Collector == INSTANCE CommandCache
               WITH NoErr <- "nil", Absent <- "absent",
                    Steps <- Commands, First <- "iw"

vars == <<clock, mu, lastAt, snap, pc, asked, now, prev,
          gone, step, found, deadline>>

TypeOK == Collector!TypeOK

Init == Collector!Init

-----------------------------------------------------------------------------

\* Mutant: an error that does not say which command failed.
FailsUnnamed(r, err) == Collector!Store(r, prev[r].info, "error")

\* Mutant: what the refresh has found so far is published with the error.
FailsHalfWay(r, err) == Collector!Store(r, found[r], err)

\* storeFailure: the data of the previous snapshot with the error.
Fails(r, err) == Collector!Store(r, prev[r].info, err)

\* Mutant: addresses are looked up whether or not the link is associated.
IwLinkGoesOn(r) == /\ step[r] = "iw"
                   /\ \E l \in Links \cup {Unset}, s \in BOOLEAN :
                        LET info == [Blank EXCEPT !.present = TRUE,
                                                  !.supplicant = s, !.link = l]
                        IN Collector!Proceed(r, info, "addr")

\* iw link and, once it has answered, the scan for wpa_supplicant.
IwLink(r) == /\ step[r] = "iw"
             /\ \/ Fails(r, "iw")
                \/ /\ Collector!Lives(r)
                   /\ \E l \in Links \cup {Unset}, s \in BOOLEAN :
                        LET info == [Blank EXCEPT !.present = TRUE,
                                                  !.supplicant = s, !.link = l]
                        IN \/ l = Unset /\ Collector!Store(r, info, "nil")
                           \/ l # Unset /\ Collector!Proceed(r, info, "addr")

IpAddr(r) == /\ step[r] = "addr"
             /\ \/ Fails(r, "ip addr")
                \/ /\ Collector!Lives(r)
                   /\ \E a \in Addrs \cup {Unset} :
                        Collector!Proceed(r, [found[r] EXCEPT !.ip = a], "route")

IpRoute(r) == /\ step[r] = "route"
              /\ \/ Fails(r, "ip route")
                 \/ /\ Collector!Lives(r)
                    /\ \E a \in Addrs \cup {Unset} :
                         Collector!Store(r, [found[r] EXCEPT !.gateway = a], "nil")

Refresh(r) == Collector!Exists(r) \/ IwLink(r) \/ IpAddr(r) \/ IpRoute(r)

Next == \/ \E r \in Requests : \/ Collector!Call(r)
                               \/ Collector!Check(r)
                               \/ Collector!Enter(r)
                               \/ Collector!Load(r)
                               \/ Collector!HangUp(r)
                               \/ Refresh(r)
        \/ Collector!Tick

Spec == Init /\ [][Next]_vars

-----------------------------------------------------------------------------

\* The refreshes keep LazyCache's discipline: every way out publishes, unlocks
\* and dates the snapshot, and a command that fails republishes the data that
\* the cache still holds.
KeepsDiscipline == Collector!Cache!Spec

\* collector.go:160: however many of the commands hang, a refresh keeps the other
\* handlers from the mutex no longer than one ExecTimeout.
HeldBriefly == \A r \in Requests : mu = r => clock <= now[r] + ExecTimeout

\* ssid.go:20: when the link is not associated nothing of an earlier association
\* is shown, however refreshes that failed half way are mixed in.
DisconnectedIsBlank == snap.info.link = Unset =>
                         snap.info.ip = Unset /\ snap.info.gateway = Unset

\* ssid.go:21 says that InterfacePresent is false when the interface is not in
\* sysfs, and app.js:153 shows "interface not found" then; a refresh that got as
\* far as a command found it there.
FaultMeansPresent == snap.err \in Faults => snap.info.present

==============================================================================
