------------------------------ MODULE Dashboard ------------------------------
(***************************************************************************)
(* internal/web/static/app.js: the WAN Up and WAN Down buttons. The page   *)
(* polls /api/stats, sends operations and runs its callbacks one at a      *)
(* time; polls and operations overlap and come back in any order. Behind   *)
(* it the server answers polls from a cache, and the helper starts or      *)
(* stops wpa_supplicant.                                                   *)
(***************************************************************************)
CONSTANTS Polls,  \* polls that can be out at once
          Clicks  \* operations that can be out at once

Ops == {"up", "down"}

\* What a poll says of the WAN: offered is that the interface is present and the
\* user an admin, active is supplicant_active.
Reports == [offered : BOOLEAN, active : BOOLEAN]

\* Mutant: a report without supplicant_active.
EmptyReport == [offered |-> FALSE]

\* What the server would report before its first refresh.
NoReport == [offered |-> FALSE, active |-> FALSE]

VARIABLES host,       \* external: what is the case
          cached,     \* external: the server's snapshot of it
          poll,       \* poll[p].at: "idle", "sent" or "answered" with a report
          click,      \* click[o].at: "idle", "sent" or "done" by the helper
          wanPending,
          lastSupplicantActive,
          hidden,     \* both buttons are hidden
          disabled,   \* the buttons that are disabled, as a set
          accepted    \* history: the operation that is pending was answered ok

vars == <<host, cached, poll, click, wanPending, lastSupplicantActive, hidden,
          disabled, accepted>>

page == <<wanPending, lastSupplicantActive, hidden, disabled, accepted>>

TypeOK == /\ host \in Reports
          /\ cached \in Reports
          /\ poll \in [Polls -> [at : {"idle", "sent", "answered"},
                                 report : Reports]]
          /\ click \in [Clicks -> [at : {"idle", "sent", "done"}, op : Ops]]
          /\ wanPending \in Ops \cup {"null"}
          /\ lastSupplicantActive \in BOOLEAN
          /\ hidden \in BOOLEAN
          /\ disabled \subseteq Ops
          /\ accepted \in BOOLEAN

\* index.html: the buttons are hidden at first, and not disabled.
Init == /\ host \in Reports
        /\ cached = NoReport
        /\ poll = [p \in Polls |-> [at |-> "idle", report |-> NoReport]]
        /\ click = [o \in Clicks |-> [at |-> "idle", op |-> "up"]]
        /\ wanPending = "null"
        /\ lastSupplicantActive = FALSE
        /\ hidden = TRUE
        /\ disabled = {}
        /\ accepted = FALSE

\* The state of the supplicant that an operation aims at.
Target(op) == op = "up"

-----------------------------------------------------------------------------

\* tick: the timer asks for /api/stats, whether or not earlier polls are back.
Tick(p) == /\ poll[p].at = "idle"
           /\ poll' = [poll EXCEPT ![p].at = "sent"]
           /\ UNCHANGED <<host, cached, click, page>>

\* The WAN collector's refresh, at any time and in one step: what WanCollector
\* does, without its faults, its TTL and its mutex.
Refresh == /\ cached' = host
           /\ UNCHANGED <<host, poll, click, page>>

\* The Stats handler answers with the WAN collector's snapshot, refreshed or not.
Answer(p) == /\ poll[p].at = "sent"
             /\ poll' = [poll EXCEPT ![p] = [at |-> "answered", report |-> cached]]
             /\ UNCHANGED <<host, cached, click, page>>

\* The fetch of a poll fails: the status label says so, the buttons stay.
PollFails(p) == /\ poll[p].at = "sent"
                /\ poll' = [poll EXCEPT ![p].at = "idle"]
                /\ UNCHANGED <<host, cached, click, page>>

\* Mutant: both buttons are given back.
NoneDisabled(active) == {}

\* The button that the state of the supplicant leaves without a purpose.
Pointless(active) == IF active THEN {"up"} ELSE {"down"}

\* renderWAN's part about the buttons, as a function of the report: pending is
\* forgotten when its target is reported or the buttons go, and both buttons
\* stay locked while it is not.
Reached(w) == wanPending # "null" /\ w.active = Target(wanPending)

RenderWAN(w) ==
  /\ lastSupplicantActive' = w.active
  /\ hidden' = ~w.offered
  /\ wanPending' = IF ~w.offered \/ Reached(w) THEN "null" ELSE wanPending
  /\ disabled' = CASE ~w.offered                              -> disabled
                   [] w.offered /\ wanPending' # "null"       -> Ops
                   [] OTHER                                   -> Pointless(w.active)

Render(p) == /\ poll[p].at = "answered"
             /\ RenderWAN(poll[p].report)
             /\ poll' = [poll EXCEPT ![p] = [at |-> "idle", report |-> NoReport]]
             /\ UNCHANGED <<host, cached, click, accepted>>

\* wanOp, up to its await: the buttons are not touched.
Click(o, op) == /\ click[o].at = "idle"
                /\ ~hidden
                /\ op \notin disabled
                /\ click' = [click EXCEPT ![o] = [at |-> "sent", op |-> op]]
                /\ wanPending' = op
                /\ accepted' = FALSE
                /\ UNCHANGED <<host, cached, poll, lastSupplicantActive, hidden,
                               disabled>>

\* External: the helper carries the operation out.
Execute(o) == /\ click[o].at = "sent"
              /\ click' = [click EXCEPT ![o].at = "done"]
              /\ host' = [host EXCEPT !.active = Target(click[o].op)]
              /\ UNCHANGED <<cached, poll, wanPending, lastSupplicantActive,
                             hidden, disabled, accepted>>

Idle(o) == click' = [click EXCEPT ![o] = [at |-> "idle", op |-> "up"]]

\* The reply is ok: wanOp leaves everything to renderWAN.
Succeeds(o) == /\ click[o].at = "done"
               /\ Idle(o)
               /\ accepted' = (accepted \/ click[o].op = wanPending)
               /\ UNCHANGED <<host, cached, poll, wanPending,
                              lastSupplicantActive, hidden, disabled>>

\* Mutant: an operation that fails stays pending.
FailsPending(o) == /\ click[o].at \in {"sent", "done"}
                   /\ Idle(o)
                   /\ disabled' = Pointless(lastSupplicantActive)
                   /\ UNCHANGED <<host, cached, poll, wanPending,
                                  lastSupplicantActive, hidden, accepted>>

\* The reply is an error, or lost: wanOp forgets what is pending and calls
\* restoreWanButtons.
Fails(o) == /\ click[o].at \in {"sent", "done"}
            /\ Idle(o)
            /\ wanPending' = "null"
            /\ disabled' = Pointless(lastSupplicantActive)
            /\ UNCHANGED <<host, cached, poll, lastSupplicantActive, hidden, accepted>>

\* External: the adapter comes or goes, the supplicant starts or dies.
HostChanges == /\ host' \in Reports
               /\ UNCHANGED <<cached, poll, click, wanPending,
                              lastSupplicantActive, hidden, disabled, accepted>>

Next == \/ \E p \in Polls : Tick(p) \/ Answer(p) \/ PollFails(p) \/ Render(p)
        \/ \E o \in Clicks : \/ \E op \in Ops : Click(o, op)
                             \/ Execute(o) \/ Succeeds(o) \/ Fails(o)
        \/ Refresh
        \/ HostChanges

Spec == Init /\ [][Next]_vars

-----------------------------------------------------------------------------

\* app.js:214-237, 346-354: whichever callback wrote the buttons last, an admin
\* is never offered to start and to stop the WAN at the same time.
OneWayOnly == ~hidden => disabled # {}

\* app.js:361-376: the page never waits for an operation that has failed: what
\* is pending is under way or was accepted.
PendingHasCause ==
  wanPending # "null" => \/ accepted
                         \/ \E o \in Clicks : /\ click[o].at # "idle"
                                              /\ click[o].op = wanPending

Rendered(p) == poll[p].at = "answered" /\ poll'[p].at = "idle"

\* app.js:357 says that a tick that fires while the request is in flight keeps
\* both buttons locked; here, a tick that does not report the target state.
LockedInFlight ==
  [][\A p \in Polls, o \in Clicks :
       /\ Rendered(p)
       /\ poll[p].report.offered
       /\ click[o].at # "idle"
       /\ poll[p].report.active # Target(click[o].op)
       => disabled' = Ops]_vars

==============================================================================
