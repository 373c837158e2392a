----------------------------- MODULE PagesProofs -----------------------------
(***************************************************************************)
(* Theorems about the scripts of the two pages.                            *)
(***************************************************************************)
EXTENDS Dashboard, ReloadButton, WifiNetworks, FiniteSetTheorems, TLAPS

(***************************************************************************)
(* The WAN buttons of the dashboard, for any number of polls and of        *)
(* operations that overlap.                                                *)
(***************************************************************************)

\* The page starts with hidden buttons and nothing out.
LEMMA InitTypeOK == Init => TypeOK
<1> SUFFICES ASSUME Init
             PROVE  TypeOK
  OBVIOUS
<1>1. NoReport \in Reports
  BY DEF NoReport, Reports
<1>2. poll \in [Polls -> [at : {"idle", "sent", "answered"}, report : Reports]]
  BY <1>1 DEF Init
<1>3. click \in [Clicks -> [at : {"idle", "sent", "done"}, op : Ops]]
  BY DEF Init, Ops
<1> QED
  BY <1>1, <1>2, <1>3 DEF Init, TypeOK

\* Every step keeps the types.
LEMMA NextTypeOK == TypeOK /\ [Next]_vars => TypeOK'
<1> SUFFICES ASSUME TypeOK, [Next]_vars
             PROVE  TypeOK'
  OBVIOUS
<1> USE DEF TypeOK, Reports, Ops
<1>1. ASSUME NEW p \in Polls, Tick(p) \/ Answer(p) \/ PollFails(p)
      PROVE  TypeOK'
  BY <1>1 DEF Tick, Answer, PollFails, page
<1>2. ASSUME NEW p \in Polls, Render(p)
      PROVE  TypeOK'
  <2>1. poll[p].report \in Reports
    OBVIOUS
  <2>2. /\ wanPending' \in Ops \cup {"null"}
        /\ lastSupplicantActive' \in BOOLEAN
        /\ hidden' \in BOOLEAN
        /\ disabled' \subseteq Ops
    BY <1>2, <2>1 DEF Render, RenderWAN, Pointless
  <2>3. poll' \in [Polls -> [at : {"idle", "sent", "answered"}, report : Reports]]
    BY <1>2 DEF Render, NoReport
  <2> QED
    BY <1>2, <2>2, <2>3 DEF Render
<1>3. ASSUME NEW o \in Clicks, NEW op \in Ops, Click(o, op)
      PROVE  TypeOK'
  BY <1>3 DEF Click
<1>4. ASSUME NEW o \in Clicks, Execute(o)
      PROVE  TypeOK'
  <2>1. host' \in Reports
    BY <1>4 DEF Execute, Target
  <2>2. click' \in [Clicks -> [at : {"idle", "sent", "done"}, op : Ops]]
    BY <1>4 DEF Execute
  <2> QED
    BY <1>4, <2>1, <2>2 DEF Execute
<1>5. ASSUME NEW o \in Clicks, Succeeds(o) \/ Fails(o)
      PROVE  TypeOK'
  <2>1. click' \in [Clicks -> [at : {"idle", "sent", "done"}, op : Ops]]
    BY <1>5 DEF Succeeds, Fails, Idle
  <2>2. accepted' \in BOOLEAN
    BY <1>5 DEF Succeeds, Fails
  <2> QED
    BY <1>5, <2>1, <2>2 DEF Succeeds, Fails, Pointless
<1>6. CASE Refresh \/ HostChanges
  BY <1>6 DEF Refresh, HostChanges, page
<1>7. CASE UNCHANGED vars
  BY <1>7 DEF vars
<1> QED
  BY <1>1, <1>2, <1>3, <1>4, <1>5, <1>6, <1>7 DEF Next

\* The type invariant of the WAN buttons.
THEOREM TypeCorrect == Spec => []TypeOK
BY InitTypeOK, NextTypeOK, PTL DEF Spec

-----------------------------------------------------------------------------

\* Whoever writes the buttons leaves one of them disabled, or both hidden.
LEMMA NextOneWay == TypeOK /\ OneWayOnly /\ [Next]_vars => OneWayOnly'
<1> SUFFICES ASSUME TypeOK, OneWayOnly, [Next]_vars
             PROVE  OneWayOnly'
  OBVIOUS
<1> USE DEF OneWayOnly
<1>1. ASSUME NEW p \in Polls, Render(p)
      PROVE  OneWayOnly'
  <2>1. poll[p].report.offered \in BOOLEAN
    BY DEF TypeOK, Reports
  <2> QED
    BY <1>1, <2>1 DEF Render, RenderWAN, Pointless, Ops
<1>2. ASSUME NEW o \in Clicks, Fails(o)
      PROVE  OneWayOnly'
  BY <1>2 DEF Fails, Pointless
<1>3. CASE UNCHANGED <<hidden, disabled>>
  BY <1>3
<1> QED
  BY <1>1, <1>2, <1>3
  DEF Next, vars, page, Tick, Answer, PollFails, Click, Execute, Succeeds, Refresh,
      HostChanges

\* app.js:214-237, 346-354: for any number of polls and operations that overlap, an
\* admin is never offered to start and to stop the WAN at the same time.
THEOREM OneWay == Spec => []OneWayOnly
<1>1. Init => OneWayOnly
  BY DEF Init, OneWayOnly
<1> QED
  BY <1>1, InitTypeOK, NextTypeOK, NextOneWay, PTL DEF Spec

-----------------------------------------------------------------------------

\* A reply ends an operation, and either accounts for what is pending or ends that.
LEMMA NextPending == TypeOK /\ PendingHasCause /\ [Next]_vars => PendingHasCause'
<1> SUFFICES ASSUME TypeOK, PendingHasCause, [Next]_vars, wanPending' # "null",
                    ~accepted'
             PROVE  \E u \in Clicks : click'[u].at # "idle" /\ click'[u].op = wanPending'
  BY DEF PendingHasCause
<1> DEFINE Pending == \E u \in Clicks : /\ click'[u].at # "idle"
                                        /\ click'[u].op = wanPending'
<1>1. ASSUME wanPending # "null", ~accepted
      PROVE  \E u \in Clicks : click[u].at # "idle" /\ click[u].op = wanPending
  BY <1>1 DEF PendingHasCause
<1>2. ASSUME NEW p \in Polls, Render(p)
      PROVE  Pending
  <2>1. wanPending = wanPending' /\ accepted' = accepted /\ click' = click
    BY <1>2 DEF Render, RenderWAN
  <2> QED
    BY <1>1, <2>1
<1>3. ASSUME NEW o \in Clicks, NEW op \in Ops, Click(o, op)
      PROVE  Pending
  <2>1. click'[o] = [at |-> "sent", op |-> op] /\ wanPending' = op
    BY <1>3 DEF Click, TypeOK
  <2> QED
    BY <2>1
<1>4. ASSUME NEW o \in Clicks, Execute(o)
      PROVE  Pending
  <2>1. \A u \in Clicks : /\ click[u].at # "idle" => click'[u].at # "idle"
                          /\ click'[u].op = click[u].op
    BY <1>4 DEF Execute, TypeOK
  <2>2. wanPending' = wanPending /\ accepted' = accepted
    BY <1>4 DEF Execute
  <2> QED
    BY <1>1, <2>1, <2>2
<1>5. ASSUME NEW o \in Clicks, Succeeds(o)
      PROVE  Pending
  <2>1. wanPending' = wanPending /\ ~accepted /\ click[o].op # wanPending
    BY <1>5 DEF Succeeds
  <2>2. \A u \in Clicks \ {o} : click'[u] = click[u]
    BY <1>5 DEF Succeeds, Idle, TypeOK
  <2> QED
    BY <1>1, <2>1, <2>2
<1>6. ASSUME NEW o \in Clicks, Fails(o)
      PROVE  Pending
  BY <1>6 DEF Fails
<1>7. CASE UNCHANGED <<wanPending, accepted, click>>
  BY <1>1, <1>7
<1> QED
  BY <1>2, <1>3, <1>4, <1>5, <1>6, <1>7
  DEF Next, vars, page, Tick, Answer, PollFails, Refresh, HostChanges

\* app.js:361-376: for any number of operations that overlap, what the page waits
\* for is under way or was accepted.
THEOREM PendingIsCaused == Spec => []PendingHasCause
<1>1. Init => PendingHasCause
  BY DEF Init, PendingHasCause
<1> QED
  BY <1>1, InitTypeOK, NextTypeOK, NextPending, PTL DEF Spec

-----------------------------------------------------------------------------

(***************************************************************************)
(* The restart button of the Wi-Fi page, for any number of restarts and of *)
(* polls that overlap.                                                     *)
(***************************************************************************)

\* Every step keeps the types.
LEMMA NextButtonTypeOK == ButtonTypeOK /\ [ButtonNext]_buttonVars => ButtonTypeOK'
<1> SUFFICES ASSUME ButtonTypeOK, [ButtonNext]_buttonVars
             PROVE  ButtonTypeOK'
  OBVIOUS
<1> USE DEF ButtonTypeOK
<1>1. FetchStats => supplicantActive' \in BOOLEAN /\ reloadDisabled' \in BOOLEAN
  BY DEF FetchStats, UpdateReloadButton
<1>2. ASSUME NEW c \in Restarts, ReloadSupplicant(c)
      PROVE  ButtonTypeOK'
  BY <1>2 DEF ReloadSupplicant, Await
<1>3. ASSUME NEW c \in Restarts, Restarted(c) \/ Refused(c)
      PROVE  ButtonTypeOK'
  BY <1>3 DEF Restarted, Refused, Await
<1>4. ASSUME NEW c \in Restarts, Ends(c) \/ ErrorEnds(c) \/ Returns(c)
      PROVE  ButtonTypeOK'
  BY <1>1, <1>4 DEF Ends, ErrorEnds, Returns, Finally, Await
<1>5. ASSUME NEW p \in StatsPolls, Poll(p) \/ PollEnds(p)
      PROVE  ButtonTypeOK'
  BY <1>1, <1>5 DEF Poll, PollEnds
<1>6. CASE UNCHANGED buttonVars
  BY <1>6 DEF buttonVars
<1> QED
  BY <1>2, <1>3, <1>4, <1>5, <1>6 DEF ButtonNext, Step

\* The type invariant of the restart button.
THEOREM ButtonTypeCorrect == ButtonSpec => []ButtonTypeOK
<1>1. ButtonInit => ButtonTypeOK
  BY DEF ButtonInit, ButtonTypeOK
<1> QED
  BY <1>1, NextButtonTypeOK, PTL DEF ButtonSpec

-----------------------------------------------------------------------------

\* The inductive invariant: a fetch that is over while a restart is in progress
\* takes its report but leaves the button, which must then be disabled.
Offered == /\ ButtonTypeOK
           /\ OfferedOnlyIfActive
           /\ reloadInProgress => reloadDisabled

\* What becomes of the button when a fetch is over.
LEMMA FetchKeepsOffered ==
  ASSUME Offered, FetchStats
  PROVE  /\ ~reloadDisabled' => supplicantActive'
         /\ reloadInProgress => reloadDisabled'
<1>1. CASE reloadInProgress
  BY <1>1 DEF Offered, OfferedOnlyIfActive, FetchStats, UpdateReloadButton
<1>2. CASE ~reloadInProgress
  BY <1>2 DEF Offered, ButtonTypeOK, OfferedOnlyIfActive, FetchStats, UpdateReloadButton
<1> QED
  BY <1>1, <1>2

\* Every step keeps the inductive invariant.
LEMMA NextOffered == Offered /\ [ButtonNext]_buttonVars => Offered'
<1> SUFFICES ASSUME Offered, [ButtonNext]_buttonVars
             PROVE  OfferedOnlyIfActive' /\ (reloadInProgress' => reloadDisabled')
  BY NextButtonTypeOK DEF Offered
<1> USE DEF Offered, OfferedOnlyIfActive
<1>1. ASSUME NEW c \in Restarts, ReloadSupplicant(c)
      PROVE  OfferedOnlyIfActive' /\ (reloadInProgress' => reloadDisabled')
  BY <1>1 DEF ReloadSupplicant
<1>2. ASSUME NEW c \in Restarts, Restarted(c) \/ Refused(c) \/ Ends(c)
      PROVE  OfferedOnlyIfActive' /\ (reloadInProgress' => reloadDisabled')
  BY <1>2 DEF Restarted, Refused, Ends, Finally
<1>3. ASSUME NEW c \in Restarts, ErrorEnds(c) \/ Returns(c)
      PROVE  OfferedOnlyIfActive' /\ (reloadInProgress' => reloadDisabled')
  BY <1>3, FetchKeepsOffered DEF ErrorEnds, Returns, Finally
<1>4. ASSUME NEW p \in StatsPolls, Poll(p)
      PROVE  OfferedOnlyIfActive' /\ (reloadInProgress' => reloadDisabled')
  BY <1>4 DEF Poll
<1>5. ASSUME NEW p \in StatsPolls, PollEnds(p)
      PROVE  OfferedOnlyIfActive' /\ (reloadInProgress' => reloadDisabled')
  BY <1>5, FetchKeepsOffered DEF PollEnds
<1>6. CASE UNCHANGED buttonVars
  BY <1>6 DEF buttonVars
<1> QED
  BY <1>1, <1>2, <1>3, <1>4, <1>5, <1>6 DEF ButtonNext, Step

\* wifi.js:20-24: for any number of restarts and polls that overlap, a restart is
\* offered only if the page last heard that the supplicant is running.
THEOREM OfferIsJustified == ButtonSpec => []OfferedOnlyIfActive
<1>1. ButtonInit => Offered
  BY DEF ButtonInit, Offered, ButtonTypeOK, OfferedOnlyIfActive
<1>2. Offered => OfferedOnlyIfActive
  BY DEF Offered
<1> QED
  BY <1>1, <1>2, NextOffered, PTL DEF ButtonSpec

-----------------------------------------------------------------------------

(***************************************************************************)
(* The network list of the Wi-Fi page, for any networks and any number of  *)
(* tasks that overlap.                                                     *)
(***************************************************************************)

\* The page's first request is a task like any other.
LEMMA InitNetworksTypeOK == NetworksInit => NetworksTypeOK
<1> SUFFICES ASSUME NetworksInit
             PROVE  NetworksTypeOK
  OBVIOUS
<1>1. PICK t \in Tasks :
        task = [u \in Tasks |-> IF u = t THEN [Done EXCEPT !.at = "get"] ELSE Done]
  BY DEF NetworksInit
<1>2. task \in [Tasks -> TaskStates]
  BY <1>1 DEF Done, TaskStates
<1> QED
  BY <1>2 DEF NetworksInit, NetworksTypeOK

\* Every step keeps the types: what a page shows is a list that the helper had.
LEMMA NextNetworksTypeOK == NetworksTypeOK /\ [NetworksNext]_networksVars => NetworksTypeOK'
<1> SUFFICES ASSUME NetworksTypeOK, [NetworksNext]_networksVars
             PROVE  NetworksTypeOK'
  OBVIOUS
<1> USE DEF NetworksTypeOK, TaskStates
<1>1. ASSUME NEW t \in Tasks, NEW s \in Ssids, AddNetwork(t, s)
      PROVE  NetworksTypeOK'
  BY <1>1 DEF AddNetwork, Asks, Alone
<1>2. ASSUME NEW t \in Tasks, NEW s \in Ssids, RemoveNetwork(t, s)
      PROVE  NetworksTypeOK'
  BY <1>2 DEF RemoveNetwork, Asks, Alone
<1>3. ASSUME NEW t \in Tasks, HelperEdits(t)
      PROVE  NetworksTypeOK'
  <2>1. task' \in [Tasks -> TaskStates]
    BY <1>3 DEF HelperEdits, Answers
  <2> QED
    BY <1>3, <2>1 DEF HelperEdits
<1>4. ASSUME NEW t \in Tasks, Edited(t)
      PROVE  NetworksTypeOK'
  <2>1. task' \in [Tasks -> TaskStates]
    <3>1. CASE Reloads(t)
      <4>1. task[t].adding \in BOOLEAN
        OBVIOUS
      <4> DEFINE asking == [at |-> "get", adding |-> task[t].adding, ssids |-> {},
                            answer |-> "none"]
      <4>2. asking \in TaskStates
        BY <4>1, Zenon
      <4>3. task' = [task EXCEPT ![t] = asking]
        BY <3>1 DEF Reloads, Asks
      <4> HIDE DEF asking
      <4> QED
        BY <4>2, <4>3
    <3>2. CASE TaskEnds(t)
      BY <3>2 DEF TaskEnds, Done
    <3> QED
      BY <1>4, <3>1, <3>2 DEF Edited
  <2>2. addDisabled' \in BOOLEAN /\ excused' \in BOOLEAN
    BY <1>4 DEF Edited, Reloads, TaskEnds, Alone
  <2> QED
    BY <1>4, <2>1, <2>2 DEF Edited
<1>5. ASSUME NEW t \in Tasks, Report(t)
      PROVE  NetworksTypeOK'
  <2>1. task' \in [Tasks -> TaskStates]
    BY <1>5 DEF Report, Answers
  <2> QED
    BY <1>5, <2>1 DEF Report
<1>6. ASSUME NEW t \in Tasks, Reported(t)
      PROVE  NetworksTypeOK'
  BY <1>6 DEF Reported, TaskEnds, Done
<1>7. CASE Foreign
  BY <1>7 DEF Foreign
<1>8. CASE UNCHANGED networksVars
  BY <1>8 DEF networksVars
<1> QED
  BY <1>1, <1>2, <1>3, <1>4, <1>5, <1>6, <1>7, <1>8 DEF NetworksNext

\* The type invariant of the network list.
THEOREM NetworksTypeCorrect == NetworksSpec => []NetworksTypeOK
BY InitNetworksTypeOK, NextNetworksTypeOK, PTL DEF NetworksSpec

-----------------------------------------------------------------------------

\* Only the end of an addition takes a task from those that add, and it enables
\* the button.
LEMMA NextLocked ==
  NetworksTypeOK /\ LockedWhileAdding /\ [NetworksNext]_networksVars => LockedWhileAdding'
<1> SUFFICES ASSUME NetworksTypeOK, LockedWhileAdding, [NetworksNext]_networksVars,
                    addDisabled'
             PROVE  \E u \in Tasks : task'[u].adding
  BY DEF LockedWhileAdding
<1> USE DEF NetworksTypeOK, TaskStates
<1>1. ASSUME NEW t \in Tasks, NEW s \in Ssids, AddNetwork(t, s)
      PROVE  \E u \in Tasks : task'[u].adding
  BY <1>1 DEF AddNetwork, Asks
<1>2. ASSUME addDisabled
      PROVE  \E u \in Tasks : task[u].adding
  BY <1>2 DEF LockedWhileAdding
<1>3. ASSUME NEW t \in Tasks, NEW s \in Ssids, RemoveNetwork(t, s)
      PROVE  \E u \in Tasks : task'[u].adding
  BY <1>2, <1>3 DEF RemoveNetwork, Asks, Done
<1>4. ASSUME NEW t \in Tasks, HelperEdits(t) \/ Report(t)
      PROVE  \E u \in Tasks : task'[u].adding
  <2>1. \A u \in Tasks : task'[u].adding = task[u].adding
    <3>1. ASSUME NEW a, Answers(t, a)
          PROVE  \A u \in Tasks : task'[u].adding = task[u].adding
      BY <3>1 DEF Answers
    <3>2. ASSUME task' = [task EXCEPT ![t].answer = "ok", ![t].ssids = list]
          PROVE  \A u \in Tasks : task'[u].adding = task[u].adding
      BY <3>2
    <3> QED
      BY <1>4, <3>1, <3>2 DEF HelperEdits, Report
  <2> QED
    BY <1>2, <1>4, <2>1 DEF HelperEdits, Report
<1>5. ASSUME NEW t \in Tasks, TaskEnds(t)
      PROVE  \E u \in Tasks : task'[u].adding
  <2>1. addDisabled /\ ~task[t].adding
    BY <1>5 DEF TaskEnds
  <2>2. \A u \in Tasks \ {t} : task'[u] = task[u]
    BY <1>5 DEF TaskEnds
  <2> QED
    BY <1>2, <2>1, <2>2
<1>6. ASSUME NEW t \in Tasks, Reloads(t)
      PROVE  \E u \in Tasks : task'[u].adding
  <2>1. \A u \in Tasks : task'[u].adding = task[u].adding
    <3>1. task'[t].adding = task[t].adding
      BY <1>6 DEF Reloads, Asks
    <3>2. \A u \in Tasks \ {t} : task'[u] = task[u]
      BY <1>6 DEF Reloads, Asks
    <3> QED
      BY <3>1, <3>2
  <2> QED
    BY <1>2, <1>6, <2>1 DEF Reloads
<1>7. CASE Foreign \/ UNCHANGED networksVars
  BY <1>2, <1>7 DEF Foreign, networksVars
<1> QED
  BY <1>1, <1>3, <1>4, <1>5, <1>6, <1>7 DEF NetworksNext, Edited, Reported

\* wifi.js:165: for any number of additions, removals and loads that overlap,
\* btn-add is disabled only while an addition is on its way.
THEOREM LockTracksAdditions == NetworksSpec => []LockedWhileAdding
<1>1. NetworksInit => LockedWhileAdding
  BY DEF NetworksInit, LockedWhileAdding
<1> QED
  BY <1>1, InitNetworksTypeOK, NextNetworksTypeOK, NextLocked, PTL DEF NetworksSpec

-----------------------------------------------------------------------------

\* What a task is after a request has been sent or answered, or when it is over; the
\* others are left alone.
LEMMA TaskForms ==
  ASSUME NetworksTypeOK, NEW t \in Tasks
  PROVE  /\ \A at, adding, ssids : Asks(t, at, adding, ssids) =>
              /\ task'[t] = [at |-> at, adding |-> adding, ssids |-> ssids, answer |-> "none"]
              /\ \A u \in Tasks \ {t} : task'[u] = task[u]
         /\ \A a : Answers(t, a) =>
              /\ task'[t].at = task[t].at /\ task'[t].ssids = task[t].ssids
              /\ task'[t].answer = a
              /\ \A u \in Tasks \ {t} : task'[u] = task[u]
         /\ TaskEnds(t) => /\ task'[t] = Done
                           /\ \A u \in Tasks \ {t} : task'[u] = task[u]
<1>1. task \in [Tasks -> TaskStates]
  BY DEF NetworksTypeOK
<1>2. \A at, adding, ssids : Asks(t, at, adding, ssids) =>
        /\ task'[t] = [at |-> at, adding |-> adding, ssids |-> ssids, answer |-> "none"]
        /\ \A u \in Tasks \ {t} : task'[u] = task[u]
  BY <1>1 DEF Asks
<1>3. \A a : Answers(t, a) =>
        /\ task'[t].at = task[t].at /\ task'[t].ssids = task[t].ssids
        /\ task'[t].answer = a
        /\ \A u \in Tasks \ {t} : task'[u] = task[u]
  BY <1>1 DEF Answers, TaskStates
<1>4. TaskEnds(t) => task'[t] = Done /\ \A u \in Tasks \ {t} : task'[u] = task[u]
  BY <1>1 DEF TaskEnds
<1> QED
  BY <1>2, <1>3, <1>4

\* A task that is not out has neither a request nor an answer.
LEMMA DoneHasNone ==
  /\ Done.at = "none" /\ Done.answer = "none"
  /\ \A at, adding, ssids, answer :
       [at |-> at, adding |-> adding, ssids |-> ssids, answer |-> answer].at = at
BY DEF Done

\* A task that will put a new list into rows, or learn that it cannot.
Owed(t) == \/ task[t].at = "get"
           \/ task[t].at \in {"post", "delete"} /\ task[t].answer = "ok"

\* ShowsHelperList for every state in which no task owes a list, those included in
\* which a change is still out: as long as it is not done, what is shown is right.
UpToDate == ~outdated /\ (\A t \in Tasks : ~Owed(t)) => rows \in {list, Dash}

\* A task that has asked for the list will bring it.
LEMMA ReloadOwes ==
  ASSUME NetworksTypeOK, NEW t \in Tasks, Reloads(t)
  PROVE  Owed(t)'
<1> DEFINE adding == task[t].adding
           asking == [at |-> "get", adding |-> adding, ssids |-> {}, answer |-> "none"]
<1>1. task' = [task EXCEPT ![t] = asking]
  BY DEF Reloads, Asks
<1>2. asking.at = "get"
  <2> HIDE DEF adding
  <2> QED
    OBVIOUS
<1> HIDE DEF asking
<1>3. task'[t].at = "get"
  BY <1>1, <1>2 DEF NetworksTypeOK
<1> QED
  BY <1>3 DEF Owed

\* A change that is done leaves its task owing a list until that has come; only what
\* no task knows of makes the page outdated.
LEMMA NextUpToDate ==
  NetworksTypeOK /\ UpToDate /\ [NetworksNext]_networksVars => UpToDate'
<1> SUFFICES ASSUME NetworksTypeOK, UpToDate, [NetworksNext]_networksVars,
                    ~outdated', \A u \in Tasks : ~Owed(u)'
             PROVE  rows' \in {list', Dash}
  BY DEF UpToDate
<1>1. ASSUME NEW t \in Tasks, NEW s \in Ssids, AddNetwork(t, s) \/ RemoveNetwork(t, s)
      PROVE  rows' \in {list', Dash}
  <2>1. /\ task[t] = Done
        /\ UNCHANGED <<list, rows, outdated>>
        /\ \E at, adding : Asks(t, at, adding, {s})
    BY <1>1 DEF AddNetwork, RemoveNetwork
  <2>2. \A u \in Tasks \ {t} : task'[u] = task[u]
    BY <2>1, TaskForms
  <2>3. \A u \in Tasks : ~Owed(u)
    BY <2>1, <2>2, DoneHasNone DEF Owed
  <2> QED
    BY <2>1, <2>3 DEF UpToDate
<1>2. ASSUME NEW t \in Tasks, HelperEdits(t)
      PROVE  rows' \in {list', Dash}
  <2>1. task[t].at \in {"post", "delete"} /\ task[t].answer = "none" /\ rows' = rows
    BY <1>2 DEF HelperEdits
  <2>2. ~Answers(t, "ok")
    BY <2>1, TaskForms DEF Owed
  <2>3. Answers(t, "failed") /\ UNCHANGED <<list, outdated>>
    BY <1>2, <2>2 DEF HelperEdits
  <2>4. \A u \in Tasks : ~Owed(u)
    BY <2>1, <2>3, TaskForms DEF Owed
  <2> QED
    BY <2>1, <2>3, <2>4 DEF UpToDate
<1>3. ASSUME NEW t \in Tasks, Edited(t)
      PROVE  rows' \in {list', Dash}
  <2>1. UNCHANGED <<list, rows, outdated>>
    BY <1>3 DEF Edited
  <2>2. ~Reloads(t)
    BY ReloadOwes
  <2>3. task[t].answer = "failed" /\ TaskEnds(t)
    BY <1>3, <2>2 DEF Edited
  <2>4. task[t].at \in {"post", "delete"}
    BY <1>3 DEF Edited
  <2>5. \A u \in Tasks : ~Owed(u)
    BY <2>3, <2>4, TaskForms DEF Owed
  <2> QED
    BY <2>1, <2>5 DEF UpToDate
<1>4. ASSUME NEW t \in Tasks, Report(t)
      PROVE  rows' \in {list', Dash}
  <2>1. task'[t].at = "get"
    <3>1. CASE Answers(t, "failed")
      BY <1>4, <3>1, TaskForms DEF Report
    <3>2. CASE task' = [task EXCEPT ![t].answer = "ok", ![t].ssids = list]
      BY <1>4, <3>2 DEF Report, NetworksTypeOK, TaskStates
    <3> QED
      BY <1>4, <3>1, <3>2 DEF Report
  <2> QED
    BY <2>1 DEF Owed
<1>5. ASSUME NEW t \in Tasks, Reported(t)
      PROVE  rows' \in {list', Dash}
  BY <1>5 DEF Reported
<1>6. CASE Foreign
  BY <1>6 DEF Foreign
<1>7. CASE UNCHANGED networksVars
  BY <1>7 DEF networksVars, UpToDate, Owed
<1> QED
  BY <1>1, <1>2, <1>3, <1>4, <1>5, <1>6, <1>7 DEF NetworksNext

\* wifi.js:159 and 183: for any networks and any number of tasks that overlap in any
\* way, when all are over the page shows the helper's list, or none, unless what it
\* shows was old when it came, the answer to a change was lost or somebody else has
\* changed the list.
THEOREM ListIsShown == NetworksSpec => []ShowsHelperList
<1>1. NetworksInit => UpToDate
  <2> SUFFICES ASSUME NetworksInit
               PROVE  \E t \in Tasks : Owed(t)
    BY DEF UpToDate
  <2>1. PICK t \in Tasks :
          task = [u \in Tasks |-> IF u = t THEN [Done EXCEPT !.at = "get"] ELSE Done]
    BY DEF NetworksInit
  <2> QED
    BY <2>1 DEF Owed, Done
<1>2. UpToDate => ShowsHelperList
  BY DoneHasNone DEF UpToDate, Owed, ShowsHelperList
<1> QED
  BY <1>1, <1>2, InitNetworksTypeOK, NextNetworksTypeOK, NextUpToDate, PTL
     DEF NetworksSpec

-----------------------------------------------------------------------------

\* A task that awaits the answer to a change, and has not been told of a success.
Undone(t) == task[t].at \in {"post", "delete"} /\ task[t].answer # "ok"

\* What holds as long as the page has missed nothing: one task at most is out; the
\* list it has been answered is the helper's; so is the one that is shown, until a
\* change is done; and what is to be removed is not all that there is.
OneOut == \A t, u \in Tasks : task[t] # Done /\ task[u] # Done => t = u

Fetched == \A t \in Tasks :
             task[t].at = "get" /\ task[t].answer = "ok" => task[t].ssids = list

Shown == (\A t \in Tasks : task[t] = Done \/ Undone(t)) => rows \in {list, Dash}

LeavesOne == \A t \in Tasks :
               task[t].at = "delete" /\ task[t].answer = "none" => ~(list \subseteq task[t].ssids)

\* EmptiedUnawares with what it takes to be inductive.
Aware == ~excused => OneOut /\ Fetched /\ Shown /\ LeavesOne

AwareInv == NetworksTypeOK /\ Aware

\* More than one network is not within one.
LEMMA MoreThanOne ==
  ASSUME NEW S, NEW s, Cardinality(S) > 1
  PROVE  ~(S \subseteq {s})
<1> SUFFICES ASSUME S \subseteq {s}
             PROVE  Cardinality(S) <= 1 /\ Cardinality(S) \in Nat
  OBVIOUS
<1>1. IsFiniteSet({s}) /\ Cardinality({s}) = 1
  BY FS_Singleton
<1> QED
  BY <1>1, FS_Subset, FS_CardinalityType

\* A click sends a request when nothing else is out, or is not aware of it all.
LEMMA ClickAware ==
  ASSUME AwareInv, NEW t \in Tasks, NEW s \in Ssids,
         AddNetwork(t, s) \/ RemoveNetwork(t, s)
  PROVE  Aware'
<1> SUFFICES ASSUME ~excused'
             PROVE  OneOut' /\ Fetched' /\ Shown' /\ LeavesOne'
  BY DEF Aware
<1>1. /\ ~excused /\ Alone(t) /\ task[t] = Done /\ list' = list /\ rows' = rows
  BY DEF AddNetwork, RemoveNetwork
<1>2. PICK at \in {"post", "delete"}, adding \in BOOLEAN :
        Asks(t, at, adding, {s}) /\ (at = "delete" => RemoveNetwork(t, s))
  BY DEF AddNetwork, RemoveNetwork
<1>3. /\ task'[t].at = at /\ task'[t].answer = "none" /\ task'[t].ssids = {s}
      /\ \A u \in Tasks \ {t} : task'[u] = Done
  <2>1. /\ task'[t] = [at |-> at, adding |-> adding, ssids |-> {s}, answer |-> "none"]
        /\ \A u \in Tasks \ {t} : task'[u] = task[u]
    BY <1>2, TaskForms, Zenon DEF AwareInv
  <2> QED
    BY <1>1, <2>1 DEF Alone
<1>4. \A u \in Tasks : task[u] = Done
  BY <1>1 DEF Alone
<1>5. rows \in {list, Dash}
  BY <1>1, <1>4 DEF AwareInv, Aware, Shown
<1>6. OneOut' /\ Fetched' /\ Shown'
  BY <1>1, <1>3, <1>5, DoneHasNone DEF OneOut, Fetched, Shown
<1>7. LeavesOne'
  <2> SUFFICES ASSUME at = "delete"
               PROVE  ~(list \subseteq {s})
    BY <1>1, <1>3, DoneHasNone DEF LeavesOne
  <2>1. rows \notin {Loading, Dash} /\ Cardinality(rows) > 1
    BY <1>2 DEF RemoveNetwork, Removable
  <2> QED
    BY <1>5, <2>1, MoreThanOne
<1> QED
  BY <1>6, <1>7

\* The helper changes the list for the one task that is out, which is told, or the
\* page is not aware of it.
LEMMA EditAware ==
  ASSUME AwareInv, NEW t \in Tasks, HelperEdits(t)
  PROVE  Aware' /\ (list # {} /\ list' = {} => excused')
<1> SUFFICES ASSUME ~excused'
             PROVE  /\ OneOut' /\ Fetched' /\ Shown' /\ LeavesOne'
                    /\ ~(list # {} /\ list' = {})
  BY DEF Aware
<1>1. ~excused /\ rows' = rows /\ task[t].at \in {"post", "delete"} /\ task[t].answer = "none"
  BY DEF HelperEdits
<1>2. /\ OneOut /\ Fetched /\ Shown /\ LeavesOne /\ NetworksTypeOK
  BY <1>1 DEF AwareInv, Aware
<1>3. PICK a \in {"ok", "failed"} : Answers(t, a) /\ (a = "failed" => list' = list)
  BY <1>1 DEF HelperEdits
<1>4. /\ task'[t].at = task[t].at /\ task'[t].answer = a
      /\ \A u \in Tasks \ {t} : task'[u] = task[u]
  BY <1>2, <1>3, TaskForms
<1>5. \A u \in Tasks \ {t} : task[u] = Done
  BY <1>1, <1>2, DoneHasNone DEF OneOut
<1>6. OneOut' /\ Fetched' /\ LeavesOne'
  BY <1>1, <1>4, <1>5, DoneHasNone DEF OneOut, Fetched, LeavesOne
<1>7. Shown'
  <2>1. CASE a = "ok"
    <3>1. ~(task[t] = Done \/ Undone(t))'
      BY <1>1, <1>4, <2>1, DoneHasNone DEF Undone
    <3> QED
      BY <3>1 DEF Shown
  <2>2. CASE a = "failed"
    <3>1. \A u \in Tasks : task[u] = Done \/ Undone(u)
      BY <1>1, <1>5 DEF Undone
    <3> QED
      BY <1>1, <1>2, <1>3, <2>2, <3>1 DEF Shown
  <2> QED
    BY <2>1, <2>2
<1>8. ~(list # {} /\ list' = {})
  <2>1. CASE task[t].at = "delete"
    <3>1. ~(list \subseteq task[t].ssids)
      BY <1>1, <1>2, <2>1 DEF LeavesOne
    <3>2. list' = list \/ list' = list \ task[t].ssids
      BY <2>1 DEF HelperEdits
    <3> QED
      BY <3>1, <3>2
  <2>2. CASE task[t].at = "post"
    <3>1. list' = list \/ list' = list \cup task[t].ssids
      BY <2>2 DEF HelperEdits
    <3> QED
      BY <3>1
  <2> QED
    BY <1>1, <2>1, <2>2
<1> QED
  BY <1>6, <1>7, <1>8

\* A task goes on after its change: it asks for the list, or is over.
LEMMA EditedAware ==
  ASSUME AwareInv, NEW t \in Tasks, Edited(t)
  PROVE  Aware'
<1> SUFFICES ASSUME ~excused'
             PROVE  OneOut' /\ Fetched' /\ Shown' /\ LeavesOne'
  BY DEF Aware
<1>0. NetworksTypeOK /\ list' = list /\ rows' = rows /\ task[t].at \in {"post", "delete"}
  BY DEF AwareInv, Edited
<1>1. CASE Reloads(t)
  <2>1. Alone(t) /\ Asks(t, "get", task[t].adding, {})
    BY <1>1 DEF Reloads
  <2>2. /\ task'[t] = [at |-> "get", adding |-> task[t].adding, ssids |-> {},
                       answer |-> "none"]
        /\ \A u \in Tasks \ {t} : task'[u] = task[u]
    BY <1>0, <2>1, TaskForms, Zenon
  <2>3. /\ task'[t].at = "get" /\ task'[t].answer = "none"
        /\ \A u \in Tasks \ {t} : task'[u] = Done
    <3> DEFINE add == task[t].adding
    <3> HIDE DEF add
    <3> QED
      BY <2>1, <2>2 DEF Alone, add
  <2>4. ~(task[t] = Done \/ Undone(t))'
    BY <2>3, DoneHasNone DEF Undone
  <2> QED
    BY <2>3, <2>4, DoneHasNone DEF OneOut, Fetched, Shown, LeavesOne
<1>2. CASE task[t].answer = "failed" /\ TaskEnds(t) /\ UNCHANGED excused
  <2>1. task'[t] = Done /\ \A u \in Tasks \ {t} : task'[u] = task[u]
    BY <1>0, <1>2, TaskForms
  <2>2. OneOut /\ Fetched /\ Shown /\ LeavesOne
    BY <1>2 DEF AwareInv, Aware
  <2>3. \A u \in Tasks : task[u] = Done \/ Undone(u)
    BY <1>0, <1>2, <2>2, DoneHasNone DEF OneOut, Undone
  <2>4. rows \in {list, Dash}
    BY <2>2, <2>3 DEF Shown
  <2> QED
    BY <1>0, <2>1, <2>2, <2>4, DoneHasNone DEF OneOut, Fetched, Shown, LeavesOne
<1> QED
  BY <1>1, <1>2 DEF Edited

\* The helper's list comes back, and is shown when the task is over.
LEMMA ListAware ==
  ASSUME AwareInv, NEW t \in Tasks, Report(t) \/ Reported(t)
  PROVE  Aware'
<1> SUFFICES ASSUME ~excused'
             PROVE  OneOut' /\ Fetched' /\ Shown' /\ LeavesOne'
  BY DEF Aware
<1>1. NetworksTypeOK /\ ~excused /\ list' = list /\ task[t].at = "get"
  BY DEF AwareInv, Report, Reported
<1>2. OneOut /\ Fetched /\ Shown /\ LeavesOne
  BY <1>1 DEF AwareInv, Aware
<1>3. \A u \in Tasks \ {t} : task[u] = Done
  BY <1>1, <1>2, DoneHasNone DEF OneOut
<1>4. CASE Report(t)
  <2>1. /\ task'[t].at = "get" /\ (task'[t].answer = "ok" => task'[t].ssids = list)
        /\ \A u \in Tasks \ {t} : task'[u] = Done
    <3>1. CASE Answers(t, "failed")
      BY <1>1, <1>3, <3>1, TaskForms
    <3>2. CASE task' = [task EXCEPT ![t].answer = "ok", ![t].ssids = list]
      BY <1>1, <1>3, <3>2 DEF NetworksTypeOK, TaskStates
    <3> QED
      BY <1>4, <3>1, <3>2 DEF Report
  <2>2. ~(task[t] = Done \/ Undone(t))'
    BY <2>1, DoneHasNone DEF Undone
  <2> QED
    BY <1>1, <2>1, <2>2, DoneHasNone DEF OneOut, Fetched, Shown, LeavesOne
<1>5. CASE Reported(t)
  <2>1. \A u \in Tasks : task'[u] = Done
    BY <1>1, <1>3, <1>5, TaskForms DEF Reported
  <2>2. rows' \in {list, Dash}
    BY <1>1, <1>2, <1>5 DEF Reported, Fetched
  <2> QED
    BY <1>1, <2>1, <2>2, DoneHasNone DEF OneOut, Fetched, Shown, LeavesOne
<1> QED
  BY <1>4, <1>5

\* Every step keeps the page aware, and none empties the list unless it is not.
LEMMA NextAware ==
  AwareInv /\ [NetworksNext]_networksVars =>
    AwareInv' /\ (list # {} /\ list' = {} => excused')
<1> SUFFICES ASSUME AwareInv, [NetworksNext]_networksVars
             PROVE  Aware' /\ (list # {} /\ list' = {} => excused')
  BY NextNetworksTypeOK DEF AwareInv
<1>1. ASSUME NEW t \in Tasks, NEW s \in Ssids, AddNetwork(t, s) \/ RemoveNetwork(t, s)
      PROVE  Aware' /\ list' = list
  BY <1>1, ClickAware DEF AddNetwork, RemoveNetwork
<1>2. ASSUME NEW t \in Tasks, Edited(t) \/ Report(t) \/ Reported(t)
      PROVE  Aware' /\ list' = list
  BY <1>2, EditedAware, ListAware DEF Edited, Report, Reported
<1>3. ASSUME NEW t \in Tasks, HelperEdits(t)
      PROVE  Aware' /\ (list # {} /\ list' = {} => excused')
  BY <1>3, EditAware
<1>4. CASE Foreign
  BY <1>4 DEF Foreign, Aware
<1>5. CASE UNCHANGED networksVars
  <2>1. Aware'
    BY <1>5 DEF networksVars, AwareInv, Aware, OneOut, Fetched, Shown, LeavesOne, Undone
  <2> QED
    BY <1>5, <2>1 DEF networksVars
<1> QED
  BY <1>1, <1>2, <1>3, <1>4, <1>5 DEF NetworksNext

\* The page's first request is the only one that is out.
LEMMA InitAware == NetworksInit => AwareInv
<1> SUFFICES ASSUME NetworksInit
             PROVE  Aware
  BY InitNetworksTypeOK DEF AwareInv
<1>1. PICK t \in Tasks :
        task = [u \in Tasks |-> IF u = t THEN [Done EXCEPT !.at = "get"] ELSE Done]
  BY DEF NetworksInit
<1>2. /\ task[t].at = "get" /\ task[t].answer = "none"
      /\ \A u \in Tasks \ {t} : task[u] = Done
  BY <1>1 DEF Done
<1> QED
  BY <1>2, DoneHasNone DEF Aware, OneOut, Fetched, Shown, LeavesOne, Undone

\* wifi.js:109: for any networks and any number of tasks, the page only removes the
\* helper's last network when it has missed something.
THEOREM LastIsKept == NetworksSpec => EmptiedUnawares
<1>1. AwareInv /\ [NetworksNext]_networksVars =>
        [list # {} /\ list' = {} => excused']_networksVars
  BY NextAware
<1> QED
  BY <1>1, InitAware, NextAware, PTL DEF NetworksSpec, EmptiedUnawares

==============================================================================
