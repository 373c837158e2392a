---------------------------- MODULE WifiNetworks ----------------------------
(***************************************************************************)
(* internal/web/static/wifi.js: the list of networks, with the buttons     *)
(* that add and remove one. A task is a run of loadNetworks, addNetwork or *)
(* removeNetwork; it gives way while its request is out, so that tasks     *)
(* overlap. The helper holds the list, and other administrators change it. *)
(*                                                                         *)
(* The user may type at any time, so that the form can hold any SSID when  *)
(* it is submitted; clearing it and the texts of errors are left out.      *)
(***************************************************************************)
EXTENDS Integers, FiniteSets

CONSTANTS Ssids,
          Tasks,   \* tasks that can overlap
          Loading, \* what the page shows before the first list comes
          Dash     \* what it shows when a list could not be loaded

VARIABLES list,        \* external: the networks that the helper has
          rows,        \* the networks that the page shows
          addDisabled, \* btn-add is disabled
          task,        \* the tasks and their requests
          outdated,    \* history: the list shown was old when it came, or has become
                       \* so by a change that no task of this page knows of
          excused      \* history: since the last list was asked for, the page has
                       \* missed something that it could not know

networksVars == <<list, rows, addDisabled, task, outdated, excused>>

\* A task awaits the answer to its request. When it succeeds with what it was asked
\* to do, an addition or a removal goes on with a request for the list.
Done == [at |-> "none", adding |-> FALSE, ssids |-> {}, answer |-> "none"]

TaskStates == [at : {"none", "post", "delete", "get"},
               adding : BOOLEAN,      \* a run of addNetwork
               ssids : SUBSET Ssids,  \* what is added or removed, or the list answered
               answer : {"none", "ok", "failed"}]

NetworksTypeOK == /\ list \in SUBSET Ssids
                  /\ rows \in (SUBSET Ssids) \cup {Loading, Dash}
                  /\ addDisabled \in BOOLEAN
                  /\ task \in [Tasks -> TaskStates]
                  /\ outdated \in BOOLEAN
                  /\ excused \in BOOLEAN

\* No other task than t is out.
Alone(t) == \A u \in Tasks \ {t} : task[u] = Done

Asks(t, at, adding, ssids) ==
  task' = [task EXCEPT ![t] = [at |-> at, adding |-> adding, ssids |-> ssids,
                               answer |-> "none"]]

\* init asks for the list.
NetworksInit == /\ list \in SUBSET Ssids
                /\ rows = Loading
                /\ addDisabled = FALSE
                /\ \E t \in Tasks :
                     task = [u \in Tasks |-> IF u = t THEN [Done EXCEPT !.at = "get"]
                                                      ELSE Done]
                /\ outdated = FALSE
                /\ excused = FALSE

-----------------------------------------------------------------------------

\* A click on btn-add, or Enter in a field, which does not ask whether the button
\* is disabled.
AddNetwork(t, s) == /\ task[t] = Done
                    /\ addDisabled' = TRUE
                    /\ Asks(t, "post", TRUE, {s})
                    /\ excused' = (excused \/ ~Alone(t))
                    /\ UNCHANGED <<list, rows, outdated>>

\* Mutant: the last network's button works like the others.
RemovableAny(s) == rows \notin {Loading, Dash} /\ s \in rows

\* The last network's button is disabled.
Removable(s) == /\ rows \notin {Loading, Dash}
                /\ s \in rows
                /\ Cardinality(rows) > 1

RemoveNetwork(t, s) == /\ task[t] = Done
                       /\ Removable(s)
                       /\ Asks(t, "delete", FALSE, {s})
                       /\ excused' = (excused \/ ~Alone(t))
                       /\ UNCHANGED <<list, rows, addDisabled, outdated>>

Answers(t, a) == task' = [task EXCEPT ![t].answer = a]

\* External: the helper carries a request out or refuses it, and the answer may
\* get lost on the way.
HelperEdits(t) == /\ task[t].at \in {"post", "delete"}
                  /\ task[t].answer = "none"
                  /\ \/ /\ list' = IF task[t].at = "post" THEN list \cup task[t].ssids
                                                          ELSE list \ task[t].ssids
                        /\ \/ Answers(t, "ok") /\ UNCHANGED <<outdated, excused>>
                           \/ Answers(t, "failed") /\ outdated' = TRUE /\ excused' = TRUE
                     \/ Answers(t, "failed") /\ UNCHANGED <<list, outdated, excused>>
                  /\ UNCHANGED <<rows, addDisabled>>

\* External: the helper tells what networks it has, or the request fails.
Report(t) == /\ task[t].at = "get"
             /\ task[t].answer = "none"
             /\ \/ task' = [task EXCEPT ![t].answer = "ok", ![t].ssids = list]
                \/ Answers(t, "failed")
             /\ UNCHANGED <<list, rows, addDisabled, outdated, excused>>

\* Mutant: the end of a task leaves the button as it is.
EndsLocked(t) == /\ task' = [task EXCEPT ![t] = Done]
                 /\ UNCHANGED addDisabled

\* A task ends; addNetwork's finally block enables btn-add, whoever disabled it.
TaskEnds(t) == /\ task' = [task EXCEPT ![t] = Done]
               /\ addDisabled' = (addDisabled /\ ~task[t].adding)

\* Mutant: while another task is out, the list is left to that one.
ReloadsIfAlone(t) == /\ \/ Alone(t) /\ Asks(t, "get", task[t].adding, {})
                           /\ UNCHANGED addDisabled
                        \/ ~Alone(t) /\ TaskEnds(t)
                     /\ excused' = ~Alone(t)

\* loadNetworks, at the end of a task that has changed the list. A task that is
\* alone from here on will see all there is.
Reloads(t) == /\ Asks(t, "get", task[t].adding, {})
              /\ excused' = ~Alone(t)
              /\ UNCHANGED addDisabled

\* addNetwork and removeNetwork go on after their request.
Edited(t) == /\ task[t].at \in {"post", "delete"}
             /\ \/ task[t].answer = "ok" /\ Reloads(t)
                \/ task[t].answer = "failed" /\ TaskEnds(t) /\ UNCHANGED excused
             /\ UNCHANGED <<list, rows, outdated>>

\* Mutant: the dash is taken for a network.
ReportedDash(t) == /\ task[t].at = "get"
                   /\ rows' = IF task[t].answer = "ok" THEN task[t].ssids ELSE {Dash}
                   /\ TaskEnds(t)
                   /\ UNCHANGED <<list, outdated, excused>>

\* renderNetworks or renderError, when loadNetworks goes on after its request.
Reported(t) == /\ task[t].at = "get"
               /\ \/ /\ task[t].answer = "ok"
                     /\ rows' = task[t].ssids
                     /\ outdated' = (task[t].ssids # list)
                  \/ /\ task[t].answer = "failed"
                     /\ rows' = Dash
                     /\ outdated' = FALSE
               /\ TaskEnds(t)
               /\ UNCHANGED <<list, excused>>

\* External: another administrator adds or removes a network.
Foreign == /\ \E s \in Ssids : list' \in {list \cup {s}, list \ {s}} \ {list}
           /\ outdated' = TRUE
           /\ excused' = TRUE
           /\ UNCHANGED <<rows, addDisabled, task>>

NetworksNext == \/ \E t \in Tasks : \/ \E s \in Ssids : AddNetwork(t, s) \/ RemoveNetwork(t, s)
                                    \/ HelperEdits(t) \/ Edited(t)
                                    \/ Report(t) \/ Reported(t)
                \/ Foreign

NetworksSpec == NetworksInit /\ [][NetworksNext]_networksVars

-----------------------------------------------------------------------------

\* wifi.js:159 and 183: when all tasks are over, however they have overlapped, the
\* page shows the helper's list, or none. It shows an older one only if that was old
\* already when it came (lists can overtake each other), if the answer to a change
\* was lost, or if somebody else has changed the list since.
ShowsHelperList ==
  (\A t \in Tasks : task[t] = Done) /\ ~outdated => rows \in {list, Dash}

\* wifi.js:109: the page can only remove the helper's last network if it has
\* missed something; what it shows is then no longer what there is.
EmptiedUnawares ==
  [][list # {} /\ list' = {} => excused']_networksVars

\* wifi.js:165: btn-add is disabled only while an addition is on its way, however
\* additions overlap and end.
LockedWhileAdding == addDisabled => \E t \in Tasks : task[t].adding

==============================================================================
