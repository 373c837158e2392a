----------------------------- MODULE MCWifiPage -----------------------------
(***************************************************************************)
(* The two parts of the Wi-Fi page in one model for TLC. They share no     *)
(* variable, and every property is about one of them, so that a behaviour  *)
(* runs one, chosen at the start, while the other is left alone.           *)
(***************************************************************************)
EXTENDS ReloadButton, WifiNetworks

VARIABLE part \* the one that runs

PageInit == ButtonInit /\ NetworksInit /\ part \in {"button", "networks"}

PageNext == \/ /\ part = "button"
               /\ ButtonNext
               /\ UNCHANGED <<list, rows, addDisabled, task, outdated, excused, part>>
            \/ /\ part = "networks"
               /\ NetworksNext
               /\ UNCHANGED <<supplicantActive, reloadInProgress, reloadDisabled, label,
                              run, polling, part>>

pageVars == <<supplicantActive, reloadInProgress, reloadDisabled, label, run, polling,
              list, rows, addDisabled, task, outdated, excused, part>>

\* The fairness of the button's part.
PageFairness ==
  /\ \A c \in Restarts : WF_buttonVars(part = "button" /\ Step(c))
  /\ \A p \in StatsPolls : /\ WF_buttonVars(part = "button" /\ Poll(p))
                           /\ WF_buttonVars(part = "button" /\ PollEnds(p))

PageSpec == PageInit /\ [][PageNext]_pageVars /\ PageFairness

==============================================================================
