---------------------------- MODULE ReloadButton ----------------------------
(***************************************************************************)
(* internal/web/static/wifi.js: the button that restarts wpa_supplicant.   *)
(* Every click runs reloadSupplicant, an async function that gives way at  *)
(* each await; fetches of /api/stats, from the page's timer and from       *)
(* reloadSupplicant itself, overlap and come back in any order. A fetch    *)
(* and the continuation that awaits it run without a click in between.     *)
(***************************************************************************)
CONSTANTS Restarts,   \* runs of reloadSupplicant that can overlap
          StatsPolls  \* fetches by the timer that can overlap

VARIABLES supplicantActive,
          reloadInProgress,
          reloadDisabled,  \* btn-reload is disabled
          label,           \* the text on it
          run,             \* where each run of reloadSupplicant awaits
          polling          \* the timer's fetches that are out

buttonVars == <<supplicantActive, reloadInProgress, reloadDisabled, label, run, polling>>

ButtonTypeOK == /\ supplicantActive \in BOOLEAN
                /\ reloadInProgress \in BOOLEAN
                /\ reloadDisabled \in BOOLEAN
                /\ label \in {"Restart", "Restarting", "Restarted"}
                /\ run \in [Restarts -> {"none", "reload", "restarted", "error", "last"}]
                /\ polling \in [StatsPolls -> BOOLEAN]

\* wifi.html: the button is disabled at first.
ButtonInit == /\ supplicantActive = FALSE
              /\ reloadInProgress = FALSE
              /\ reloadDisabled = TRUE
              /\ label = "Restart"
              /\ run = [c \in Restarts |-> "none"]
              /\ polling = [p \in StatsPolls |-> FALSE]

-----------------------------------------------------------------------------

Await(c, l) == run' = [run EXCEPT ![c] = l]

\* Mutant: the button is updated from the report before the last.
UpdateTooEarly ==
  reloadDisabled' = IF reloadInProgress THEN reloadDisabled ELSE ~supplicantActive

\* updateReloadButton, after fetchStats has set supplicantActive.
UpdateReloadButton ==
  reloadDisabled' = IF reloadInProgress THEN reloadDisabled ELSE ~supplicantActive'

\* What fetchStats does when its fetch is over: any report, or none.
FetchStats == \/ supplicantActive' \in BOOLEAN /\ UpdateReloadButton
              \/ UNCHANGED <<supplicantActive, reloadDisabled>>

\* The timer fires, and its fetch ends.
Poll(p) == /\ ~polling[p]
           /\ polling' = [polling EXCEPT ![p] = TRUE]
           /\ UNCHANGED <<supplicantActive, reloadInProgress, reloadDisabled, label, run>>

PollEnds(p) == /\ polling[p]
               /\ polling' = [polling EXCEPT ![p] = FALSE]
               /\ FetchStats
               /\ UNCHANGED <<reloadInProgress, label, run>>

\* reloadSupplicant up to its first await: the request and five seconds.
ReloadSupplicant(c) == /\ run[c] = "none"
                       /\ ~reloadDisabled
                       /\ reloadInProgress' = TRUE
                       /\ reloadDisabled' = TRUE
                       /\ label' = "Restarting"
                       /\ Await(c, "reload")
                       /\ UNCHANGED <<supplicantActive, polling>>

\* Mutant: the text of the button is lost.
FinallyUnlabelled(c) == /\ reloadInProgress' = FALSE
                        /\ label' = ""
                        /\ Await(c, "last")

\* Mutant: the finally block forgets the flag.
FinallyLocked(c) == /\ label' = "Restart"
                    /\ Await(c, "last")
                    /\ UNCHANGED reloadInProgress

\* The finally block, up to its fetch.
Finally(c) == /\ reloadInProgress' = FALSE
              /\ label' = "Restart"
              /\ Await(c, "last")

\* The server has restarted the supplicant: five more seconds.
Restarted(c) == /\ run[c] = "reload"
                /\ label' = "Restarted"
                /\ Await(c, "restarted")
                /\ UNCHANGED <<supplicantActive, reloadInProgress, reloadDisabled,
                               polling>>

\* The server answers with an error: the button is reset and the page asks what
\* is the case, still inside the try block.
Refused(c) == /\ run[c] = "reload"
              /\ reloadInProgress' = FALSE
              /\ label' = "Restart"
              /\ Await(c, "error")
              /\ UNCHANGED <<supplicantActive, reloadDisabled, polling>>

\* The request fails, or the five seconds of "Restarted" are over.
Ends(c) == /\ run[c] \in {"reload", "restarted"}
           /\ Finally(c)
           /\ UNCHANGED <<supplicantActive, reloadDisabled, polling>>

\* The fetch of the error path is over; finally resets the button once more.
ErrorEnds(c) == /\ run[c] = "error"
                /\ FetchStats
                /\ Finally(c)
                /\ UNCHANGED polling

Returns(c) == /\ run[c] = "last"
              /\ FetchStats
              /\ Await(c, "none")
              /\ UNCHANGED <<reloadInProgress, label, polling>>

Step(c) == Restarted(c) \/ Refused(c) \/ Ends(c) \/ ErrorEnds(c) \/ Returns(c)

ButtonNext == \/ \E c \in Restarts : ReloadSupplicant(c) \/ Step(c)
              \/ \E p \in StatsPolls : Poll(p) \/ PollEnds(p)

ButtonSpec == ButtonInit /\ [][ButtonNext]_buttonVars

\* The timer keeps firing, and fetches and delays come to an end.
ButtonFairness == /\ \A c \in Restarts : WF_buttonVars(Step(c))
                  /\ \A p \in StatsPolls : /\ WF_buttonVars(Poll(p))
                                            /\ WF_buttonVars(PollEnds(p))

ButtonFairSpec == ButtonSpec /\ ButtonFairness

-----------------------------------------------------------------------------

\* wifi.js:20-24: the page offers a restart only if the last it heard is that the
\* supplicant is running, whatever runs and fetches overlap.
OfferedOnlyIfActive == ~reloadDisabled => supplicantActive

\* Liveness: no restart leaves the button locked for good, however it ends.
LockEnds == reloadInProgress ~> ~reloadInProgress

\* wifi.js:26 says that reloadInProgress keeps a poll from enabling the button
\* while a restart shows its progress.
NoPollMidDisplay ==
  [][label # "Restart" /\ polling' # polling => reloadDisabled']_buttonVars

==============================================================================
