------------------------------- MODULE Server -------------------------------
(***************************************************************************)
(* The process: cmd/pispot-ui/main.go and the /api/stats handler of        *)
(* internal/api, which asks the three lazily refreshed collectors one      *)
(* after the other, and so composes their mutexes. The discipline inside a *)
(* collector is LazyCache's and CommandCache's; here it is the time that a *)
(* handler spends with all of them, and what becomes of it when a signal   *)
(* ends the process.                                                       *)
(*                                                                         *)
(* Time is kept as ages. A handler that need not wait takes no time.       *)
(***************************************************************************)
EXTENDS Integers, FiniteSets

CONSTANTS Requests,    \* handlers that run at a time
          Sections,    \* the number of collectors, asked in the order 1 .. Sections
          TTL,         \* cacheTTL, in ticks
          ExecTimeout, \* execTimeout
          Grace        \* the timeout of Shutdown

ASSUME ServerAssumption == /\ Sections \in Nat \ {0}
                           /\ {TTL, ExecTimeout, Grace} \subseteq Nat \ {0}
                           /\ IsFiniteSet(Requests)

VARIABLES at,       \* what each request does
          section,  \* the collector that it asks
          since,    \* ticks since it waits for a mutex, or holds it
          elapsed,  \* history: ticks since its Stats handler began
          age,      \* ticks since lastAt of each collector, up to TTL
          starving, \* the mutex of the collector is in starvation mode
          phase,    \* the process is up, draining in Shutdown, or gone
          grace     \* ticks that Shutdown has left

vars == <<at, section, since, elapsed, age, starving, phase, grace>>

Collectors == 1 .. Sections

TypeOK == /\ at \in [Requests -> {"idle", "new", "helper", "check", "lock", "refresh"}]
          /\ section \in [Requests -> Collectors]
          /\ since \in [Requests -> Nat]
          /\ elapsed \in [Requests -> Nat]
          /\ age \in [Collectors -> 0 .. TTL]
          /\ starving \in [Collectors -> BOOLEAN]
          /\ phase \in {"up", "draining", "exit 0", "exit 1"}
          /\ grace \in 0 .. Grace

Running == phase \in {"up", "draining"}

\* No collector has been refreshed.
Init == /\ at = [r \in Requests |-> "idle"]
        /\ section = [r \in Requests |-> 1]
        /\ since = [r \in Requests |-> 0]
        /\ elapsed = [r \in Requests |-> 0]
        /\ age = [c \in Collectors |-> TTL]
        /\ starving = [c \in Collectors |-> FALSE]
        /\ phase = "up"
        /\ grace = Grace

-----------------------------------------------------------------------------

\* A connection is accepted. Its request may come after the signal, or never.
Accept(r) == /\ phase = "up"
             /\ at[r] = "idle"
             /\ at' = [at EXCEPT ![r] = "new"]
             /\ UNCHANGED <<section, since, elapsed, age, starving, phase, grace>>

\* The middleware, or the handler of a privileged operation, asks pispot-authd.
Call(r) == /\ Running
           /\ at[r] = "new"
           /\ at' = [at EXCEPT ![r] = "helper"]
           /\ UNCHANGED <<section, since, elapsed, age, starving, phase, grace>>

\* The helper answers: a Stats handler begins, or the request is over.
HelperAnswers(r) ==
  /\ Running
  /\ at[r] = "helper"
  /\ at' \in {[at EXCEPT ![r] = s] : s \in {"check", "idle"}}
  /\ UNCHANGED <<section, since, elapsed, age, starving, phase, grace>>

-----------------------------------------------------------------------------

Waits(r, c) == section[r] = c /\ at[r] \in {"check", "lock"}

Locked(c) == \E r \in Requests : section[r] = c /\ at[r] = "refresh"

\* The others that wait for the mutex that r waits for.
Others(r) == {w \in Requests \ {r} : Waits(w, section[r])}

Overtakes(r) == \E w \in Others(r) : since[w] > since[r]

\* r gets the mutex, which is handed over in turn while a waiter starves.
Gets(r, place) == /\ Running
                  /\ at[r] = place
                  /\ ~Locked(section[r])
                  /\ starving[section[r]] => ~Overtakes(r)

\* sync.Mutex: a waiter that has waited for a millisecond and finds the mutex taken
\* starves, and does so until the last waiter, or one that came just now, has had
\* its turn. One that is overtaken by a test alone may not even notice.
Hunger(r, noticed) ==
  starving' = [starving EXCEPT ![section[r]] =
                 IF Overtakes(r) THEN @ \/ noticed
                                 ELSE @ /\ Others(r) # {} /\ since[r] > 0]

Goto(r, place) == /\ at' = [at EXCEPT ![r] = place]
                  /\ since' = [since EXCEPT ![r] = 0]

\* Snapshot returns: the next section, or the reply.
Advance(r) ==
  IF section[r] = Sections
    THEN /\ Goto(r, "idle")
         /\ section' = [section EXCEPT ![r] = 1]
         /\ elapsed' = [elapsed EXCEPT ![r] = 0]
    ELSE /\ Goto(r, "check")
         /\ section' = [section EXCEPT ![r] = @ + 1]
         /\ UNCHANGED elapsed

Stale(r) == age[section[r]] >= TTL

\* The first test of staleness, under the mutex.
Check(r) == /\ Gets(r, "check")
            /\ \E noticed \in BOOLEAN : Hunger(r, noticed)
            /\ \/ Stale(r) /\ Goto(r, "lock") /\ UNCHANGED <<section, elapsed>>
               \/ ~Stale(r) /\ Advance(r)
            /\ UNCHANGED <<age, phase, grace>>

\* The second, which may go over into a refresh.
Enter(r) == /\ Gets(r, "lock")
            /\ \/ /\ Stale(r)
                  /\ Hunger(r, TRUE)
                  /\ Goto(r, "refresh")
                  /\ UNCHANGED <<section, elapsed>>
               \/ /\ ~Stale(r)
                  /\ \E noticed \in BOOLEAN : Hunger(r, noticed)
                  /\ Advance(r)
            /\ UNCHANGED <<age, phase, grace>>

\* Mutant: the snapshot is dated by its deadline.
AgeAhead(r) == since[r] - ExecTimeout

\* lastAt is the time at which the refresh began; ages beyond TTL are all the same.
Age(r) == IF since[r] < TTL THEN since[r] ELSE TTL

Publish(r) ==
  /\ Running
  /\ at[r] = "refresh"
  /\ age' = [age EXCEPT ![section[r]] = Age(r)]
  /\ Advance(r)
  /\ UNCHANGED <<starving, phase, grace>>

-----------------------------------------------------------------------------

Signal == /\ phase = "up"
          /\ phase' = "draining"
          /\ UNCHANGED <<at, section, since, elapsed, age, starving, grace>>

\* Listening fails: log.Fatalf.
ListenFails == /\ phase = "up"
               /\ phase' = "exit 1"
               /\ UNCHANGED <<at, section, since, elapsed, age, starving, grace>>

\* Shutdown returns when no connection is left that has a request or has yet to send
\* its first.
ShutdownReturns == /\ phase = "draining"
                   /\ \A r \in Requests : at[r] = "idle"
                   /\ phase' = "exit 0"
                   /\ UNCHANGED <<at, section, since, elapsed, age, starving, grace>>

\* Mutant: Shutdown gets a context without a deadline.
Patience == FALSE

\* Shutdown's context has expired.
GivesUp == grace = 0

ShutdownFails == /\ phase = "draining"
                 /\ GivesUp
                 /\ phase' = "exit 1"
                 /\ UNCHANGED <<at, section, since, elapsed, age, starving, grace>>

Exited == ~Running /\ UNCHANGED vars

\* Mutant: each command, of two that hang, has a timeout of its own.
LimitPerCommand == 2 * ExecTimeout

\* How long a refresh takes: its commands share one context.
Limit == ExecTimeout

\* A Stats handler is at work.
Asking(r) == at[r] \in {"check", "lock", "refresh"}

\* Time passes when everybody waits; a handler that can go on does.
Tick ==
  /\ Running
  /\ \A r \in Requests : /\ Waits(r, section[r]) => Locked(section[r])
                         /\ at[r] = "refresh" => since[r] < Limit
  /\ ~(phase = "draining" /\ GivesUp)
  /\ LET later(f) == [r \in Requests |-> IF Asking(r) THEN f[r] + 1 ELSE f[r]]
     IN  since' = later(since) /\ elapsed' = later(elapsed)
  /\ age' = [c \in Collectors |-> IF age[c] < TTL THEN age[c] + 1 ELSE TTL]
  /\ grace' = IF phase = "draining" /\ grace > 0 THEN grace - 1 ELSE grace
  /\ UNCHANGED <<at, section, starving, phase>>

Step(r) == Check(r) \/ Enter(r) \/ Publish(r)

Next == \/ \E r \in Requests : Accept(r) \/ Call(r) \/ HelperAnswers(r) \/ Step(r)
        \/ Signal \/ ListenFails \/ ShutdownReturns \/ ShutdownFails \/ Exited
        \/ Tick

Spec == Init /\ [][Next]_vars

\* Handlers run, and time passes; the helper may keep silent, and signals need not
\* come.
Fairness == /\ \A r \in Requests : WF_vars(Step(r))
            /\ WF_vars(Tick)
            /\ WF_vars(ShutdownReturns \/ ShutdownFails)

FairSpec == Spec /\ Fairness

-----------------------------------------------------------------------------

\* collector.go:132: commands may hang, handlers then refresh in turn, because a
\* refresh takes longer than its result is fresh, and newcomers may overtake; still
\* a handler waits for each collector, to test and to refresh, for no more than the
\* refresh that is under way and one of each other handler, and then for its own.
AnsweredWithin ==
  LET turns == 2 * Cardinality(Requests) + 1
  IN  \A r \in Requests : elapsed[r] <= Sections * turns * ExecTimeout

\* Liveness, main.go:102: a signal ends the process, with handlers that wait for
\* a collector and with a helper that never answers.
ShutdownEnds == phase = "draining" ~> ~Running

==============================================================================
