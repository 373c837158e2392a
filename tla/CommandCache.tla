---------------------------- MODULE CommandCache ----------------------------
(***************************************************************************)
(* What the refreshes of the hotspot, WAN and admin collectors have in     *)
(* common on top of LazyCache: with the mutex held, a stat of the          *)
(* interface in sysfs, then commands that share one context, which is the  *)
(* request's own with a timeout, then a snapshot. The collectors say which *)
(* commands run and what is published.                                     *)
(***************************************************************************)
EXTENDS Integers

CONSTANTS Requests, Infos, Blank, Verdicts, Faults, NoErr, Free, TTL,
          MaxClock,    \* as in LazyCache
          Absent,      \* ErrInterfaceAbsent
          Steps,       \* the steps of a refresh after the stat
          Commands,    \* those of them that are commands
          First,       \* the first of them
          ExecTimeout  \* execTimeout, in ticks

VARIABLES clock, mu, lastAt, snap, pc, asked, now, prev, \* as in LazyCache
          gone,     \* gone[r]: the client of r has disconnected
          step,     \* the step that the refresh of r is at
          found,    \* refresh's local info
          deadline  \* when the context of the commands expires

Cache == INSTANCE LazyCache

cacheVars == <<clock, mu, lastAt, snap, pc, asked, now, prev>>

local == <<gone, step, found, deadline>>

TypeOK == /\ Cache!TypeOK
          /\ gone \in [Requests -> BOOLEAN]
          /\ step \in [Requests -> Steps \cup {"none", "exists"}]
          /\ found \in [Requests -> Infos]
          /\ deadline \in [Requests -> Nat]

Init == /\ Cache!Init
        /\ gone = [r \in Requests |-> FALSE]
        /\ step = [r \in Requests |-> "none"]
        /\ found = [r \in Requests |-> Blank]
        /\ deadline = [r \in Requests |-> 0]

-----------------------------------------------------------------------------

Call(r) == Cache!Call(r) /\ UNCHANGED local

Check(r) == Cache!Check(r) /\ UNCHANGED local

Load(r) == /\ Cache!Load(r)
           /\ gone' = [gone EXCEPT ![r] = FALSE]
           /\ UNCHANGED <<step, found, deadline>>

Goto(r, s) == step' = [step EXCEPT ![r] = s]

Enter(r) == /\ Cache!Enter(r)
            /\ Goto(r, IF mu' = r THEN "exists" ELSE "none")
            /\ UNCHANGED <<gone, found, deadline>>

\* The refresh stores a snapshot and returns.
Store(r, info, err) == /\ Cache!Publish(r, info, err)
                       /\ Goto(r, "none")
                       /\ found' = [found EXCEPT ![r] = Blank]
                       /\ deadline' = [deadline EXCEPT ![r] = 0]
                       /\ UNCHANGED gone

\* An interface that sysfs does not know ends the refresh without a command.
Exists(r) == /\ step[r] = "exists"
             /\ \/ Store(r, Blank, Absent)
                \/ /\ Goto(r, First)
                   /\ deadline' = [deadline EXCEPT ![r] = clock + ExecTimeout]
                   /\ UNCHANGED <<cacheVars, gone, found>>

\* A command prints its output only if its context outlives it; it may fail at
\* any time, for reasons of its own or because it was killed.
Lives(r) == ~gone[r] /\ clock < deadline[r]

\* Mutant: every command gets a timeout of its own.
ProceedAfresh(r, info, s) ==
  /\ found' = [found EXCEPT ![r] = info]
  /\ Goto(r, s)
  /\ deadline' = [deadline EXCEPT ![r] = clock + ExecTimeout]
  /\ UNCHANGED <<cacheVars, gone>>

\* A step of the refresh leaves its result in info for the next one.
Proceed(r, info, s) == /\ found' = [found EXCEPT ![r] = info]
                       /\ Goto(r, s)
                       /\ UNCHANGED <<cacheVars, gone, deadline>>

\* The client disconnects: net/http cancels the request's context, and with it
\* the context of the commands; the handler itself runs on.
HangUp(r) == /\ pc[r] # "idle"
             /\ ~gone[r]
             /\ gone' = [gone EXCEPT ![r] = TRUE]
             /\ UNCHANGED <<cacheVars, step, found, deadline>>

\* exec.CommandContext kills a command that is still running at its deadline; a
\* stat in sysfs takes no time.
Tick == /\ \A r \in Requests : /\ step[r] # "exists"
                               /\ step[r] \in Commands => clock < deadline[r]
        /\ Cache!Tick
        /\ UNCHANGED local

==============================================================================
