---------------------------- MODULE ServerProofs ----------------------------
(***************************************************************************)
(* Proofs about Server, for any number of handlers and of collectors, and  *)
(* for any timeouts: its types, and how long a handler of /api/stats waits *)
(* when every command hangs.                                               *)
(***************************************************************************)
EXTENDS Server, FiniteSetTheorems, TLAPS

\* What is assumed of the constants, as the provers need it.
LEMMA Constants ==
  /\ Cardinality(Requests) \in Nat
  /\ ExecTimeout \in Nat /\ ExecTimeout > 0
  /\ TTL \in Nat /\ TTL > 0 /\ Grace \in Nat /\ Sections \in Nat /\ Sections > 0
  /\ 1 \in Collectors
BY ServerAssumption, FS_CardinalityType DEF Collectors

\* More turns take longer.
LEMMA MoreTurns ==
  ASSUME NEW k \in Nat, NEW m \in Int, NEW n \in Int
  PROVE  /\ m <= n => m * k <= n * k
         /\ m + 1 <= n => m * k + k <= n * k
<1>1. ASSUME m <= n
      PROVE  m * k <= n * k
  <2>1. PICK d \in Nat : n = m + d
    BY <1>1
  <2>2. n * k = m * k + d * k /\ d * k >= 0
    BY <2>1
  <2> QED
    BY <2>2
<1>2. ASSUME m + 1 <= n
      PROVE  m * k + k <= n * k
  <2>1. PICK d \in Nat : n = m + 1 + d
    BY <1>2
  <2>2. n * k = m * k + k + d * k /\ d * k >= 0
    BY <2>1
  <2> QED
    BY <2>2
<1> QED
  BY <1>1, <1>2

-----------------------------------------------------------------------------

Places == {"idle", "new", "helper", "check", "lock", "refresh"}

\* What belongs to requests has its type.
RequestsOK == /\ at \in [Requests -> Places]
              /\ section \in [Requests -> Collectors]
              /\ since \in [Requests -> Nat]
              /\ elapsed \in [Requests -> Nat]

\* A request that is not with a collector has no time on its clocks.
Resting(r) == ~Asking(r) => section[r] = 1 /\ since[r] = 0 /\ elapsed[r] = 0

\* TypeOK with what it takes to be inductive.
TypeInv == TypeOK /\ \A r \in Requests : Resting(r)

\* The steps that a request takes.
Own(r) == Accept(r) \/ Call(r) \/ HelperAnswers(r) \/ Step(r)

\* The parts of the types.
LEMMA Types ==
  ASSUME TypeInv
  PROVE  /\ RequestsOK
         /\ age \in [Collectors -> 0 .. TTL]
         /\ starving \in [Collectors -> BOOLEAN]
         /\ phase \in {"up", "draining", "exit 0", "exit 1"}
         /\ grace \in 0 .. Grace
BY Zenon DEF TypeInv, TypeOK, RequestsOK, Places

\* Where r is after its step, and when it began to wait there: at once.
Moved(r) == /\ at' = [at EXCEPT ![r] = at'[r]]
            /\ section' = [section EXCEPT ![r] = section'[r]]
            /\ since' = [since EXCEPT ![r] = since'[r]]
            /\ elapsed' = [elapsed EXCEPT ![r] = elapsed'[r]]
            /\ since'[r] = 0

\* A step of r to a place changes nothing else of r, or takes it to the next section.
Stays(r) == section'[r] = section[r] /\ elapsed'[r] = elapsed[r]

Goes(r) == \/ at'[r] = "idle" /\ section'[r] = 1 /\ elapsed'[r] = 0
           \/ /\ at'[r] = "check" /\ section[r] # Sections
              /\ section'[r] = section[r] + 1 /\ elapsed'[r] = elapsed[r]

\* Going to a place sets the clock of a wait to zero.
LEMMA GotoForm ==
  ASSUME RequestsOK, NEW r \in Requests, NEW p, Goto(r, p), UNCHANGED <<section, elapsed>>
  PROVE  Moved(r) /\ at'[r] = p /\ Stays(r)
BY DEF RequestsOK, Goto, Moved, Stays

\* Advance goes to the next collector, or is done.
LEMMA AdvanceForm ==
  ASSUME RequestsOK, NEW r \in Requests, Advance(r)
  PROVE  Moved(r) /\ Goes(r)
<1>1. CASE section[r] = Sections
  BY <1>1 DEF RequestsOK, Advance, Goto, Moved, Goes
<1>2. CASE section[r] # Sections
  BY <1>2 DEF RequestsOK, Advance, Goto, Moved, Goes
<1> QED
  BY <1>1, <1>2

\* What a request's own step does to it.
LEMMA OwnForm ==
  ASSUME TypeInv, NEW r \in Requests, Own(r)
  PROVE  /\ Moved(r)
         /\ \/ /\ at[r] \in {"idle", "new", "helper"} /\ Stays(r)
               /\ at'[r] \in {"idle", "new", "helper", "check"}
               /\ starving' = starving
            \/ /\ at[r] = "check" /\ ~Locked(section[r]) /\ Stays(r) /\ at'[r] = "lock"
            \/ /\ at[r] = "lock" /\ ~Locked(section[r]) /\ Stays(r) /\ at'[r] = "refresh"
               /\ Enter(r) /\ Hunger(r, TRUE)
            \/ /\ at[r] \in {"check", "lock", "refresh"} /\ Goes(r)
<1>1. RequestsOK
  BY Types
<1>2. CASE Accept(r) \/ Call(r) \/ HelperAnswers(r)
  <2>1. at[r] \in {"idle", "new", "helper"}
    BY <1>2 DEF Accept, Call, HelperAnswers
  <2>2. \E p \in {"idle", "new", "helper", "check"} : at' = [at EXCEPT ![r] = p]
    BY <1>2 DEF Accept, Call, HelperAnswers
  <2>3. UNCHANGED <<section, since, elapsed, starving>>
    BY <1>2 DEF Accept, Call, HelperAnswers
  <2>4. since[r] = 0
    BY <2>1 DEF TypeInv, Resting, Asking
  <2> QED
    BY <1>1, <2>1, <2>2, <2>3, <2>4 DEF RequestsOK, Moved, Stays
<1>3. CASE Check(r)
  <2>1. at[r] = "check" /\ ~Locked(section[r])
    BY <1>3 DEF Check, Gets
  <2>2. \/ Goto(r, "lock") /\ UNCHANGED <<section, elapsed>>
        \/ Advance(r)
    BY <1>3 DEF Check
  <2> QED
    BY <1>1, <2>1, <2>2, GotoForm, AdvanceForm
<1>4. CASE Enter(r)
  <2>1. at[r] = "lock" /\ ~Locked(section[r])
    BY <1>4 DEF Enter, Gets
  <2>2. \/ Hunger(r, TRUE) /\ Goto(r, "refresh") /\ UNCHANGED <<section, elapsed>>
        \/ Advance(r)
    BY <1>4 DEF Enter
  <2> QED
    BY <1>1, <1>4, <2>1, <2>2, GotoForm, AdvanceForm
<1>5. CASE Publish(r)
  BY <1>1, <1>5, AdvanceForm DEF Publish
<1> QED
  BY <1>2, <1>3, <1>4, <1>5 DEF Own, Step

\* A request's own step leaves the other requests where they are.
LEMMA OthersStay ==
  ASSUME TypeInv, NEW r \in Requests, Moved(r), NEW q \in Requests, q # r
  PROVE  /\ at'[q] = at[q] /\ section'[q] = section[q]
         /\ since'[q] = since[q] /\ elapsed'[q] = elapsed[q]
BY Types DEF RequestsOK, Moved

\* What belongs to requests keeps its type.
LEMMA OwnRequestsOK ==
  ASSUME TypeInv, NEW r \in Requests, Own(r)
  PROVE  RequestsOK'
<1>1. RequestsOK /\ Moved(r)
  BY Types, OwnForm
<1>2. at'[r] \in Places
  BY OwnForm DEF Goes, Places
<1>3. section'[r] \in Collectors /\ elapsed'[r] \in Nat
  <2>1. section[r] \in Collectors /\ elapsed[r] \in Nat
    BY <1>1 DEF RequestsOK
  <2>2. Stays(r) \/ Goes(r)
    BY OwnForm
  <2> QED
    BY <2>1, <2>2, Constants DEF Stays, Goes, Collectors
<1> QED
  BY <1>1, <1>2, <1>3 DEF RequestsOK, Moved

\* The mutexes' modes stay Boolean.
LEMMA StarvingOK ==
  ASSUME TypeInv, NEW r \in Requests, Own(r)
  PROVE  starving' \in [Collectors -> BOOLEAN]
<1>1. starving \in [Collectors -> BOOLEAN] /\ section[r] \in Collectors
  BY Types DEF RequestsOK
<1>2. ASSUME NEW b \in BOOLEAN, Hunger(r, b)
      PROVE  starving' \in [Collectors -> BOOLEAN]
  <2>1. CASE Overtakes(r)
    <3>1. starving' = [starving EXCEPT ![section[r]] = starving[section[r]] \/ b]
      BY <1>1, <1>2, <2>1, Zenon DEF Hunger
    <3> QED
      BY <1>1, <3>1
  <2>2. CASE ~Overtakes(r)
    <3>1. starving' = [starving EXCEPT ![section[r]] =
                         starving[section[r]] /\ Others(r) # {} /\ since[r] > 0]
      BY <1>1, <1>2, <2>2, Zenon DEF Hunger
    <3> QED
      BY <1>1, <3>1
  <2> QED
    BY <2>1, <2>2
<1>3. starving' = starving \/ \E b \in BOOLEAN : Hunger(r, b)
  BY DEF Own, Accept, Call, HelperAnswers, Step, Check, Enter, Publish
<1> QED
  BY <1>1, <1>2, <1>3

\* A request's own step keeps the types.
LEMMA OwnTypeInv ==
  ASSUME TypeInv, NEW r \in Requests, Own(r)
  PROVE  TypeInv'
<1>1. age' \in [Collectors -> 0 .. TTL]
  <2>1. age' = age \/ age' = [age EXCEPT ![section[r]] = Age(r)]
    BY DEF Own, Accept, Call, HelperAnswers, Step, Check, Enter, Publish
  <2>2. age \in [Collectors -> 0 .. TTL] /\ since[r] \in Nat
    BY Types DEF RequestsOK
  <2>3. Age(r) \in 0 .. TTL
    BY <2>2, Constants DEF Age
  <2> QED
    BY <2>1, <2>2, <2>3
<1>2. phase' = phase /\ grace' = grace
  BY DEF Own, Accept, Call, HelperAnswers, Step, Check, Enter, Publish
<1>3. TypeOK'
  BY <1>1, <1>2, OwnRequestsOK, StarvingOK, Types, Zenon DEF TypeOK, RequestsOK, Places
<1>4. ASSUME NEW q \in Requests
      PROVE  Resting(q)'
  <2>1. CASE q # r
    <3>1. /\ at'[q] = at[q] /\ section'[q] = section[q]
          /\ since'[q] = since[q] /\ elapsed'[q] = elapsed[q]
      BY <2>1, OwnForm, OthersStay
    <3> QED
      BY <3>1 DEF TypeInv, Resting, Asking
  <2>2. CASE q = r
    <3>1. since'[r] = 0 /\ Resting(r)
      BY OwnForm DEF Moved, TypeInv
    <3>2. CASE at[r] \in {"idle", "new", "helper"} /\ Stays(r)
      BY <2>2, <3>1, <3>2 DEF Resting, Asking, Stays
    <3>3. CASE at'[r] \in {"lock", "refresh"}
      BY <2>2, <3>3 DEF Resting, Asking
    <3>4. CASE Goes(r)
      BY <2>2, <3>1, <3>4 DEF Resting, Asking, Goes
    <3> QED
      BY <3>2, <3>3, <3>4, OwnForm
  <2> QED
    BY <2>1, <2>2
<1> QED
  BY <1>3, <1>4 DEF TypeInv

\* The clocks of the handlers that are at work.
LEMMA TickForm ==
  ASSUME TypeInv, Tick
  PROVE  /\ UNCHANGED <<at, section, starving>>
         /\ since' \in [Requests -> Nat] /\ elapsed' \in [Requests -> Nat]
         /\ \A q \in Requests :
              IF Asking(q)
                THEN since'[q] = since[q] + 1 /\ elapsed'[q] = elapsed[q] + 1
                ELSE since'[q] = since[q] /\ elapsed'[q] = elapsed[q]
<1>1. RequestsOK
  BY Types
<1>2. /\ since' = [q \in Requests |-> IF Asking(q) THEN since[q] + 1 ELSE since[q]]
      /\ elapsed' = [q \in Requests |-> IF Asking(q) THEN elapsed[q] + 1 ELSE elapsed[q]]
  BY Zenon DEF Tick
<1>3. UNCHANGED <<at, section, starving>>
  BY DEF Tick
<1> QED
  BY <1>1, <1>2, <1>3 DEF RequestsOK

\* Time keeps the types.
LEMMA TickTypeInv == TypeInv /\ Tick => TypeInv'
<1> SUFFICES ASSUME TypeInv, Tick
             PROVE  TypeInv'
  OBVIOUS
<1>1. age' \in [Collectors -> 0 .. TTL]
  <2>1. age \in [Collectors -> 0 .. TTL] /\ TTL \in Nat
    BY Types, Constants
  <2>2. age' = [c \in Collectors |-> IF age[c] < TTL THEN age[c] + 1 ELSE TTL]
    BY DEF Tick
  <2> QED
    BY <2>1, <2>2
<1>2. grace' \in 0 .. Grace /\ phase' = phase
  <2>1. grace \in 0 .. Grace /\ Grace \in Nat
    BY Types, Constants
  <2>2. (grace' = grace - 1 /\ grace > 0) \/ grace' = grace
    BY DEF Tick
  <2>3. phase' = phase
    BY DEF Tick
  <2> QED
    BY <2>1, <2>2, <2>3
<1>3. TypeOK'
  BY <1>1, <1>2, TickForm, Types, Zenon DEF TypeOK, RequestsOK, Places
<1>4. ASSUME NEW q \in Requests
      PROVE  Resting(q)'
  <2>1. at'[q] = at[q] /\ section'[q] = section[q] /\ Resting(q)
    BY TickForm DEF TypeInv
  <2>2. CASE Asking(q)
    BY <2>1, <2>2 DEF Resting, Asking
  <2>3. CASE ~Asking(q)
    BY <2>1, <2>3, TickForm DEF Resting, Asking
  <2> QED
    BY <2>2, <2>3
<1> QED
  BY <1>3, <1>4 DEF TypeInv

\* What the process does leaves the handlers and the collectors alone.
LEMMA ProcessForm ==
  ASSUME TypeInv, Signal \/ ListenFails \/ ShutdownReturns \/ ShutdownFails \/ Exited
                    \/ UNCHANGED vars
  PROVE  /\ UNCHANGED <<at, section, since, elapsed, age, starving, grace>>
         /\ phase' \in {"up", "draining", "exit 0", "exit 1"}
BY Types DEF Signal, ListenFails, ShutdownReturns, ShutdownFails, Exited, vars

\* Every step keeps the types.
LEMMA NextTypeInv == TypeInv /\ [Next]_vars => TypeInv'
<1> SUFFICES ASSUME TypeInv, [Next]_vars
             PROVE  TypeInv'
  OBVIOUS
<1>1. ASSUME NEW r \in Requests, Own(r)
      PROVE  TypeInv'
  BY <1>1, OwnTypeInv
<1>2. CASE Tick
  BY <1>2, TickTypeInv
<1>3. CASE Signal \/ ListenFails \/ ShutdownReturns \/ ShutdownFails \/ Exited
             \/ UNCHANGED vars
  <2>1. TypeOK'
    BY <1>3, ProcessForm, Zenon DEF TypeInv, TypeOK
  <2>2. \A q \in Requests : Resting(q)'
    BY <1>3, ProcessForm DEF TypeInv, Resting, Asking
  <2> QED
    BY <2>1, <2>2 DEF TypeInv
<1> QED
  BY <1>1, <1>2, <1>3 DEF Next, Own

\* Everybody is at rest at first.
LEMMA InitTypeInv == Init => TypeInv
<1> SUFFICES ASSUME Init
             PROVE  TypeInv
  OBVIOUS
<1>1. RequestsOK /\ age \in [Collectors -> 0 .. TTL] /\ grace \in 0 .. Grace
  BY Constants DEF Init, RequestsOK, Places
<1>2. starving \in [Collectors -> BOOLEAN] /\ phase = "up"
  BY DEF Init
<1>3. TypeOK
  BY <1>1, <1>2, Zenon DEF TypeOK, RequestsOK, Places
<1>4. \A r \in Requests : Resting(r)
  BY DEF Init, Resting
<1> QED
  BY <1>3, <1>4 DEF TypeInv

\* The type invariant of the process.
THEOREM TypeCorrect == Spec => []TypeOK
<1>1. TypeInv => TypeOK
  BY DEF TypeInv
<1> QED
  BY <1>1, InitTypeInv, NextTypeInv, PTL DEF Spec

-----------------------------------------------------------------------------

\* As long as every handler takes one turn.
Wait == Cardinality(Requests) * ExecTimeout

\* One handler refreshes at a time, and not for longer than its commands may take.
Alone == \A h, g \in Requests :
           at[h] = "refresh" /\ at[g] = "refresh" /\ section[h] = section[g] => h = g

Limited == \A h \in Requests : at[h] = "refresh" => since[h] <= ExecTimeout

\* The others that may go before r if the mutex is handed over in turn.
Ahead(r) == {w \in Others(r) : since[w] >= since[r]}

\* The turns that are over when they have gone, of one for each handler: r's own is
\* not among them, and one that came later may overtake r until the mutex starves.
Turns(r) == Cardinality(Requests) - Cardinality(Ahead(r))
              - (IF starving[section[r]] THEN 0 ELSE 1)

Budget(r) == Turns(r) * ExecTimeout

\* r has not waited for longer than these turns take, the one that is under way, when
\* there is one, counted to its end.
Patient(r) == Waits(r, section[r]) /\ since[r] > 0 =>
                /\ since[r] <= Budget(r)
                /\ \A h \in Requests : at[h] = "refresh" /\ section[h] = section[r] =>
                     since[r] + ExecTimeout - since[h] <= Budget(r)

\* The bound on a wait, with what it takes to be inductive.
WaitInv == TypeInv /\ Alone /\ Limited /\ \A r \in Requests : Patient(r)

\* The sets of waiters are finite, and their numbers are ordered like themselves.
LEMMA AheadNumber ==
  ASSUME NEW r \in Requests
  PROVE  /\ Ahead(r) \subseteq Requests \ {r} /\ IsFiniteSet(Ahead(r))
         /\ Cardinality(Ahead(r)) \in Nat
         /\ \A h \in Requests : h # r /\ ~Waits(h, section[r]) =>
              Cardinality(Ahead(r)) <= Cardinality(Requests) - 2
<1>1. Ahead(r) \subseteq Requests \ {r}
  BY DEF Ahead, Others
<1>2. IsFiniteSet(Ahead(r)) /\ Cardinality(Ahead(r)) \in Nat
  BY <1>1, ServerAssumption, FS_Subset, FS_CardinalityType
<1>3. ASSUME NEW h \in Requests, h # r, ~Waits(h, section[r])
      PROVE  Cardinality(Ahead(r)) <= Cardinality(Requests) - 2
  <2>1. Ahead(r) \subseteq (Requests \ {r}) \ {h}
    BY <1>3 DEF Ahead, Others
  <2>2. /\ IsFiniteSet(Requests \ {r})
        /\ Cardinality(Requests \ {r}) = Cardinality(Requests) - 1
    BY ServerAssumption, FS_RemoveElement
  <2>3. /\ IsFiniteSet((Requests \ {r}) \ {h})
        /\ Cardinality((Requests \ {r}) \ {h}) = Cardinality(Requests \ {r}) - 1
    BY <1>3, <2>2, FS_RemoveElement
  <2>4. Cardinality(Ahead(r)) <= Cardinality((Requests \ {r}) \ {h})
    BY <2>1, <2>3, FS_Subset
  <2> QED
    BY <2>2, <2>3, <2>4, Constants
<1> QED
  BY <1>1, <1>2, <1>3

\* A budget is no more than a turn of every handler.
LEMMA BudgetBound ==
  ASSUME NEW r \in Requests
  PROVE  Turns(r) \in Int /\ Budget(r) \in Int /\ Budget(r) <= Wait
<1>1. Turns(r) \in Int /\ Turns(r) <= Cardinality(Requests)
  BY AheadNumber, Constants DEF Turns
<1> QED
  BY <1>1, Constants, MoreTurns DEF Budget, Wait

\* r's own step takes it off those ahead of q, and puts nobody there.
LEMMA FewerAhead ==
  ASSUME TypeInv, NEW r \in Requests, Own(r), NEW q \in Requests, q # r, since[q] > 0
  PROVE  /\ Cardinality(Ahead(q))' \in Nat
         /\ Cardinality(Ahead(q))' <= Cardinality(Ahead(q))
         /\ r \in Ahead(q) => Cardinality(Ahead(q))' <= Cardinality(Ahead(q)) - 1
<1>1. Ahead(q)' \subseteq Ahead(q) \ {r}
  <2> SUFFICES ASSUME NEW w \in Ahead(q)'
               PROVE  w \in Ahead(q) /\ w # r
    OBVIOUS
  <2>1. w \in Requests /\ w # q /\ Waits(w, section[q])' /\ since'[w] >= since'[q]
    BY DEF Ahead, Others
  <2>2. section'[q] = section[q] /\ since'[q] = since[q] /\ since'[r] = 0
    BY OwnForm, OthersStay DEF Moved
  <2>3. since[q] \in Nat
    BY Types DEF RequestsOK
  <2>4. w # r
    BY <2>1, <2>2, <2>3
  <2>5. at'[w] = at[w] /\ section'[w] = section[w] /\ since'[w] = since[w]
    BY <2>1, <2>4, OwnForm, OthersStay
  <2>6. Waits(w, section[q])
    BY <2>1, <2>2, <2>5 DEF Waits
  <2> QED
    BY <2>1, <2>2, <2>4, <2>5, <2>6 DEF Ahead, Others
<1>2. IsFiniteSet(Ahead(q)) /\ Cardinality(Ahead(q)) \in Nat
  BY AheadNumber
<1>3. /\ IsFiniteSet(Ahead(q) \ {r})
      /\ Cardinality(Ahead(q) \ {r}) =
           IF r \in Ahead(q) THEN Cardinality(Ahead(q)) - 1 ELSE Cardinality(Ahead(q))
  BY <1>2, FS_RemoveElement
<1>4. IsFiniteSet(Ahead(q)') /\ Cardinality(Ahead(q)') <= Cardinality(Ahead(q) \ {r})
  BY <1>1, <1>3, FS_Subset
<1>5. Cardinality(Ahead(q)') \in Nat
  BY <1>4, FS_CardinalityType
<1> QED
  BY <1>2, <1>3, <1>4, <1>5

\* As long as somebody has waited, a mutex that starves goes on starving: it stops only
\* for the last waiter, or for one that has not waited at all.
LEMMA StarvesOn ==
  ASSUME TypeInv, NEW r \in Requests, Own(r), NEW q \in Requests, q # r,
         Waits(q, section[q]), since[q] > 0, starving[section[q]]
  PROVE  starving'[section[q]]
<1>1. /\ starving \in [Collectors -> BOOLEAN] /\ section[r] \in Collectors
      /\ section[q] \in Collectors
  BY Types DEF RequestsOK
<1>2. ASSUME NEW b \in BOOLEAN, Hunger(r, b)
      PROVE  starving'[section[q]]
  <2>1. CASE section[q] # section[r]
    <3>1. \E e : starving' = [starving EXCEPT ![section[r]] = e]
      BY <1>2, Zenon DEF Hunger
    <3> QED
      BY <1>1, <2>1, <3>1
  <2>2. CASE section[q] = section[r] /\ Overtakes(r)
    <3>1. starving' = [starving EXCEPT ![section[r]] = starving[section[r]] \/ b]
      BY <1>1, <1>2, <2>2, Zenon DEF Hunger
    <3> QED
      BY <1>1, <2>2, <3>1
  <2>3. CASE section[q] = section[r] /\ ~Overtakes(r)
    <3>1. starving' = [starving EXCEPT ![section[r]] =
                         starving[section[r]] /\ Others(r) # {} /\ since[r] > 0]
      BY <1>1, <1>2, <2>3, Zenon DEF Hunger
    <3>2. q \in Others(r)
      BY <2>3 DEF Others
    <3>3. ~(since[q] > since[r])
      BY <2>3, <3>2 DEF Overtakes
    <3>4. since[r] \in Nat /\ since[q] \in Nat
      BY Types DEF RequestsOK
    <3>5. since[r] > 0
      BY <3>3, <3>4
    <3> QED
      BY <1>1, <2>3, <3>1, <3>2, <3>5
  <2> QED
    BY <2>1, <2>2, <2>3
<1>3. starving' = starving \/ \E b \in BOOLEAN : Hunger(r, b)
  BY DEF Own, Accept, Call, HelperAnswers, Step, Check, Enter, Publish
<1> QED
  BY <1>2, <1>3

\* A step of another handler costs q nothing that it has not been counted for, and a
\* handler that goes ahead of q was counted, or makes the mutex starve.
LEMMA TurnsGrow ==
  ASSUME TypeInv, NEW r \in Requests, Own(r), NEW q \in Requests, q # r,
         Waits(q, section[q]), since[q] > 0
  PROVE  /\ Turns(q) \in Int /\ Turns(q)' \in Int /\ Turns(q) <= Turns(q)'
         /\ at'[r] = "refresh" /\ section'[r] = section[q] => Turns(q) + 1 <= Turns(q)'
<1>1. /\ Cardinality(Ahead(q)) \in Nat /\ Cardinality(Ahead(q))' \in Nat
      /\ Cardinality(Ahead(q))' <= Cardinality(Ahead(q))
      /\ r \in Ahead(q) => Cardinality(Ahead(q))' <= Cardinality(Ahead(q)) - 1
  BY FewerAhead, AheadNumber
<1>2. section'[q] = section[q]
  BY OwnForm, OthersStay
<1> DEFINE slack  == IF starving[section[q]] THEN 0 ELSE 1
           slackP == IF starving'[section'[q]] THEN 0 ELSE 1
<1>3. slack \in {0, 1} /\ slackP \in {0, 1}
  OBVIOUS
<1>4. slackP <= slack
  BY <1>2, StarvesOn
<1>5. /\ Turns(q) = Cardinality(Requests) - Cardinality(Ahead(q)) - slack
      /\ Turns(q)' = Cardinality(Requests) - Cardinality(Ahead(q))' - slackP
  BY Zenon DEF Turns
<1>6. ASSUME at'[r] = "refresh", section'[r] = section[q], r \notin Ahead(q)
      PROVE  slack = 1 /\ slackP = 0
  <2>1. /\ at[r] = "lock" /\ section[r] = section[q] /\ Enter(r) /\ Hunger(r, TRUE)
    BY <1>6, OwnForm DEF Stays, Goes
  <2>2. r \in Others(q) /\ q \in Others(r)
    BY <2>1 DEF Others, Waits
  <2>3. since[q] > since[r]
    <3>1. ~(since[r] >= since[q])
      BY <1>6, <2>2 DEF Ahead
    <3>2. since[r] \in Nat /\ since[q] \in Nat
      BY Types DEF RequestsOK
    <3> QED
      BY <3>1, <3>2
  <2>4. Overtakes(r)
    BY <2>2, <2>3 DEF Overtakes
  <2>5. ~starving[section[q]]
    BY <2>1, <2>4 DEF Enter, Gets
  <2>6. starving' = [starving EXCEPT ![section[r]] = starving[section[r]] \/ TRUE]
    BY <2>1, <2>4, Zenon DEF Hunger
  <2>7. starving'[section[q]]
    BY <2>1, <2>6, Types DEF RequestsOK
  <2> QED
    BY <1>2, <2>5, <2>7
<1> HIDE DEF slack, slackP
<1>7. Turns(q) \in Int /\ Turns(q)' \in Int /\ Turns(q) <= Turns(q)'
  BY <1>1, <1>3, <1>4, <1>5, Constants
<1>8. ASSUME at'[r] = "refresh", section'[r] = section[q]
      PROVE  Turns(q) + 1 <= Turns(q)'
  <2>1. CASE r \in Ahead(q)
    BY <1>1, <1>3, <1>4, <1>5, <2>1, Constants
  <2>2. CASE r \notin Ahead(q)
    BY <1>1, <1>3, <1>5, <1>6, <1>8, <2>2, Constants
  <2> QED
    BY <2>1, <2>2
<1> QED
  BY <1>7, <1>8

\* A request's own step leaves the others patient.
LEMMA OthersPatient ==
  ASSUME WaitInv, NEW r \in Requests, Own(r), NEW q \in Requests, q # r
  PROVE  Patient(q)'
<1>1. TypeInv /\ Patient(q) /\ RequestsOK /\ RequestsOK' /\ Moved(r)
  BY Types, OwnForm, OwnRequestsOK DEF WaitInv
<1>2. at'[q] = at[q] /\ section'[q] = section[q] /\ since'[q] = since[q]
  BY <1>1, OthersStay
<1> SUFFICES ASSUME Waits(q, section[q])', since'[q] > 0
             PROVE  /\ since'[q] <= Budget(q)'
                    /\ \A h \in Requests : at'[h] = "refresh" /\ section'[h] = section'[q] =>
                         since'[q] + ExecTimeout - since'[h] <= Budget(q)'
  BY DEF Patient
<1>3. Waits(q, section[q]) /\ since[q] > 0
  BY <1>2 DEF Waits
<1>4. /\ Turns(q) \in Int /\ Turns(q)' \in Int /\ Turns(q) <= Turns(q)'
      /\ at'[r] = "refresh" /\ section'[r] = section[q] => Turns(q) + 1 <= Turns(q)'
  BY <1>1, <1>3, TurnsGrow
<1>5. Budget(q) \in Int /\ Budget(q)' \in Int /\ Budget(q) <= Budget(q)'
  BY <1>4, MoreTurns, Constants DEF Budget
<1>6. since[q] <= Budget(q) /\ since[q] \in Nat
  BY <1>1, <1>3 DEF Patient, RequestsOK
<1>7. ASSUME NEW h \in Requests, at'[h] = "refresh", section'[h] = section'[q]
      PROVE  since'[q] + ExecTimeout - since'[h] <= Budget(q)'
  <2>1. CASE h # r
    <3>1. at[h] = "refresh" /\ section[h] = section[q] /\ since'[h] = since[h]
      BY <1>1, <1>2, <1>7, <2>1, OthersStay
    <3>2. since[q] + ExecTimeout - since[h] <= Budget(q)
      BY <1>1, <1>3, <3>1 DEF Patient
    <3>3. since[h] \in Nat
      BY <1>1 DEF RequestsOK
    <3> QED
      BY <1>2, <1>5, <1>6, <3>1, <3>2, <3>3, Constants
  <2>2. CASE h = r
    <3>1. Turns(q) + 1 <= Turns(q)'
      BY <1>2, <1>4, <1>7, <2>2
    <3>2. Budget(q) + ExecTimeout <= Budget(q)'
      BY <1>4, <3>1, MoreTurns, Constants DEF Budget
    <3>3. since'[h] = 0
      BY <1>1, <2>2 DEF Moved
    <3> QED
      BY <1>2, <1>5, <1>6, <3>2, <3>3, Constants
  <2> QED
    BY <2>1, <2>2
<1> QED
  BY <1>2, <1>5, <1>6, <1>7

\* A request's own step keeps the bound on waits: it does not wait any more, and
\* refreshes only where nobody does.
LEMMA OwnWaitInv ==
  ASSUME WaitInv, NEW r \in Requests, Own(r)
  PROVE  WaitInv'
<1>1. TypeInv /\ TypeInv' /\ RequestsOK' /\ Moved(r) /\ Alone /\ Limited
  BY OwnTypeInv, OwnForm, OwnRequestsOK DEF WaitInv
<1>2. ASSUME at'[r] = "refresh"
      PROVE  section'[r] = section[r] /\ ~Locked(section[r])
  BY <1>1, <1>2, OwnForm DEF Stays, Goes
<1>3. ASSUME NEW h \in Requests, h # r, at'[h] = "refresh", at'[r] = "refresh"
      PROVE  section'[h] # section'[r]
  BY <1>1, <1>2, <1>3, OthersStay DEF Locked
<1>4. Alone'
  <2> SUFFICES ASSUME NEW h \in Requests, NEW g \in Requests, at'[h] = "refresh",
                      at'[g] = "refresh", section'[h] = section'[g]
               PROVE  h = g
    BY DEF Alone
  <2>1. CASE h = r \/ g = r
    BY <1>3, <2>1
  <2>2. CASE h # r /\ g # r
    BY <1>1, <2>2, OthersStay DEF Alone
  <2> QED
    BY <2>1, <2>2
<1>5. Limited'
  <2> SUFFICES ASSUME NEW h \in Requests, at'[h] = "refresh"
               PROVE  since'[h] <= ExecTimeout
    BY DEF Limited
  <2>1. CASE h = r
    BY <1>1, <2>1, Constants DEF Moved
  <2>2. CASE h # r
    BY <1>1, <2>2, OthersStay DEF Limited
  <2> QED
    BY <2>1, <2>2
<1>6. ASSUME NEW q \in Requests
      PROVE  Patient(q)'
  <2>1. CASE q = r
    BY <1>1, <2>1 DEF Moved, Patient
  <2>2. CASE q # r
    BY <2>2, OthersPatient
  <2> QED
    BY <2>1, <2>2
<1> QED
  BY <1>1, <1>4, <1>5, <1>6 DEF WaitInv

\* Time runs alike for all that wait, and leaves the order among them.
LEMMA TickAhead ==
  ASSUME TypeInv, Tick, NEW q \in Requests, Waits(q, section[q])
  PROVE  Ahead(q)' = Ahead(q) /\ Turns(q)' = Turns(q) /\ Budget(q)' = Budget(q)
<1>1. UNCHANGED <<at, section, starving>>
  BY TickForm
<1>2. ASSUME NEW w \in Requests, Waits(w, section[q])
      PROVE  since'[w] = since[w] + 1 /\ since[w] \in Nat
  BY <1>2, TickForm, Types DEF Waits, Asking, RequestsOK
<1>3. Others(q)' = Others(q)
  BY <1>1 DEF Others, Waits
<1>4. ASSUME NEW w \in Others(q)
      PROVE  since'[w] >= since'[q] <=> since[w] >= since[q]
  BY <1>2 DEF Others
<1>5. Ahead(q)' = Ahead(q)
  BY <1>3, <1>4 DEF Ahead
<1>6. Turns(q)' = Turns(q)
  BY <1>1, <1>5 DEF Turns
<1> QED
  BY <1>5, <1>6 DEF Budget

\* Time passes for who waits only while another refreshes, who has time left; so a
\* wait begins with the other handlers, but this one, ahead at most.
LEMMA TickPatient ==
  ASSUME WaitInv, Tick, NEW q \in Requests
  PROVE  Patient(q)'
<1>1. TypeInv /\ RequestsOK /\ Patient(q) /\ Alone
  BY Types DEF WaitInv
<1>2. UNCHANGED <<at, section, starving>>
  BY <1>1, TickForm
<1> SUFFICES ASSUME Waits(q, section[q])
             PROVE  /\ since'[q] <= Budget(q)'
                    /\ \A h \in Requests : at[h] = "refresh" /\ section[h] = section[q] =>
                         since'[q] + ExecTimeout - since'[h] <= Budget(q)'
  BY <1>2 DEF Patient, Waits
<1>3. PICK h \in Requests : section[h] = section[q] /\ at[h] = "refresh"
  BY DEF Tick, Locked
<1>4. since[h] < ExecTimeout
  BY <1>3 DEF Tick, Limit
<1>5. \A g \in Requests : at[g] = "refresh" /\ section[g] = section[q] => g = h
  BY <1>1, <1>3 DEF Alone
<1>6. /\ since'[h] = since[h] + 1 /\ since'[q] = since[q] + 1
      /\ since[h] \in Nat /\ since[q] \in Nat
  BY <1>1, <1>3, TickForm DEF Asking, Waits, RequestsOK
<1>7. Budget(q)' = Budget(q) /\ Budget(q) \in Int /\ Turns(q) \in Int
  BY <1>1, TickAhead, BudgetBound
<1>8. since[q] + 1 + ExecTimeout - (since[h] + 1) <= Budget(q)
  <2>1. CASE since[q] > 0
    <3>1. since[q] + ExecTimeout - since[h] <= Budget(q)
      BY <1>1, <1>3, <2>1 DEF Patient
    <3> QED
      BY <1>6, <1>7, <3>1, Constants
  <2>2. CASE since[q] = 0
    <3>1. Cardinality(Ahead(q)) <= Cardinality(Requests) - 2
      <4>1. h # q /\ ~Waits(h, section[q])
        BY <1>3 DEF Waits
      <4> QED
        BY <4>1, AheadNumber
    <3>2. 1 <= Turns(q)
      <4>1. Cardinality(Ahead(q)) \in Nat
        BY AheadNumber
      <4> QED
        BY <3>1, <4>1, Constants DEF Turns
    <3>3. 1 * ExecTimeout <= Budget(q)
      BY <1>7, <3>2, MoreTurns, Constants DEF Budget
    <3> QED
      BY <1>6, <1>7, <2>2, <3>3, Constants
  <2> QED
    BY <1>6, <2>1, <2>2
<1> QED
  BY <1>4, <1>5, <1>6, <1>7, <1>8, Constants

\* Every step keeps the bound on waits.
LEMMA NextWaitInv == WaitInv /\ [Next]_vars => WaitInv'
<1> SUFFICES ASSUME WaitInv, [Next]_vars
             PROVE  WaitInv'
  OBVIOUS
<1>1. TypeInv /\ TypeInv'
  BY NextTypeInv DEF WaitInv
<1>2. ASSUME NEW r \in Requests, Own(r)
      PROVE  WaitInv'
  BY <1>2, OwnWaitInv
<1>3. CASE Tick
  <2>1. UNCHANGED <<at, section>>
    BY <1>1, <1>3, TickForm
  <2>2. Alone'
    BY <2>1 DEF WaitInv, Alone
  <2>3. Limited'
    <3> SUFFICES ASSUME NEW h \in Requests, at[h] = "refresh"
                 PROVE  since'[h] <= ExecTimeout
      BY <2>1 DEF Limited
    <3>1. since[h] < ExecTimeout
      BY <1>3 DEF Tick, Limit
    <3>2. since'[h] = since[h] + 1 /\ since[h] \in Nat
      BY <1>1, <1>3, TickForm, Types DEF Asking, RequestsOK
    <3> QED
      BY <3>1, <3>2, Constants
  <2> QED
    BY <1>1, <1>3, <2>2, <2>3, TickPatient DEF WaitInv
<1>4. CASE Signal \/ ListenFails \/ ShutdownReturns \/ ShutdownFails \/ Exited
             \/ UNCHANGED vars
  <2>1. UNCHANGED <<at, section, since, starving>>
    BY <1>1, <1>4, ProcessForm
  <2>2. Alone' /\ Limited'
    BY <2>1 DEF WaitInv, Alone, Limited
  <2>3. ASSUME NEW q \in Requests
        PROVE  Patient(q)'
    <3>1. Ahead(q)' = Ahead(q)
      BY <2>1 DEF Ahead, Others, Waits
    <3>2. Budget(q)' = Budget(q)
      BY <2>1, <3>1 DEF Budget, Turns
    <3>3. Patient(q)
      BY DEF WaitInv
    <3> QED
      BY <2>1, <3>2, <3>3 DEF Patient, Waits
  <2> QED
    BY <1>1, <2>2, <2>3 DEF WaitInv
<1> QED
  BY <1>2, <1>3, <1>4 DEF Next, Own

-----------------------------------------------------------------------------

\* The time with one collector: two waits and a refresh.
Visit == 2 * Wait + ExecTimeout

\* The time that the collectors before r's have cost.
Before(r) == (section[r] - 1) * Visit

\* The bound on the time of a handler, place by place.
Spent(r) == /\ at[r] = "check" => elapsed[r] <= Before(r) + since[r]
            /\ at[r] = "lock" => elapsed[r] <= Before(r) + Wait + since[r]
            /\ at[r] = "refresh" => elapsed[r] <= Before(r) + 2 * Wait + since[r]

\* AnsweredWithin with what it takes to be inductive.
SpentInv == WaitInv /\ \A r \in Requests : Spent(r)

\* The measures of time are numbers.
LEMMA Times ==
  ASSUME TypeInv, NEW r \in Requests
  PROVE  /\ Wait \in Nat /\ Visit \in Nat
         /\ section[r] \in Nat /\ section[r] > 0 /\ section[r] <= Sections
         /\ since[r] \in Nat /\ elapsed[r] \in Nat
         /\ Before(r) \in Nat
<1>1. Wait \in Nat
  BY Constants DEF Wait
<1>2. Visit \in Nat
  BY <1>1, Constants DEF Visit
<1>3. section[r] \in Collectors /\ since[r] \in Nat /\ elapsed[r] \in Nat
  BY Types DEF RequestsOK
<1>4. section[r] \in Nat /\ section[r] > 0 /\ section[r] <= Sections
  BY <1>3, Constants DEF Collectors
<1>5. Before(r) \in Nat
  <2>1. section[r] - 1 \in Nat
    BY <1>4
  <2> QED
    BY <1>2, <2>1 DEF Before
<1> QED
  BY <1>1, <1>2, <1>3, <1>4, <1>5

\* A handler has not waited longer, where it is, than everybody's turns take.
LEMMA WaitBound ==
  ASSUME WaitInv, NEW r \in Requests, at[r] \in {"check", "lock"}
  PROVE  since[r] <= Wait
<1>1. Patient(r) /\ Waits(r, section[r]) /\ since[r] \in Nat /\ Wait \in Nat
  BY Times DEF WaitInv, Waits
<1>2. CASE since[r] > 0
  BY <1>1, <1>2, BudgetBound DEF Patient
<1> QED
  BY <1>1, <1>2

\* When a handler is done with a collector, the time that this has cost has passed.
LEMMA VisitOver ==
  ASSUME SpentInv, NEW r \in Requests, Asking(r)
  PROVE  elapsed[r] <= Before(r) + Visit
<1>1. WaitInv /\ TypeInv /\ Spent(r)
  BY DEF SpentInv, WaitInv
<1>2. /\ Wait \in Nat /\ Before(r) \in Nat /\ since[r] \in Nat /\ elapsed[r] \in Nat
      /\ ExecTimeout \in Nat
  BY <1>1, Times, Constants
<1>3. CASE at[r] = "check"
  BY <1>1, <1>2, <1>3, WaitBound DEF Spent, Visit
<1>4. CASE at[r] = "lock"
  BY <1>1, <1>2, <1>4, WaitBound DEF Spent, Visit
<1>5. CASE at[r] = "refresh"
  BY <1>1, <1>2, <1>5 DEF Spent, Visit, WaitInv, Limited
<1> QED
  BY <1>3, <1>4, <1>5 DEF Asking

\* A request's own step accounts for the time that it has spent where it was.
LEMMA OwnSpent ==
  ASSUME SpentInv, NEW r \in Requests, Own(r)
  PROVE  Spent(r)'
<1>1. WaitInv /\ TypeInv /\ Spent(r) /\ Resting(r) /\ Moved(r)
  BY OwnForm DEF SpentInv, WaitInv, TypeInv
<1>2. /\ Wait \in Nat /\ Visit \in Nat /\ Before(r) \in Nat /\ since[r] \in Nat
      /\ elapsed[r] \in Nat /\ section[r] \in Nat
  BY <1>1, Times
<1>3. since'[r] = 0
  BY <1>1 DEF Moved
<1>4. ASSUME Stays(r)
      PROVE  Before(r)' = Before(r) /\ elapsed'[r] = elapsed[r]
  BY <1>4 DEF Stays, Before
<1>5. CASE /\ at[r] \in {"idle", "new", "helper"} /\ Stays(r)
           /\ at'[r] \in {"idle", "new", "helper", "check"}
  <2>1. elapsed[r] = 0
    BY <1>1, <1>5 DEF Resting, Asking
  <2> QED
    BY <1>2, <1>3, <1>4, <1>5, <2>1 DEF Spent
<1>6. CASE at[r] = "check" /\ Stays(r) /\ at'[r] = "lock"
  <2>1. elapsed[r] <= Before(r) + since[r] /\ since[r] <= Wait
    BY <1>1, <1>6, WaitBound DEF Spent
  <2> QED
    BY <1>2, <1>3, <1>4, <1>6, <2>1 DEF Spent
<1>7. CASE at[r] = "lock" /\ Stays(r) /\ at'[r] = "refresh"
  <2>1. elapsed[r] <= Before(r) + Wait + since[r] /\ since[r] <= Wait
    BY <1>1, <1>7, WaitBound DEF Spent
  <2> QED
    BY <1>2, <1>3, <1>4, <1>7, <2>1 DEF Spent
<1>8. CASE Asking(r) /\ Goes(r)
  <2>1. CASE at'[r] = "idle"
    BY <2>1 DEF Spent
  <2>2. CASE at'[r] = "check" /\ section'[r] = section[r] + 1 /\ elapsed'[r] = elapsed[r]
    <3>1. elapsed[r] <= Before(r) + Visit
      BY <1>8, VisitOver
    <3>2. Before(r)' = Before(r) + Visit
      <4>1. Before(r)' = (section'[r] - 1) * Visit
        BY DEF Before, Visit, Wait
      <4>2. Before(r)' = section[r] * Visit
        BY <1>2, <2>2, <4>1
      <4> HIDE DEF Visit
      <4>3. section[r] * Visit = (section[r] - 1) * Visit + Visit
        BY <1>2
      <4> QED
        BY <4>2, <4>3 DEF Before
    <3> QED
      BY <1>2, <1>3, <2>2, <3>1, <3>2 DEF Spent
  <2> QED
    BY <1>8, <2>1, <2>2 DEF Goes
<1>9. \/ /\ at[r] \in {"idle", "new", "helper"} /\ Stays(r)
         /\ at'[r] \in {"idle", "new", "helper", "check"}
      \/ at[r] = "check" /\ Stays(r) /\ at'[r] = "lock"
      \/ at[r] = "lock" /\ Stays(r) /\ at'[r] = "refresh"
      \/ Asking(r) /\ Goes(r)
  BY <1>1, OwnForm, Zenon DEF Asking
<1> QED
  BY <1>5, <1>6, <1>7, <1>8, <1>9

\* Every step keeps the bound on the time spent.
LEMMA NextSpentInv == SpentInv /\ [Next]_vars => SpentInv'
<1> SUFFICES ASSUME SpentInv, [Next]_vars
             PROVE  SpentInv'
  OBVIOUS
<1>1. WaitInv /\ WaitInv' /\ TypeInv
  BY NextWaitInv DEF SpentInv, WaitInv
<1>2. ASSUME NEW r \in Requests, Own(r), NEW q \in Requests
      PROVE  Spent(q)'
  <2>1. CASE q = r
    BY <1>2, <2>1, OwnSpent
  <2>2. CASE q # r
    <3>1. /\ at'[q] = at[q] /\ section'[q] = section[q]
          /\ since'[q] = since[q] /\ elapsed'[q] = elapsed[q]
      BY <1>1, <1>2, <2>2, OwnForm, OthersStay
    <3> QED
      BY <3>1 DEF SpentInv, Spent, Before
  <2> QED
    BY <2>1, <2>2
<1>3. ASSUME Tick, NEW q \in Requests
      PROVE  Spent(q)'
  <2>1. at'[q] = at[q] /\ section'[q] = section[q] /\ Before(q)' = Before(q) /\ Spent(q)
    BY <1>1, <1>3, TickForm DEF SpentInv, Before
  <2>2. CASE Asking(q)
    <3>1. since'[q] = since[q] + 1 /\ elapsed'[q] = elapsed[q] + 1
      BY <1>1, <1>3, <2>2, TickForm
    <3>2. /\ Wait \in Nat /\ Before(q) \in Nat
          /\ since[q] \in Nat /\ elapsed[q] \in Nat
      BY <1>1, Times
    <3> QED
      BY <2>1, <3>1, <3>2 DEF Spent
  <2>3. CASE ~Asking(q)
    BY <2>1, <2>3 DEF Spent, Asking
  <2> QED
    BY <2>2, <2>3
<1>4. ASSUME Signal \/ ListenFails \/ ShutdownReturns \/ ShutdownFails \/ Exited
               \/ UNCHANGED vars,
             NEW q \in Requests
      PROVE  Spent(q)'
  <2>1. UNCHANGED <<at, section, since, elapsed>>
    BY <1>1, <1>4, ProcessForm
  <2> QED
    BY <2>1 DEF SpentInv, Spent, Before
<1>5. \A q \in Requests : Spent(q)'
  BY <1>2, <1>3, <1>4 DEF Next, Own
<1> QED
  BY <1>1, <1>5 DEF SpentInv

\* Nobody waits and nobody has spent time at first.
LEMMA InitSpentInv == Init => SpentInv
<1> SUFFICES ASSUME Init
             PROVE  SpentInv
  OBVIOUS
<1>1. \A r \in Requests : at[r] = "idle"
  BY DEF Init
<1>2. Alone /\ Limited
  BY <1>1 DEF Alone, Limited
<1>3. \A r \in Requests : Patient(r) /\ Spent(r)
  BY <1>1 DEF Patient, Waits, Spent
<1> QED
  BY <1>2, <1>3, InitTypeInv DEF SpentInv, WaitInv

\* With commands that hang (collector.go:132), with handlers that refresh in turn and
\* newcomers that overtake, however many there are, /api/stats is answered in the time
\* that AnsweredWithin gives.
THEOREM Answered == Spec => []AnsweredWithin
<1>1. SpentInv => AnsweredWithin
  <2> SUFFICES ASSUME SpentInv, NEW r \in Requests
               PROVE  elapsed[r] <= Sections * (2 * Cardinality(Requests) + 1) * ExecTimeout
    BY DEF AnsweredWithin
  <2>1. TypeInv /\ Resting(r)
    BY DEF SpentInv, WaitInv, TypeInv
  <2>2. /\ Visit \in Nat /\ section[r] \in Nat /\ section[r] > 0 /\ section[r] <= Sections
        /\ Sections \in Nat /\ elapsed[r] \in Nat /\ Before(r) \in Nat
    BY <2>1, Times, Constants
  <2>3. elapsed[r] <= Before(r) + Visit
    <3>1. CASE Asking(r)
      BY <3>1, VisitOver
    <3>2. CASE ~Asking(r)
      BY <2>1, <2>2, <3>2 DEF Resting
    <3> QED
      BY <3>1, <3>2
  <2>4. Before(r) + Visit <= Sections * Visit
    BY <2>2, MoreTurns DEF Before
  <2>5. Sections * Visit = Sections * (2 * Cardinality(Requests) + 1) * ExecTimeout
    <3>1. ASSUME NEW n \in Nat, NEW k \in Nat, NEW m \in Nat
          PROVE  m * (2 * (n * k) + k) = m * (2 * n + 1) * k
      OBVIOUS
    <3> QED
      BY <3>1, Constants DEF Visit, Wait
  <2>6. Sections * Visit \in Nat
    BY <2>2
  <2> QED
    BY <2>2, <2>3, <2>4, <2>5, <2>6
<1> QED
  BY <1>1, InitSpentInv, NextSpentInv, PTL DEF Spec

==============================================================================
