----------------------------- MODULE AuthzProofs -----------------------------
(***************************************************************************)
(* Proofs about Authz, for any number of requests, any users and passwords *)
(* and any lifetime of the cache's entries: its types, who is served, who  *)
(* may operate, and what an answer says of the operation.                  *)
(***************************************************************************)
EXTENDS Authz, TLAPS

\* The parts of the types that the provers need as equations of their own.
LEMMA InputParts ==
  ASSUME NEW i \in Inputs
  PROVE  /\ i.route \in Ops \cup {"healthz", "stats"}
         /\ i.methodOk \in BOOLEAN /\ i.bodyOk \in BOOLEAN
         /\ i.cred \in [user : Users \cup {NoUser}, pass : Passwords]
         /\ i.cred.user # NoUser => i.cred \in Creds
BY AuthzAssumption DEF AllInputs, Creds

\* "none" is not the route of an input that a client sends.
LEMMA NoInputIsNone == NoInput \notin Inputs
BY InputParts DEF NoInput, Ops

-----------------------------------------------------------------------------

\* A request has an input as long as it is not idle; one that asks the helper about
\* credentials has some, and the answer it takes is one to that question.
Asking == \A r \in Requests :
            /\ pc[r] # "idle" => input[r] \in Inputs
            /\ pc[r] \in {"miss", "asked", "verdict"} =>
                 Guarded(r) /\ input[r].cred \in Creds
            /\ pc[r] = "verdict" => answer[r] \in Roles \cup {"denied"}

\* TypeOK with what it takes to be inductive.
TypeInv == TypeOK /\ Asking

\* What a request can do.
Step(r) == Arrive(r) \/ Middleware(r) \/ Handler(r) \/ Conversation(r) \/ Leave(r)

\* Nothing has arrived at first.
LEMMA InitTypeInv == Init => TypeInv
<1> SUFFICES ASSUME Init
             PROVE  TypeInv
  OBVIOUS
<1>1. clock \in Nat /\ socket \in BOOLEAN
  BY DEF Init
<1>2. items \in [Creds -> [role : Roles, expires : Nat] \cup {NoEntry}]
  BY DEF Init
<1>3. heard \in [Creds -> [Roles -> Nat \cup {Never}]]
  BY DEF Init
<1>4. /\ pc \in [Requests -> {"idle", "arrived", "miss", "asked", "verdict",
                              "handler", "op", "result", "done"}]
      /\ input \in [Requests -> Inputs \cup {NoInput}]
      /\ role \in [Requests -> Roles \cup {""}]
      /\ answer \in [Requests -> Roles \cup {"", "denied", "ok", "refused"}]
      /\ status \in [Requests -> {0, 200, 400, 401, 403, 405, 500, 503}]
      /\ applied \in [Requests -> BOOLEAN]
      /\ admitted \in [Requests -> Nat]
  BY DEF Init
<1>5. Asking
  BY DEF Init, Asking
<1> QED
  BY <1>1, <1>2, <1>3, <1>4, <1>5 DEF TypeInv, TypeOK

\* An entry of the cache, if it is live, has a role.
LEMMA LiveRole ==
  ASSUME TypeOK, NEW c \in Creds, Live(items[cacheKey(c)])
  PROVE  items[c].role \in Roles /\ items[c].expires \in Nat /\ clock <= items[c].expires
<1>0. items \in [Creds -> [role : Roles, expires : Nat] \cup {NoEntry}]
  BY Zenon DEF TypeOK
<1>1. items[c] \in [role : Roles, expires : Nat] \cup {NoEntry}
  BY <1>0
<1> QED
  BY <1>1 DEF Live, cacheKey

\* A request takes credentials to the cache and to the helper only if it has some,
\* and so it comes away with a role.
LEMMA StepRoles ==
  ASSUME TypeInv, NEW r \in Requests
  PROVE  /\ CacheGet(r) => input[r].cred \in Creds
         /\ Verdict(r) => input[r].cred \in Creds /\ answer[r] \in Roles \cup {"denied"}
         /\ CacheGet(r) /\ Live(items[cacheKey(input[r].cred)]) =>
              items[cacheKey(input[r].cred)].role \in Roles
<1>1. CacheGet(r) => input[r] \in Inputs
  BY DEF CacheGet, TypeInv, Asking
<1>2. CacheGet(r) => input[r].cred \in Creds
  BY <1>1, InputParts DEF CacheGet
<1>3. Verdict(r) => input[r].cred \in Creds /\ answer[r] \in Roles \cup {"denied"}
  BY DEF Verdict, TypeInv, Asking
<1> QED
  BY <1>2, <1>3, LiveRole DEF TypeInv, cacheKey

\* Every variable of a request is left alone or set to a value of its type.
Sets(f, r, S) == f' = f \/ \E x \in S : f' = [f EXCEPT ![r] = x]

Places == {"idle", "arrived", "miss", "asked", "verdict", "handler", "op", "result", "done"}

StatusCodes == {0, 200, 400, 401, 403, 405, 500, 503}

Forms(r) == /\ Sets(pc, r, Places)
            /\ Sets(input, r, Inputs \cup {NoInput})
            /\ Sets(role, r, Roles \cup {""})
            /\ Sets(answer, r, Roles \cup {"", "denied", "ok", "refused"})
            /\ Sets(status, r, StatusCodes)
            /\ Sets(admitted, r, Nat)

\* The helper says that credentials have a role, and the cache takes it down.
Grants == \/ UNCHANGED <<items, heard>>
          \/ \E c \in Creds, ro \in Roles :
               /\ items' = [items EXCEPT ![c] = [role |-> ro, expires |-> clock + TTL]]
               /\ heard' = [heard EXCEPT ![c][ro] = clock]

\* A request's step sets its own variables, and the cache's only with a grant.
LEMMA StepForms ==
  ASSUME TypeInv, NEW r \in Requests, Step(r)
  PROVE  /\ Forms(r) /\ Grants
         /\ Sets(applied, r, BOOLEAN)
         /\ UNCHANGED <<clock, socket>>
<1> USE DEF Forms, Grants, Sets, Places, Goto, Reply, Admit
<1>0. clock \in Nat
  BY DEF TypeInv, TypeOK
<1>1. CASE Arrive(r)
  BY <1>1 DEF Arrive
<1>2. CASE Bypass(r)
  BY <1>0, <1>2 DEF Bypass
<1>3. CASE NoCredentials(r)
  BY <1>3 DEF NoCredentials, StatusCodes
<1>4. CASE CacheGet(r)
  BY <1>0, <1>4, StepRoles DEF CacheGet
<1>5. CASE Open(r)
  BY <1>5 DEF Open, StatusCodes
<1>6. CASE Gate(r)
  <2>1. Refusal(r) \in StatusCodes
    BY DEF StatusCodes, Refusal
  <2>2. status' = status \/ \E code \in StatusCodes : status' = [status EXCEPT ![r] = code]
    BY <1>6, <2>1, Zenon DEF Gate
  <2> QED
    BY <1>6, <2>2 DEF Gate
<1>7. CASE Dial(r)
  BY <1>7 DEF Dial
<1>8. CASE HelperAuth(r)
  BY <1>8 DEF HelperAuth
<1>9. CASE AuthFails(r)
  <2>1. 503 \in StatusCodes /\ "done" \in Places /\ "" \in Roles \cup {""}
    BY DEF StatusCodes
  <2>2. Sets(status, r, StatusCodes)
    BY <1>9, <2>1, Zenon DEF AuthFails
  <2> QED
    BY <1>9, <2>2 DEF AuthFails
<1>10. CASE Verdict(r)
  <2>1. input[r].cred \in Creds /\ answer[r] \in Roles \cup {"denied"}
    BY <1>10, StepRoles
  <2>2. CASE answer[r] = "denied"
    <3>1. 401 \in StatusCodes
      BY DEF StatusCodes
    <3>2. Sets(status, r, StatusCodes) /\ UNCHANGED <<items, role, admitted, heard>>
      BY <1>10, <2>2, <3>1, Zenon DEF Verdict
    <3> QED
      BY <1>10, <2>2, <3>2 DEF Verdict
  <2>3. CASE answer[r] # "denied"
    <3>1. answer[r] \in Roles
      BY <2>1, <2>3
    <3>2. Grants
      BY <1>10, <2>1, <2>3, <3>1, Zenon DEF Verdict, CacheSet, cacheKey
    <3>3. Sets(role, r, Roles \cup {""}) /\ Sets(admitted, r, Nat) /\ status' = status
      BY <1>0, <1>10, <2>3, <3>1 DEF Verdict
    <3> QED
      BY <1>10, <2>3, <3>2, <3>3 DEF Verdict
  <2> QED
    BY <2>2, <2>3
<1>11. CASE HelperOp(r)
  BY <1>11 DEF HelperOp
<1>12. CASE OpFails(r)
  <2>1. Failure(r, FALSE) \in StatusCodes
    BY DEF StatusCodes, Failure
  <2>2. \E code \in StatusCodes : status' = [status EXCEPT ![r] = code]
    BY <1>12, <2>1, Zenon DEF OpFails
  <2> QED
    BY <1>12, <2>2 DEF OpFails
<1>13. CASE Result(r)
  <2>1. Failure(r, TRUE) \in StatusCodes /\ 200 \in StatusCodes
    BY DEF StatusCodes, Failure
  <2>2. \E code \in StatusCodes : status' = [status EXCEPT ![r] = code]
    BY <1>13, <2>1, Zenon DEF Result
  <2> QED
    BY <1>13, <2>2 DEF Result
<1>14. CASE Leave(r)
  <2>1. 0 \in StatusCodes
    BY DEF StatusCodes
  <2>2. Sets(status, r, StatusCodes) /\ Sets(applied, r, BOOLEAN)
    BY <1>14, <2>1, Zenon DEF Leave
  <2> QED
    BY <1>14, <2>2 DEF Leave
<1> QED
  BY <1>1, <1>2, <1>3, <1>4, <1>5, <1>6, <1>7, <1>8, <1>9, <1>10, <1>11, <1>12, <1>13, <1>14
     DEF Step, Middleware, Handler, Conversation

\* Setting a variable of r to a value of its type leaves it typed, and leaves it as it
\* is for the others.
LEMMA SetsTyped ==
  ASSUME NEW f, NEW g, NEW S, NEW r \in Requests, f \in [Requests -> S],
         g = f \/ \E x \in S : g = [f EXCEPT ![r] = x]
  PROVE  /\ g \in [Requests -> S]
         /\ \A q \in Requests \ {r} : g[q] = f[q]
OBVIOUS

\* The types of what belongs to a request.
LEMMA RequestTypes ==
  ASSUME TypeInv
  PROVE  /\ pc \in [Requests -> Places]
         /\ input \in [Requests -> Inputs \cup {NoInput}]
         /\ role \in [Requests -> Roles \cup {""}]
         /\ answer \in [Requests -> Roles \cup {"", "denied", "ok", "refused"}]
         /\ status \in [Requests -> StatusCodes]
         /\ admitted \in [Requests -> Nat]
         /\ applied \in [Requests -> BOOLEAN]
BY Zenon DEF TypeInv, TypeOK, Places, StatusCodes

\* A request's step keeps the types of what belongs to requests, and leaves the
\* other requests where they are.
LEMMA StepRequests ==
  ASSUME TypeInv, NEW r \in Requests, Step(r)
  PROVE  /\ pc' \in [Requests -> Places]
         /\ input' \in [Requests -> Inputs \cup {NoInput}]
         /\ role' \in [Requests -> Roles \cup {""}]
         /\ answer' \in [Requests -> Roles \cup {"", "denied", "ok", "refused"}]
         /\ status' \in [Requests -> StatusCodes]
         /\ admitted' \in [Requests -> Nat]
         /\ applied' \in [Requests -> BOOLEAN]
         /\ \A q \in Requests \ {r} :
              /\ pc'[q] = pc[q] /\ input'[q] = input[q] /\ role'[q] = role[q]
              /\ answer'[q] = answer[q] /\ status'[q] = status[q]
              /\ admitted'[q] = admitted[q] /\ applied'[q] = applied[q]
<1>0. Forms(r) /\ Sets(applied, r, BOOLEAN)
  BY StepForms
<1>1. pc' \in [Requests -> Places] /\ \A q \in Requests \ {r} : pc'[q] = pc[q]
  BY <1>0, RequestTypes, SetsTyped, Zenon DEF Forms, Sets
<1>2. /\ input' \in [Requests -> Inputs \cup {NoInput}]
      /\ \A q \in Requests \ {r} : input'[q] = input[q]
  BY <1>0, RequestTypes, SetsTyped, Zenon DEF Forms, Sets
<1>3. role' \in [Requests -> Roles \cup {""}] /\ \A q \in Requests \ {r} : role'[q] = role[q]
  BY <1>0, RequestTypes, SetsTyped, Zenon DEF Forms, Sets
<1>4. /\ answer' \in [Requests -> Roles \cup {"", "denied", "ok", "refused"}]
      /\ \A q \in Requests \ {r} : answer'[q] = answer[q]
  BY <1>0, RequestTypes, SetsTyped, Zenon DEF Forms, Sets
<1>5. status' \in [Requests -> StatusCodes] /\ \A q \in Requests \ {r} : status'[q] = status[q]
  BY <1>0, RequestTypes, SetsTyped, Zenon DEF Forms, Sets
<1>6. admitted' \in [Requests -> Nat] /\ \A q \in Requests \ {r} : admitted'[q] = admitted[q]
  BY <1>0, RequestTypes, SetsTyped, Zenon DEF Forms, Sets
<1>7. applied' \in [Requests -> BOOLEAN] /\ \A q \in Requests \ {r} : applied'[q] = applied[q]
  BY <1>0, RequestTypes, SetsTyped, Zenon DEF Sets
<1> QED
  BY <1>1, <1>2, <1>3, <1>4, <1>5, <1>6, <1>7, Zenon

\* A request's step keeps the types.
LEMMA StepTypeOK ==
  ASSUME TypeInv, NEW r \in Requests, Step(r)
  PROVE  TypeOK'
<1>0. Grants /\ UNCHANGED <<clock, socket>>
  BY StepForms
<1>1. clock \in Nat /\ clock' \in Nat
  BY <1>0 DEF TypeInv, TypeOK
<1>2. socket' \in BOOLEAN
  BY <1>0, Zenon DEF TypeInv, TypeOK
<1>3. items' \in [Creds -> [role : Roles, expires : Nat] \cup {NoEntry}]
  <2>1. items \in [Creds -> [role : Roles, expires : Nat] \cup {NoEntry}]
    BY Zenon DEF TypeInv, TypeOK
  <2>2. clock + TTL \in Nat
    BY AuthzAssumption, <1>1
  <2> QED
    BY <1>0, <2>1, <2>2 DEF Grants
<1>4. heard' \in [Creds -> [Roles -> Nat \cup {Never}]]
  <2>1. heard \in [Creds -> [Roles -> Nat \cup {Never}]]
    BY DEF TypeInv, TypeOK
  <2> QED
    BY <1>0, <1>1, <2>1 DEF Grants
<1>5. /\ pc' \in [Requests -> Places]
      /\ input' \in [Requests -> Inputs \cup {NoInput}]
      /\ role' \in [Requests -> Roles \cup {""}]
      /\ answer' \in [Requests -> Roles \cup {"", "denied", "ok", "refused"}]
      /\ status' \in [Requests -> StatusCodes]
      /\ applied' \in [Requests -> BOOLEAN]
      /\ admitted' \in [Requests -> Nat]
  BY StepRequests, Zenon
<1> QED
  BY <1>1, <1>2, <1>3, <1>4, <1>5, Zenon DEF TypeOK, Places, StatusCodes

\* A request's step keeps Asking: it has what it needs before it asks.
LEMMA StepAsking ==
  ASSUME TypeInv, NEW r \in Requests, Step(r)
  PROVE  Asking'
<1> DEFINE Asks(q) == /\ pc[q] # "idle" => input[q] \in Inputs
                      /\ pc[q] \in {"miss", "asked", "verdict"} =>
                           Guarded(q) /\ input[q].cred \in Creds
                      /\ pc[q] = "verdict" => answer[q] \in Roles \cup {"denied"}
<1>1. UNCHANGED socket
  BY StepForms
<1>2. ASSUME NEW q \in Requests, q # r
      PROVE  Asks(q)'
  <2>1. pc'[q] = pc[q] /\ input'[q] = input[q] /\ answer'[q] = answer[q]
    BY <1>2, StepRequests
  <2> QED
    BY <1>1, <2>1 DEF TypeInv, Asking, Guarded
<1>3. Asks(r)'
  <2>1. pc \in [Requests -> Places] /\ input \in [Requests -> Inputs \cup {NoInput}]
        /\ answer \in [Requests -> Roles \cup {"", "denied", "ok", "refused"}] /\ Asks(r)
    BY RequestTypes DEF TypeInv, Asking
  <2> USE <1>1, <2>1 DEF Goto, Guarded
  <2>2. CASE Arrive(r)
    BY <2>2 DEF Arrive
  <2>3. CASE Bypass(r) \/ NoCredentials(r)
    BY <2>3 DEF Bypass, NoCredentials, Admit, Reply
  <2>4. CASE CacheGet(r)
    <3>1. pc'[r] \in {"handler", "miss"} /\ input' = input /\ Guarded(r) /\ pc[r] = "arrived"
      BY <2>4 DEF CacheGet, Admit
    <3>2. input[r].cred \in Creds
      BY <2>4, StepRoles
    <3> QED
      BY <3>1, <3>2
  <2>5. CASE Open(r) \/ Gate(r)
    BY <2>5 DEF Open, Gate, Reply
  <2>6. CASE Dial(r) \/ HelperAuth(r)
    BY <2>6 DEF Dial, HelperAuth
  <2>7. CASE AuthFails(r) \/ Verdict(r)
    <3>1. pc'[r] \in {"done", "handler"} /\ input' = input
      BY <2>7 DEF AuthFails, Verdict, Admit, Reply
    <3>2. pc[r] # "idle"
      BY <2>7 DEF AuthFails, Verdict
    <3> QED
      BY <3>1, <3>2
  <2>8. CASE HelperOp(r)
    BY <2>8 DEF HelperOp
  <2>9. CASE OpFails(r) \/ Result(r)
    BY <2>9 DEF OpFails, Result, Reply
  <2>10. CASE Leave(r)
    BY <2>10 DEF Leave
  <2> QED
    BY <2>2, <2>3, <2>4, <2>5, <2>6, <2>7, <2>8, <2>9, <2>10
       DEF Step, Middleware, Handler, Conversation
<1> QED
  BY <1>2, <1>3 DEF Asking

\* Every step keeps the types.
LEMMA NextTypeInv == TypeInv /\ [Next]_vars => TypeInv'
<1> SUFFICES ASSUME TypeInv, [Next]_vars
             PROVE  TypeInv'
  OBVIOUS
<1>1. ASSUME NEW r \in Requests, Step(r)
      PROVE  TypeInv'
  BY <1>1, StepTypeOK, StepAsking DEF TypeInv
<1>2. CASE Tick
  <2>1. clock \in Nat
    BY Zenon DEF TypeInv, TypeOK
  <2>2. clock' \in Nat
    BY <1>2, <2>1 DEF Tick
  <2>3. /\ socket' = socket /\ items' = items /\ pc' = pc /\ input' = input /\ role' = role
        /\ answer' = answer /\ status' = status /\ applied' = applied
        /\ admitted' = admitted /\ heard' = heard
    BY <1>2 DEF Tick
  <2>4. TypeOK'
    BY <2>2, <2>3, Zenon DEF TypeInv, TypeOK
  <2>5. Asking'
    BY <2>3, Zenon DEF TypeInv, Asking, Guarded
  <2> QED
    BY <2>4, <2>5 DEF TypeInv
<1>3. CASE UNCHANGED vars
  BY <1>3, Zenon DEF vars, TypeInv, TypeOK, Asking, Guarded
<1> QED
  BY <1>1, <1>2, <1>3 DEF Next, Step

\* The type invariant of the authorisation path.
THEOREM TypeCorrect == Spec => []TypeOK
<1>1. TypeInv => TypeOK
  BY DEF TypeInv
<1> QED
  BY <1>1, InitTypeInv, NextTypeInv, PTL DEF Spec

-----------------------------------------------------------------------------

\* Nothing has been heard from the helper in the future.
HeardPast == \A c \in Creds, o \in Roles : heard[c][o] <= clock

\* An entry of the cache is what was heard of these credentials, and does not
\* outlive the hearing by more than TTL.
Cached == \A c \in Creds : items[c] # NoEntry =>
            /\ heard[c][items[c].role] # Never
            /\ items[c].expires <= heard[c][items[c].role] + TTL

\* An operation that has begun is an admin's, and there is a socket for it.
Operating == \A r \in Requests : pc[r] \in {"op", "result"} =>
               socket /\ role[r] = "admin" /\ input[r].route \in Ops

\* ServedVouched and OpsByAdmins with what it takes to be inductive: a role comes
\* from the helper, or from the cache, which must say what the helper said.
VouchInv == TypeInv /\ HeardPast /\ Cached /\ ServedVouched /\ Operating

\* The types of the cache and of what has been heard.
LEMMA CacheTypes ==
  ASSUME TypeInv
  PROVE  /\ items \in [Creds -> [role : Roles, expires : Nat] \cup {NoEntry}]
         /\ heard \in [Creds -> [Roles -> Nat \cup {Never}]]
         /\ clock \in Nat
BY Zenon DEF TypeInv, TypeOK

\* What has been heard is not forgotten, and if it is heard once more it holds for
\* longer.
LEMMA StepHeard ==
  ASSUME TypeInv, HeardPast, NEW r \in Requests, Step(r)
  PROVE  \A c \in Creds, o \in Roles :
           /\ heard'[c][o] \in Nat \cup {Never}
           /\ heard'[c][o] <= clock
           /\ heard[c][o] <= heard'[c][o]
           /\ heard[c][o] # Never => heard'[c][o] # Never
<1>1. Grants
  BY StepForms
<1>2. CASE UNCHANGED heard
  BY <1>2, CacheTypes DEF HeardPast, Never
<1>3. ASSUME NEW c \in Creds, NEW ro \in Roles, heard' = [heard EXCEPT ![c][ro] = clock]
      PROVE  \A d \in Creds, o \in Roles :
               /\ heard'[d][o] \in Nat \cup {Never}
               /\ heard'[d][o] <= clock
               /\ heard[d][o] <= heard'[d][o]
               /\ heard[d][o] # Never => heard'[d][o] # Never
  BY <1>3, CacheTypes DEF HeardPast, Never
<1> QED
  BY <1>1, <1>2, <1>3 DEF Grants

\* A grant is written to the cache with the time at which it is heard.
LEMMA StepCached ==
  ASSUME TypeInv, HeardPast, Cached, NEW r \in Requests, Step(r)
  PROVE  Cached'
<1>1. Grants
  BY StepForms
<1>2. CASE UNCHANGED <<items, heard>>
  BY <1>2 DEF Cached
<1>3. ASSUME NEW c \in Creds, NEW ro \in Roles,
             items' = [items EXCEPT ![c] = [role |-> ro, expires |-> clock + TTL]],
             heard' = [heard EXCEPT ![c][ro] = clock]
      PROVE  Cached'
  <2>1. /\ items'[c] = [role |-> ro, expires |-> clock + TTL]
        /\ heard'[c][ro] = clock /\ clock \in Nat
    BY <1>3, CacheTypes
  <2>2. ASSUME NEW d \in Creds, d # c
        PROVE  items'[d] = items[d] /\ heard'[d] = heard[d]
    BY <1>3, <2>2, CacheTypes
  <2> SUFFICES ASSUME NEW d \in Creds, items'[d] # NoEntry
               PROVE  /\ heard'[d][items'[d].role] # Never
                      /\ items'[d].expires <= heard'[d][items'[d].role] + TTL
    BY DEF Cached
  <2>3. CASE d = c
    BY <2>1, <2>3, AuthzAssumption DEF Never
  <2>4. CASE d # c
    BY <2>2, <2>4 DEF Cached
  <2> QED
    BY <2>3, <2>4
<1> QED
  BY <1>1, <1>2, <1>3 DEF Grants

\* A request is admitted with a role that the helper has given within TTL.
LEMMA AdmittedVouched ==
  ASSUME VouchInv, NEW r \in Requests, CacheGet(r) \/ Verdict(r), pc'[r] = "handler"
  PROVE  role'[r] \in Roles /\ Vouched(r, role[r])'
<1> DEFINE c == input[r].cred
<1>1. /\ role \in [Requests -> Roles \cup {""}] /\ admitted \in [Requests -> Nat]
      /\ pc \in [Requests -> Places]
  BY RequestTypes DEF VouchInv
<1>2. c \in Creds /\ input' = input
  BY StepRoles DEF VouchInv, CacheGet, Verdict
<1>3. items \in [Creds -> [role : Roles, expires : Nat] \cup {NoEntry}]
      /\ heard \in [Creds -> [Roles -> Nat \cup {Never}]] /\ clock \in Nat
  BY CacheTypes DEF VouchInv
<1>4. CASE CacheGet(r)
  <2>1. Live(items[c]) /\ Admit(r, items[c].role) /\ heard' = heard
    BY <1>1, <1>4 DEF CacheGet, cacheKey, Goto
  <2>2. items[c].role \in Roles /\ items[c].expires \in Nat
    BY <1>2, <1>3, <2>1 DEF Live
  <2>3. role'[r] = items[c].role /\ admitted'[r] = clock
    BY <1>1, <2>1 DEF Admit
  <2>4. heard[c][items[c].role] # Never /\ clock <= heard[c][items[c].role] + TTL
    <3>1. clock <= items[c].expires /\ items[c] # NoEntry
      BY <2>1 DEF Live
    <3>2. heard[c][items[c].role] # Never /\ items[c].expires <= heard[c][items[c].role] + TTL
      BY <1>2, <3>1 DEF VouchInv, Cached
    <3>3. heard[c][items[c].role] \in Nat
      BY <1>2, <1>3, <2>2, <3>2
    <3> QED
      BY <1>3, <2>2, <3>1, <3>2, <3>3, AuthzAssumption
  <2> QED
    BY <1>2, <2>1, <2>2, <2>3, <2>4 DEF Vouched
<1>5. CASE Verdict(r)
  <2>1. answer[r] \in Roles /\ Admit(r, answer[r])
        /\ heard' = [heard EXCEPT ![c][answer[r]] = clock]
    BY <1>1, <1>5, StepRoles DEF VouchInv, Verdict, Reply, Goto
  <2>2. role'[r] = answer[r] /\ admitted'[r] = clock /\ heard'[c][answer[r]] = clock
    BY <1>1, <1>2, <1>3, <2>1 DEF Admit
  <2>3. clock # Never /\ clock <= clock + TTL
    BY <1>3, AuthzAssumption DEF Never
  <2> QED
    BY <1>2, <2>1, <2>2, <2>3 DEF Vouched
<1> QED
  BY <1>4, <1>5

\* What vouches for a request goes on doing so while others come and go.
LEMMA StaysVouched ==
  ASSUME TypeInv, HeardPast, NEW r \in Requests, Step(r),
         NEW q \in Requests, NEW ro \in Roles, Vouched(q, ro),
         input'[q] = input[q], admitted'[q] = admitted[q]
  PROVE  Vouched(q, ro)'
<1>1. PICK c \in Creds : /\ c = input[q].cred
                         /\ heard[c][ro] # Never
                         /\ admitted[q] <= heard[c][ro] + TTL
  BY DEF Vouched
<1>2. heard'[c][ro] # Never /\ heard[c][ro] <= heard'[c][ro]
  BY <1>1, StepHeard
<1>3. heard[c][ro] \in Int /\ heard'[c][ro] \in Int /\ admitted[q] \in Nat
  <2>1. heard \in [Creds -> [Roles -> Nat \cup {Never}]]
    BY CacheTypes
  <2>2. heard[c] \in [Roles -> Nat \cup {Never}]
    BY <2>1
  <2>3. heard[c][ro] \in Nat \cup {Never}
    BY <2>2
  <2>4. heard'[c][ro] \in Nat \cup {Never}
    BY StepHeard
  <2>5. admitted[q] \in Nat
    BY RequestTypes
  <2> QED
    BY <2>3, <2>4, <2>5 DEF Never
<1>4. admitted'[q] <= heard'[c][ro] + TTL
  BY <1>1, <1>2, <1>3, AuthzAssumption
<1> QED
  BY <1>1, <1>2, <1>4 DEF Vouched

\* A request's own step keeps it vouched for: it is admitted with a role of its own,
\* or past the guard, or goes on with the role it was admitted with.
LEMMA StepServed ==
  ASSUME VouchInv, NEW r \in Requests, Step(r)
  PROVE  ServedVouched'
<1>1. TypeInv /\ HeardPast /\ ServedVouched /\ UNCHANGED socket
  BY StepForms DEF VouchInv
<1> SUFFICES ASSUME NEW q \in Requests, pc'[q] \in {"handler", "op", "result"}, Guarded(q)'
             PROVE  role'[q] \in Roles /\ Vouched(q, role[q])'
  BY DEF ServedVouched
<1>2. CASE /\ pc[q] \in {"handler", "op", "result"} /\ input'[q] = input[q]
           /\ role'[q] = role[q] /\ admitted'[q] = admitted[q]
  <2>1. role[q] \in Roles /\ Vouched(q, role[q])
    BY <1>1, <1>2 DEF ServedVouched, Guarded
  <2>2. ASSUME NEW ro \in Roles, Vouched(q, ro)
        PROVE  Vouched(q, ro)'
    BY <1>1, <1>2, <2>2, StaysVouched
  <2>3. Vouched(q, role[q])'
    BY <1>2, <2>1, <2>2 DEF Vouched
  <2> QED
    BY <1>2, <2>1, <2>3
<1>3. CASE q # r
  BY <1>1, <1>2, <1>3, StepRequests
<1>4. CASE q = r
  <2>0. pc \in [Requests -> Places]
    BY <1>1, RequestTypes
  <2> USE <1>4, <2>0 DEF Goto
  <2>1. CASE Arrive(r) \/ NoCredentials(r) \/ Open(r) \/ Dial(r) \/ HelperAuth(r)
             \/ AuthFails(r) \/ OpFails(r) \/ Result(r) \/ Leave(r)
    BY <2>1 DEF Arrive, NoCredentials, Open, Dial, HelperAuth, AuthFails, OpFails, Result,
                Leave, Reply
  <2>2. CASE Bypass(r)
    <3>1. (~socket \/ input[r].route = "healthz") /\ input' = input
      BY <2>2 DEF Bypass
    <3>2. ~Guarded(r)'
      BY <1>1, <3>1 DEF Guarded
    <3> QED
      BY <3>2
  <2>3. CASE CacheGet(r)
    <3>1. pc'[r] = "handler" \/ pc'[r] = "miss"
      BY <2>3 DEF CacheGet, Admit
    <3> QED
      BY <2>3, <3>1, AdmittedVouched
  <2>4. CASE Verdict(r)
    <3>1. pc'[r] = "handler" \/ pc'[r] = "done"
      BY <2>4 DEF Verdict, Admit, Reply
    <3> QED
      BY <2>4, <3>1, AdmittedVouched
  <2>5. CASE Gate(r) \/ HelperOp(r)
    BY <1>2, <2>5 DEF Gate, HelperOp
  <2> QED
    BY <2>1, <2>2, <2>3, <2>4, <2>5 DEF Step, Middleware, Handler, Conversation
<1> QED
  BY <1>3, <1>4

\* A request begins an operation only through Gate, which lets admins through.
LEMMA StepOperating ==
  ASSUME VouchInv, NEW r \in Requests, Step(r)
  PROVE  Operating'
<1>1. TypeInv /\ Operating /\ UNCHANGED socket /\ pc \in [Requests -> Places]
  BY StepForms, RequestTypes DEF VouchInv
<1> SUFFICES ASSUME NEW q \in Requests, pc'[q] \in {"op", "result"}
             PROVE  socket /\ role'[q] = "admin" /\ input'[q].route \in Ops
  BY <1>1 DEF Operating
<1>2. CASE q # r
  BY <1>1, <1>2, StepRequests DEF Operating
<1>3. CASE q = r
  <2>1. CASE Gate(r)
    <3>1. Refusal(r) = 0 /\ input[r].route \in Ops /\ role' = role /\ input' = input
      BY <1>1, <1>3, <2>1 DEF Gate, Reply, Goto
    <3>2. socket /\ role[r] = "admin"
      BY <3>1 DEF Refusal
    <3> QED
      BY <1>3, <3>1, <3>2
  <2>2. CASE HelperOp(r)
    BY <1>1, <1>3, <2>2 DEF HelperOp, Operating
  <2>3. CASE ~Gate(r) /\ ~HelperOp(r)
    BY <1>1, <1>3, <2>3
       DEF Step, Middleware, Handler, Conversation, Arrive, Bypass, NoCredentials, CacheGet,
           Open, Dial, HelperAuth, AuthFails, Verdict, OpFails, Result, Leave, Reply, Admit, Goto
  <2> QED
    BY <2>1, <2>2, <2>3
<1> QED
  BY <1>2, <1>3

\* Every step keeps the inductive invariant.
LEMMA NextVouchInv == VouchInv /\ [Next]_vars => VouchInv'
<1> SUFFICES ASSUME VouchInv, [Next]_vars
             PROVE  VouchInv'
  OBVIOUS
<1>0. TypeInv'
  BY NextTypeInv DEF VouchInv
<1>1. ASSUME NEW r \in Requests, Step(r)
      PROVE  VouchInv'
  <2>1. HeardPast'
    BY <1>1, StepHeard, StepForms DEF VouchInv, HeardPast
  <2> QED
    BY <1>0, <1>1, <2>1, StepCached, StepServed, StepOperating DEF VouchInv
<1>2. CASE Tick
  <2>1. UNCHANGED <<socket, items, pc, input, role, admitted, heard>> /\ clock' = clock + 1
    BY <1>2 DEF Tick
  <2>2. HeardPast'
    BY <2>1, CacheTypes DEF VouchInv, HeardPast, Never
  <2>3. Cached' /\ ServedVouched' /\ Operating'
    BY <2>1 DEF VouchInv, Cached, ServedVouched, Vouched, Guarded, Operating
  <2> QED
    BY <1>0, <2>2, <2>3 DEF VouchInv
<1>3. CASE UNCHANGED vars
  <2>1. HeardPast' /\ Cached' /\ ServedVouched' /\ Operating'
    BY <1>3 DEF vars, VouchInv, HeardPast, Cached, ServedVouched, Vouched, Guarded, Operating
  <2> QED
    BY <1>0, <2>1 DEF VouchInv
<1> QED
  BY <1>1, <1>2, <1>3 DEF Next, Step

\* The helper has said nothing and the cache holds nothing at first.
LEMMA InitVouchInv == Init => VouchInv
<1> SUFFICES ASSUME Init
             PROVE  VouchInv
  OBVIOUS
<1>1. HeardPast
  <2>1. ASSUME NEW c \in Creds, NEW o \in Roles
        PROVE  heard[c][o] = Never /\ clock = 0
    BY DEF Init
  <2> QED
    BY <2>1 DEF HeardPast, Never
<1>2. Cached
  BY DEF Init, Cached
<1>3. ServedVouched /\ Operating
  BY DEF Init, ServedVouched, Operating
<1> QED
  BY <1>1, <1>2, <1>3, InitTypeInv DEF VouchInv

\* With a socket a request is served, /healthz apart, only with a role that the
\* helper gave its credentials and that was decoded within TTL before
\* (middleware.go:15), with any number of requests that race for the cache.
THEOREM Served == Spec => []ServedVouched
<1>1. VouchInv => ServedVouched
  BY DEF VouchInv
<1> QED
  BY <1>1, InitVouchInv, NextVouchInv, PTL DEF Spec

\* The helper is asked for operations only on behalf of its admins (client.go:74).
THEOREM Operated == Spec => []OpsByAdmins
<1>1. VouchInv => OpsByAdmins
  <2> SUFFICES ASSUME VouchInv, NEW r \in Requests, pc[r] \in {"op", "result"}
               PROVE  socket /\ Vouched(r, "admin")
    BY DEF OpsByAdmins
  <2>1. socket /\ role[r] = "admin" /\ input[r].route \in Ops
    BY DEF VouchInv, Operating
  <2>2. Guarded(r)
    BY <2>1 DEF Guarded, Ops
  <2> QED
    BY <2>1, <2>2 DEF VouchInv, ServedVouched
<1> QED
  BY <1>1, InitVouchInv, NextVouchInv, PTL DEF Spec

-----------------------------------------------------------------------------

\* Up to the helper's answer an operation is not done; then the answer says whether
\* it is; and from then on the status says what StatusTellsTruth has it say.
Telling(r) == /\ pc[r] \notin {"result", "done"} => ~applied[r]
              /\ pc[r] = "result" => /\ answer[r] \in {"ok", "refused"}
                                     /\ answer[r] = "ok" <=> applied[r]
              /\ pc[r] = "done" /\ input[r].route \in Ops =>
                   /\ status[r] = 200 => applied[r]
                   /\ status[r] \in {401, 403, 405, 500} => ~applied[r]

\* StatusTellsTruth with what it takes to be inductive.
TruthInv == TypeInv /\ \A r \in Requests : Telling(r)

\* A request's step leaves the others' answers telling.
LEMMA OthersTelling ==
  ASSUME TruthInv, NEW r \in Requests, Step(r), NEW q \in Requests, q # r
  PROVE  Telling(q)'
<1>1. /\ pc'[q] = pc[q] /\ input'[q] = input[q] /\ answer'[q] = answer[q]
      /\ status'[q] = status[q] /\ applied'[q] = applied[q]
  BY StepRequests DEF TruthInv
<1>2. Telling(q)
  BY DEF TruthInv
<1> QED
  BY <1>1, <1>2 DEF Telling

\* A request's own answer is telling: one step for each action.
LEMMA OwnTelling ==
  ASSUME TruthInv, NEW r \in Requests, Step(r)
  PROVE  Telling(r)'
<1>1. /\ pc \in [Requests -> Places]
      /\ status \in [Requests -> StatusCodes]
      /\ answer \in [Requests -> Roles \cup {"", "denied", "ok", "refused"}]
      /\ input \in [Requests -> Inputs \cup {NoInput}]
      /\ applied \in [Requests -> BOOLEAN]
  BY RequestTypes DEF TruthInv
<1>2. Telling(r)
  BY DEF TruthInv
<1>0. /\ status \in [Requests -> StatusCodes]
      /\ \A code : status' = [status EXCEPT ![r] = code] => status'[r] = code
  <2>1. status \in [Requests -> StatusCodes]
    BY <1>1
  <2> QED
    BY <2>1
<1>3. CASE Arrive(r) \/ Bypass(r) \/ CacheGet(r) \/ Dial(r) \/ HelperAuth(r)
  <2>1. /\ pc'[r] \notin {"result", "done"} /\ applied' = applied
        /\ pc[r] \notin {"result", "done"}
    BY <1>1, <1>3 DEF Arrive, Bypass, CacheGet, Dial, HelperAuth, Admit, Goto
  <2> QED
    BY <1>2, <2>1 DEF Telling
<1>4. CASE NoCredentials(r) \/ AuthFails(r)
  <2>1. pc'[r] = "done" /\ applied' = applied /\ pc[r] \notin {"result", "done"}
    BY <1>1, <1>4 DEF NoCredentials, AuthFails, Reply, Goto
  <2>2. \/ status' = [status EXCEPT ![r] = 401]
        \/ status' = [status EXCEPT ![r] = 503]
    <3>1. NoCredentials(r) => status' = [status EXCEPT ![r] = 401]
      BY DEF NoCredentials, Reply
    <3>2. AuthFails(r) => status' = [status EXCEPT ![r] = 503]
      BY DEF AuthFails, Reply
    <3> QED
      BY <1>4, <3>1, <3>2
  <2>3. status'[r] # 200
    BY <1>0, <2>2
  <2> QED
    BY <1>2, <2>1, <2>3 DEF Telling
<1>5. CASE Verdict(r)
  <2>1. /\ pc'[r] = "handler" \/ (pc'[r] = "done" /\ status'[r] = 401)
        /\ applied' = applied /\ pc[r] = "verdict"
    <3>1. applied' = applied /\ pc[r] = "verdict"
      BY <1>5 DEF Verdict
    <3>2. \/ pc' = [pc EXCEPT ![r] = "handler"]
          \/ /\ pc' = [pc EXCEPT ![r] = "done"]
             /\ status' = [status EXCEPT ![r] = 401]
      BY <1>5, Zenon DEF Verdict, Admit, Reply, Goto
    <3>3. pc \in [Requests -> Places]
      BY <1>1
    <3> QED
      BY <1>0, <3>1, <3>2, <3>3
  <2> QED
    BY <1>2, <2>1 DEF Telling
<1>6. CASE Open(r)
  <2>1. pc'[r] = "done" /\ applied' = applied /\ pc[r] = "handler" /\ input'[r].route \notin Ops
    BY <1>1, <1>6 DEF Open, Reply, Goto
  <2> QED
    BY <1>2, <2>1 DEF Telling
<1>7. CASE Gate(r)
  <2>1. applied' = applied /\ pc[r] = "handler"
    BY <1>7 DEF Gate
  <2>2. pc'[r] = "op" \/ (pc'[r] = "done" /\ status'[r] = Refusal(r))
    BY <1>1, <1>7 DEF Gate, Reply, Goto
  <2>3. Refusal(r) # 200
    BY DEF Refusal
  <2>4. ~applied'[r]
    BY <1>2, <2>1 DEF Telling
  <2> QED
    BY <2>2, <2>3, <2>4 DEF Telling
<1>8. CASE HelperOp(r)
  <2>1. pc'[r] = "result"
    BY <1>1, <1>8 DEF HelperOp, Goto
  <2>2. PICK ok \in BOOLEAN : /\ applied' = [applied EXCEPT ![r] = ok]
                              /\ answer' = [answer EXCEPT ![r] = IF ok THEN "ok" ELSE "refused"]
    BY <1>8 DEF HelperOp
  <2>3. CASE ok
    BY <1>1, <2>1, <2>2, <2>3 DEF Telling
  <2>4. CASE ~ok
    BY <1>1, <2>1, <2>2, <2>4 DEF Telling
  <2> QED
    BY <2>3, <2>4
<1>9. CASE OpFails(r)
  <2>1. pc'[r] = "done"
    BY <1>1, <1>9 DEF OpFails, Reply, Goto
  <2>2. status'[r] \notin {200, 401, 403, 405, 500}
    <3> DEFINE code == Failure(r, FALSE)
    <3>1. code \in {400, 503}
      BY DEF Failure
    <3>2. status' = [status EXCEPT ![r] = code]
      BY <1>9, Zenon DEF OpFails, Reply
    <3> HIDE DEF code
    <3>3. status'[r] = code
      BY <1>0, <3>2
    <3> QED
      BY <3>1, <3>3
  <2> QED
    BY <2>1, <2>2 DEF Telling
<1>10. CASE Result(r)
  <2>1. pc'[r] = "done" /\ applied' = applied /\ pc[r] = "result"
    BY <1>1, <1>10 DEF Result, Reply, Goto
  <2>2. answer[r] \in {"ok", "refused"} /\ (answer[r] = "ok" <=> applied[r])
    BY <1>2, <2>1 DEF Telling
  <2>3. CASE answer[r] = "ok"
    <3>1. status' = [status EXCEPT ![r] = 200]
      BY <1>10, <2>3 DEF Result, Reply
    <3>2. status'[r] = 200
      BY <1>0, <3>1
    <3> QED
      BY <2>1, <2>2, <2>3, <3>2 DEF Telling
  <2>4. CASE answer[r] # "ok"
    <3> DEFINE code == Failure(r, TRUE)
    <3>1. code # 200
      BY DEF Failure
    <3>2. status' = [status EXCEPT ![r] = code]
      BY <1>10, <2>4, Zenon DEF Result, Reply
    <3> HIDE DEF code
    <3>3. status'[r] # 200
      BY <1>0, <3>1, <3>2
    <3> QED
      BY <2>1, <2>2, <2>4, <3>3 DEF Telling
  <2> QED
    BY <2>3, <2>4
<1>11. CASE Leave(r)
  <2>1. pc'[r] = "idle" /\ ~applied'[r]
    BY <1>1, <1>11 DEF Leave, Goto
  <2> QED
    BY <2>1 DEF Telling
<1> QED
  BY <1>3, <1>4, <1>5, <1>6, <1>7, <1>8, <1>9, <1>10, <1>11
     DEF Step, Middleware, Handler, Conversation

\* An answer to an operation tells the truth about it, whether the middleware, a
\* check, the helper or a broken connection decided it (handlers.go:133).
THEOREM Truthful == Spec => []StatusTellsTruth
<1>1. Init => TruthInv
  <2> SUFFICES ASSUME Init, NEW r \in Requests
               PROVE  Telling(r)
    BY InitTypeInv DEF TruthInv
  <2>1. pc[r] = "idle" /\ ~applied[r]
    BY DEF Init
  <2> QED
    BY <2>1 DEF Telling
<1>2. TruthInv /\ [Next]_vars => TruthInv'
  <2> SUFFICES ASSUME TruthInv, [Next]_vars
               PROVE  TruthInv'
    OBVIOUS
  <2>1. TypeInv'
    BY NextTypeInv DEF TruthInv
  <2>2. ASSUME NEW r \in Requests, Step(r), NEW q \in Requests
        PROVE  Telling(q)'
    BY <2>2, OthersTelling, OwnTelling
  <2>3. CASE Tick \/ UNCHANGED vars
    <3>1. UNCHANGED <<pc, input, answer, status, applied>>
      BY <2>3 DEF Tick, vars
    <3> QED
      BY <2>1, <3>1 DEF TruthInv, Telling
  <2>4. CASE \E r \in Requests : Step(r)
    BY <2>1, <2>2, <2>4 DEF TruthInv
  <2> QED
    BY <2>3, <2>4 DEF Next, Step
<1>3. TruthInv => StatusTellsTruth
  BY DEF TruthInv, Telling, StatusTellsTruth
<1> QED
  BY <1>1, <1>2, <1>3, PTL DEF Spec

==============================================================================
