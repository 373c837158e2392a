-------------------------------- MODULE Authz --------------------------------
(***************************************************************************)
(* internal/authz and the privileged handlers of internal/api: requests    *)
(* pass the Basic Auth middleware, which asks the pispot-authd helper for  *)
(* the role of their credentials or takes it from a cache, and then a      *)
(* handler, which for an operation checks the role and asks the helper to  *)
(* carry the operation out. The helper is external; it answers, refuses,   *)
(* dies before or after it has acted, or takes its time.                   *)
(***************************************************************************)
EXTENDS Integers

CONSTANTS Requests,  \* HTTP requests in flight
          Users,
          Passwords,
          NoUser,    \* no Authorization header, or an empty user name
          Inputs,    \* the requests that clients send
          TTL,       \* cacheTTL, in ticks
          MaxClock   \* bound on the clock, for model checking

Roles == {"readonly", "admin"}

Creds == [user : Users, pass : Passwords]

Ops == {"wan", "list", "add", "remove", "reload"}

\* What a handler tells apart: the operation that path and method name (or one
\* of the two open routes), a method the path does not take, a body or path
\* that does not name a network.
AllInputs == [route : Ops \cup {"healthz", "stats"}, methodOk : BOOLEAN,
              bodyOk : BOOLEAN,
              cred : [user : Users \cup {NoUser}, pass : Passwords]]

ASSUME AuthzAssumption == /\ NoUser \notin Users
                          /\ Inputs \subseteq AllInputs
                          /\ TTL \in Nat
                          /\ MaxClock \in Nat

VARIABLES clock,
          socket,   \* whether AUTH_SOCKET is set
          items,    \* the cache: cacheKey -> role and expiry
          pc,       \* where each request is
          input,    \* what the client sent
          role,     \* the role in the request's context
          answer,   \* the helper's reply, until it is decoded
          status,   \* the HTTP status
          applied,  \* history: the helper has carried the operation out
          admitted, \* history: when the request passed the middleware
          heard     \* history: when the middleware last decoded, from the helper, that
                    \* a credential has a role

vars == <<clock, socket, items, pc, input, role, answer, status, applied,
          admitted, heard>>

Never == -1

NoEntry == [role |-> "", expires |-> Never]

NoInput == [route |-> "none"]

TypeOK ==
  /\ clock \in Nat
  /\ socket \in BOOLEAN
  /\ items \in [Creds -> [role : Roles, expires : Nat] \cup {NoEntry}]
  /\ pc \in [Requests -> {"idle", "arrived", "miss", "asked", "verdict",
                          "handler", "op", "result", "done"}]
  /\ input \in [Requests -> Inputs \cup {NoInput}]
  /\ role \in [Requests -> Roles \cup {""}]
  /\ answer \in [Requests -> Roles \cup {"", "denied", "ok", "refused"}]
  /\ status \in [Requests -> {0, 200, 400, 401, 403, 405, 500, 503}]
  /\ applied \in [Requests -> BOOLEAN]
  /\ admitted \in [Requests -> Nat]
  /\ heard \in [Creds -> [Roles -> Nat \cup {Never}]]

Init == /\ clock = 0
        /\ socket \in BOOLEAN
        /\ items = [c \in Creds |-> NoEntry]
        /\ pc = [r \in Requests |-> "idle"]
        /\ input = [r \in Requests |-> NoInput]
        /\ role = [r \in Requests |-> ""]
        /\ answer = [r \in Requests |-> ""]
        /\ status = [r \in Requests |-> 0]
        /\ applied = [r \in Requests |-> FALSE]
        /\ admitted = [r \in Requests |-> 0]
        /\ heard = [c \in Creds |-> [o \in Roles |-> Never]]

-----------------------------------------------------------------------------

Goto(r, l) == pc' = [pc EXCEPT ![r] = l]

Arrive(r) == /\ pc[r] = "idle"
             /\ \E i \in Inputs : input' = [input EXCEPT ![r] = i]
             /\ Goto(r, "arrived")
             /\ UNCHANGED <<clock, socket, items, role, answer, status,
                            applied, admitted, heard>>

Reply(r, code) == /\ Goto(r, "done")
                  /\ status' = [status EXCEPT ![r] = code]

\* The middleware calls next with the role it has found.
Admit(r, ro) == /\ Goto(r, "handler")
                /\ role' = [role EXCEPT ![r] = ro]
                /\ admitted' = [admitted EXCEPT ![r] = clock]

\* Without a socket there is no middleware, and /healthz is open.
Bypass(r) == /\ pc[r] = "arrived"
             /\ ~socket \/ input[r].route = "healthz"
             /\ Admit(r, "")
             /\ UNCHANGED <<clock, socket, items, input, answer, status,
                            applied, heard>>

Guarded(r) == socket /\ input[r].route # "healthz"

NoCredentials(r) == /\ pc[r] = "arrived"
                    /\ Guarded(r)
                    /\ input[r].cred.user = NoUser
                    /\ Reply(r, 401)
                    /\ UNCHANGED <<clock, socket, items, input, role, answer,
                                   applied, admitted, heard>>

\* Mutant: the password is left out of the key.
userKey(c) == CHOOSE d \in Creds : d.user = c.user

\* The user name with the hash of the password, which tells passwords apart.
cacheKey(c) == c

\* Mutant: entries do not expire.
NotEmpty(e) == e # NoEntry

\* An entry still counts at the very instant it expires.
Live(e) == e # NoEntry /\ clock <= e.expires

\* cache.get, under the cache's mutex.
CacheGet(r) ==
  /\ pc[r] = "arrived"
  /\ Guarded(r)
  /\ input[r].cred.user # NoUser
  /\ LET e == items[cacheKey(input[r].cred)]
     IN \/ Live(e) /\ Admit(r, e.role)
        \/ ~Live(e) /\ Goto(r, "miss") /\ UNCHANGED <<role, admitted>>
  /\ UNCHANGED <<clock, socket, items, input, answer, status, applied, heard>>

\* callHelper connects and sends the credentials, with no lock held.
Dial(r) == /\ pc[r] = "miss"
           /\ Goto(r, "asked")
           /\ UNCHANGED <<clock, socket, items, input, role, answer, status,
                          applied, admitted, heard>>

\* External: the helper looks the credentials up. Passwords and groups change on
\* the host, so it may answer differently from one time to the next.
HelperAuth(r) == /\ pc[r] = "asked"
                 /\ \E a \in Roles \cup {"denied"} :
                      answer' = [answer EXCEPT ![r] = a]
                 /\ Goto(r, "verdict")
                 /\ UNCHANGED <<clock, socket, items, input, role, status,
                                applied, admitted, heard>>

\* The dial, the send or the receive fails, or the client hangs up on the dial.
AuthFails(r) == /\ pc[r] \in {"miss", "asked", "verdict"}
                /\ Reply(r, 503)
                /\ answer' = [answer EXCEPT ![r] = ""]
                /\ UNCHANGED <<clock, socket, items, input, role, applied,
                               admitted, heard>>

\* callHelper returns. A role is cached from now on, whenever it was given.
CacheSet(c, ro) ==
  items' = [items EXCEPT ![cacheKey(c)] = [role |-> ro, expires |-> clock + TTL]]

Verdict(r) ==
  /\ pc[r] = "verdict"
  /\ LET c == input[r].cred
         a == answer[r]
     IN \/ /\ a = "denied"
           /\ Reply(r, 401)
           /\ UNCHANGED <<items, role, admitted, heard>>
        \/ /\ a # "denied"
           /\ CacheSet(c, a)
           /\ Admit(r, a)
           /\ heard' = [heard EXCEPT ![c][a] = clock]
           /\ UNCHANGED status
  /\ answer' = [answer EXCEPT ![r] = ""]
  /\ UNCHANGED <<clock, socket, input, applied>>

-----------------------------------------------------------------------------

\* The checks of the operations' handlers, in their order; 0 lets a request pass.
Refusal(r) == CASE ~input[r].methodOk    -> 405
                [] role[r] # "admin"     -> 403
                [] ~socket               -> 503
                [] input[r].route \in {"add", "remove"} /\ ~input[r].bodyOk -> 400
                [] OTHER                 -> 0

\* healthz and stats answer everybody that the middleware let through.
Open(r) == /\ pc[r] = "handler"
           /\ input[r].route \notin Ops
           /\ Reply(r, 200)
           /\ UNCHANGED <<clock, socket, items, input, role, answer, applied,
                          admitted, heard>>

\* Mutant: a request that is refused gets no answer.
GateSilent(r) == /\ pc[r] = "handler"
                 /\ input[r].route \in Ops
                 /\ Refusal(r) = 0
                 /\ Goto(r, "op")
                 /\ UNCHANGED <<clock, socket, items, input, role, answer,
                                status, applied, admitted, heard>>

Gate(r) == /\ pc[r] = "handler"
           /\ input[r].route \in Ops
           /\ IF Refusal(r) = 0
                THEN Goto(r, "op") /\ UNCHANGED status
                ELSE Reply(r, Refusal(r))
           /\ UNCHANGED <<clock, socket, items, input, role, answer, applied,
                          admitted, heard>>

\* External: the helper carries the operation out, or declines.
HelperOp(r) == /\ pc[r] = "op"
               /\ \E ok \in BOOLEAN :
                    /\ applied' = [applied EXCEPT ![r] = ok]
                    /\ answer' = [answer EXCEPT ![r] =
                                    IF ok THEN "ok" ELSE "refused"]
               /\ Goto(r, "result")
               /\ UNCHANGED <<clock, socket, items, input, role, status,
                              admitted, heard>>

\* Mutant: a code that no handler uses.
BadGateway(r, refused) == 502

\* Mutant: WanOp does not tell a broken connection from a refusal.
FailureUntold(r, refused) == CASE input[r].route \in {"add", "remove"}  -> 400
                               [] input[r].route \in {"list", "reload"} -> 503
                               [] OTHER -> 500

\* The handlers of add and remove answer every error with 400, those of list
\* and reload with 503; WanOp tells a refusal from a broken connection.
Failure(r, refused) == CASE input[r].route \in {"add", "remove"}  -> 400
                         [] input[r].route \in {"list", "reload"} -> 503
                         [] OTHER -> IF refused THEN 500 ELSE 503

\* The connection breaks, before or after the helper has acted.
OpFails(r) == /\ pc[r] \in {"op", "result"}
              /\ Reply(r, Failure(r, FALSE))
              /\ answer' = [answer EXCEPT ![r] = ""]
              /\ UNCHANGED <<clock, socket, items, input, role, applied,
                             admitted, heard>>

Result(r) == /\ pc[r] = "result"
             /\ Reply(r, IF answer[r] = "ok" THEN 200 ELSE Failure(r, TRUE))
             /\ answer' = [answer EXCEPT ![r] = ""]
             /\ UNCHANGED <<clock, socket, items, input, role, applied,
                            admitted, heard>>

\* net/http is done with the request.
Leave(r) == /\ pc[r] = "done"
            /\ Goto(r, "idle")
            /\ input' = [input EXCEPT ![r] = NoInput]
            /\ role' = [role EXCEPT ![r] = ""]
            /\ status' = [status EXCEPT ![r] = 0]
            /\ applied' = [applied EXCEPT ![r] = FALSE]
            /\ admitted' = [admitted EXCEPT ![r] = 0]
            /\ UNCHANGED <<clock, socket, items, answer, heard>>

Tick == /\ clock < MaxClock
        /\ clock' = clock + 1
        /\ UNCHANGED <<socket, items, pc, input, role, answer, status,
                       applied, admitted, heard>>

Middleware(r) == Bypass(r) \/ NoCredentials(r) \/ CacheGet(r)

Conversation(r) == \/ Dial(r) \/ HelperAuth(r) \/ AuthFails(r) \/ Verdict(r)
                   \/ HelperOp(r) \/ OpFails(r) \/ Result(r)

Handler(r) == Open(r) \/ Gate(r)

Next == \/ \E r \in Requests : \/ Arrive(r) \/ Middleware(r) \/ Handler(r)
                               \/ Conversation(r) \/ Leave(r)
        \/ Tick

Spec == Init /\ [][Next]_vars

\* Goroutines run, and the helper, once connected, answers or closes the
\* connection: nothing else ends a read on it, for callHelper and callSocket
\* set no deadline.
Fairness == \A r \in Requests : /\ WF_vars(Middleware(r))
                                /\ WF_vars(Handler(r))
                                /\ WF_vars(Conversation(r))
                                /\ WF_vars(Leave(r))

FairSpec == Spec /\ Fairness

-----------------------------------------------------------------------------

\* The middleware decoded the helper's word that these very credentials have role
\* ro, at most TTL before it admitted the request. The helper may have given it any
\* time earlier: callHelper waits for the reply without a deadline.
Vouched(r, ro) ==
  \E c \in Creds : /\ c = input[r].cred
                   /\ heard[c][ro] # Never
                   /\ admitted[r] <= heard[c][ro] + TTL

\* middleware.go:15: with a socket, a request is served, /healthz apart, only
\* with a role that the helper gave these credentials, received no more than TTL
\* before, however replies, cache writes and account changes interleave.
ServedVouched == \A r \in Requests :
                   pc[r] \in {"handler", "op", "result"} /\ Guarded(r)
                     => role[r] \in Roles /\ Vouched(r, role[r])

\* client.go:74: the helper is asked for an operation only on behalf of
\* credentials that it called an admin's, and never without a socket.
OpsByAdmins == \A r \in Requests :
                 pc[r] \in {"op", "result"} => socket /\ Vouched(r, "admin")

\* What the client is told of an operation: 200 means done; a refusal by the
\* middleware, the checks or (for WanOp) the helper means not done. The other
\* codes tell nothing: a connection may break after the helper has acted.
StatusTellsTruth ==
  \A r \in Requests :
    pc[r] = "done" /\ input[r].route \in Ops =>
      /\ status[r] = 200 => applied[r]
      /\ status[r] \in {401, 403, 405, 500} => ~applied[r]

\* Liveness: a request gets its answer if the helper always ends a conversation.
EveryRequestAnswered ==
  \A r \in Requests : pc[r] = "arrived" ~> pc[r] = "done"

==============================================================================
