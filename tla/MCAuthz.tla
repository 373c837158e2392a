------------------------------- MODULE MCAuthz -------------------------------
(* Model values of Authz for TLC. *)
EXTENDS Authz

CONSTANTS p1, p2, u1

Input(route, cred) ==
  [route |-> route, methodOk |-> TRUE, bodyOk |-> TRUE, cred |-> cred]

Cred(u, p) == [user |-> u, pass |-> p]

\* One user with a right and a wrong password; an operation, a dashboard, a
\* health check, nobody's operation, and what the handlers refuse.
SampleInputs ==
  {Input("wan", Cred(u1, p)) : p \in {p1, p2}}
    \cup {Input("stats", Cred(u1, p1)), Input("healthz", Cred(NoUser, p1)),
          Input("add", Cred(NoUser, p1)), Input("add", Cred(u1, p1)),
          [Input("add", Cred(u1, p1)) EXCEPT !.bodyOk = FALSE],
          [Input("add", Cred(u1, p1)) EXCEPT !.methodOk = FALSE]}

==============================================================================
