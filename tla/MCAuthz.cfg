\* Two requests, right and wrong passwords of one user, and an expiry.
SPECIFICATION FairSpec
CONSTANTS
  Requests = {r1, r2}
  u1 = u1
  p1 = p1
  p2 = p2
  Users = {u1}
  Passwords = {p1, p2}
  NoUser = nobody
  Inputs <- SampleInputs
  TTL = 0
  MaxClock = 1
INVARIANTS TypeOK ServedVouched OpsByAdmins StatusTellsTruth
PROPERTIES EveryRequestAnswered
