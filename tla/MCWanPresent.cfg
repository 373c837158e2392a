\* iw fails on an interface that is there.
SPECIFICATION Spec
CONSTANTS
  Requests = {r1}
  Free = free
  Links = {ap1}
  Addrs = {ip1}
  Unset = unset
  TTL = 1
  ExecTimeout = 2
  MaxClock = 2
INVARIANT FaultMeansPresent
