\* Two handlers; TTL and timeout in the proportion of the code.
SPECIFICATION Spec
CONSTANTS
  Requests = {r1, r2}
  Free = free
  Links = {ap1, ap2}
  Addrs = {ip1}
  Unset = unset
  TTL = 1
  ExecTimeout = 2
  MaxClock = 3
SYMMETRY Symmetry
INVARIANTS TypeOK DisconnectedIsBlank HeldBriefly
PROPERTY KeepsDiscipline
