\* Two handlers, one address; time for three refreshes.
SPECIFICATION Spec
CONSTANTS
  Requests = {r1, r2}
  Free = free
  Addrs = {ip1}
  Unset = unset
  TTL = 1
  ExecTimeout = 2
  MaxClock = 3
SYMMETRY Symmetry
INVARIANT TypeOK
PROPERTIES KeepsDiscipline AddrErrorKeepsAddrs
