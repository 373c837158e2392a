\* Two handlers; the times are the code's, in seconds.
SPECIFICATION FairSpec
CONSTANTS
  Requests = {r1, r2}
  Sections = 3
  TTL = 1
  ExecTimeout = 2
  Grace = 5
INVARIANTS TypeOK AnsweredWithin
PROPERTY ShutdownEnds
