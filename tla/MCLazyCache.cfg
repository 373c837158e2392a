\* Three handlers poll one collector; the clock allows three refreshes in a row.
SPECIFICATION FairSpec
CONSTANTS
  Requests = {r1, r2, r3}
  Infos = {blank, i1}
  Blank = blank
  Verdicts = {ok}
  Faults = {failed}
  NoErr = ok
  Free = free
  TTL = 1
  MaxClock = 2
INVARIANTS TypeOK Exclusive RefreshInOrder ServedFresh
PROPERTIES Implements Answered
