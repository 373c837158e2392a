\* Two polls and two operations out at once.
SPECIFICATION Spec
CONSTANTS
  Polls = {p1, p2}
  Clicks = {o1, o2}
SYMMETRY Symmetry
INVARIANTS TypeOK OneWayOnly PendingHasCause
