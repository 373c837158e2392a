\* A button is clicked twice and the first operation fails.
SPECIFICATION Spec
CONSTANTS
  Polls = {p1, p2}
  Clicks = {o1, o2}
SYMMETRY Symmetry
PROPERTY LockedInFlight
