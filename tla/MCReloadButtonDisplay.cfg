\* A click between a refused restart and the fetch that follows it.
SPECIFICATION ButtonSpec
CONSTANTS
  Restarts = {c1, c2}
  StatsPolls = {p1, p2}
PROPERTY NoPollMidDisplay
