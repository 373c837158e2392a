\* Three clicks and two polls overlap; two tasks and three networks, so that the
\* last network is one click away from the page's view of it.
SPECIFICATION PageSpec
CONSTANTS
  Restarts = {c1, c2, c3}
  StatsPolls = {p1, p2}
  Ssids = {s1, s2, s3}
  Tasks = {t1, t2}
  Loading = loading
  Dash = dash
INVARIANTS ButtonTypeOK OfferedOnlyIfActive NetworksTypeOK ShowsHelperList LockedWhileAdding
PROPERTIES LockEnds EmptiedUnawares
