SPECIFICATION FairSocketSpec
CONSTANTS
  Sockets = {s1, s2, s3, s4}
  Timers = {x1, x2, x3}
  MaxDrops = 3
  MaxVisits = 3
CHECK_DEADLOCK FALSE
INVARIANTS NeverStranded OneSocket
PROPERTY Reconnects
