\* The user changes the connection-timeout while a session connects.
SPECIFICATION WatchSpec
CONSTANTS
  p1 = p1
  Tunnels = {p1}
  Timeouts = {1, 3}
  LastMoment = 6
  MaxAsleep = 3
PROPERTIES NeverWarnedEarly
CHECK_DEADLOCK FALSE
