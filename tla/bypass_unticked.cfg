\* A list unticked while the session was down.
SPECIFICATION BypassSpec
CONSTANTS
  c1 = c1  c2 = c2  l1 = l1  l2 = l2  b1 = b1  b2 = b2
  Cidrs = {c1}
  Lists = {{}, {c1}}
  Links = {l1}
  Pushes = {b1}
  MaxEdits = 1
  MaxTampers = 0
  NoTable = NoTable
  NoReport = NoReport
  Nobody = Nobody
INVARIANTS ReconnectCoversSave
CHECK_DEADLOCK FALSE
