\* Split tunnelling between settings, helper and tray.
SPECIFICATION BypassSpec
CONSTANTS
  c1 = c1  c2 = c2  l1 = l1  l2 = l2  b1 = b1  b2 = b2
  Cidrs = {c1, c2}
  Lists = {{}, {c1}, {c2}}
  Links = {l1, l2}
  Pushes = {b1, b2}
  MaxEdits = 1
  MaxTampers = 1
  NoTable = NoTable
  NoReport = NoReport
  Nobody = Nobody
SYMMETRY BypassSymmetry
INVARIANTS OffMeansUnrouted SavedListInForce
PROPERTIES ReportsHonestly
CHECK_DEADLOCK FALSE
