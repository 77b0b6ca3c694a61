\* Every interleaving of three calls of two clients, with every fault.
SPECIFICATION Spec
CONSTANTS
  c1 = c1  c2 = c2  c3 = c3
  gui1 = gui1  gui2 = gui2
  lan = lan  loop = loop
  None = None
  Calls = {c1, c2, c3}
  Clients = {gui1, gui2}
  Cidrs = {lan, loop}
  BadCidrs = {loop}
  MaxBypass = 1
  Events = {"add", "delete", "subscribe", "late", "vanish", "sigterm", "crash"}
  Serial = FALSE
  OneGui = FALSE
SYMMETRY CallClientSymmetry
INVARIANTS NoOrphanTable TrustBoundary
CHECK_DEADLOCK FALSE
