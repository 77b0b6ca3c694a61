\* The promise of service.rs, with nothing going wrong but the client leaving.
SPECIFICATION FairSpec
CONSTANTS
  c1 = c1
  gui1 = gui1
  None = None
  Calls = {c1}
  Clients = {gui1}
  Cidrs = {}
  BadCidrs = {}
  MaxBypass = 1
  Events = {"vanish"}
  Serial = TRUE
  OneGui = TRUE
PROPERTIES VanishedClientFreed
CHECK_DEADLOCK FALSE
