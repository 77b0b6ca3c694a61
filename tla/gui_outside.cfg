\* Two tunnels of one config that others start, kill and lose.
SPECIFICATION Spec
CONSTANTS
  Sessions = {a1, a2}
  Configs = {home}
  ConfigOf <- SharedOut
  Slots = {f1, f2}
  MaxQueue = 1
  MaxAttempts = 2
  Events = {"authfail", "killed", "outside", "toggle", "lost", "addfail", "tunnel", "removefail", "overtake", "connfail"}
  AutoReconnect = TRUE
  BlockDuringPause = FALSE
  Serial = TRUE
  None = None
SYMMETRY SlotSymmetry
INVARIANTS TypeOK OffMeansOff
CHECK_DEADLOCK FALSE
