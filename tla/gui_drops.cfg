\* Two tunnels of one config that drop, pause and retry.
SPECIFICATION Spec
CONSTANTS
  Sessions = {a1, a2}
  Configs = {home}
  ConfigOf <- SharedOut
  Slots = {f1, f2}
  MaxQueue = 2
  MaxAttempts = 2
  Events = {"drop", "pause", "reconnecting", "authfail", "dismiss", "removefail"}
  AutoReconnect = FALSE
  BlockDuringPause = FALSE
  Serial = TRUE
  None = None
SYMMETRY SlotSymmetry
INVARIANTS NoLockout
PROPERTIES NeverReleasedUnasked
CHECK_DEADLOCK FALSE
