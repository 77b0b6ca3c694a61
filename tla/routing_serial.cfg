\* One call or clean-up at a time, two interfaces, everything that can fail
\* on the way except the tear-down's own commands.
SPECIFICATION Spec
CONSTANTS
  wlan = wlan  eth = eth  a = a  b = b
  t1 = t1  t2 = t2  t3 = t3
  None = None
  Tasks = {t1, t2, t3}
  Cidrs <- MCOneCidr
  MaxBypass = 1
  Ifaces <- MCIfaces
  Boot <- MCBoot
  Events = {"write", "rule", "populate", "unplug", "vanish", "sigterm"}
  Serial = TRUE
SYMMETRY CidrTaskSymmetry
INVARIANTS RecordedIsOriginal OriginalsHeld CleanWhenOff
CHECK_DEADLOCK FALSE
