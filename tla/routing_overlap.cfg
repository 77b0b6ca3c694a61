\* Two calls or clean-ups that overlap at every await, everything that can
\* fail.
SPECIFICATION Spec
CONSTANTS
  wlan = wlan  eth = eth  a = a  b = b
  t1 = t1  t2 = t2  t3 = t3
  None = None
  Tasks = {t1, t2}
  Cidrs <- MCCidrs
  MaxBypass = 2
  Ifaces <- MCIfaces
  Boot <- MCBoot
  Events = {"spawn","write","rule","populate","restore","unplug","vanish","sigterm"}
  Serial = FALSE
SYMMETRY CidrTaskSymmetry
INVARIANTS TypeOK OnlyBootOrLoose
CHECK_DEADLOCK FALSE
