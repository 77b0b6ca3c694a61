\* The calls of two clients one at a time, as one GUI and its successor send
\* them; watchers, failing nft runs and SIGTERM interleave with them.
SPECIFICATION FairSpec
CONSTANTS
  c1 = c1  c2 = c2  c3 = c3
  gui1 = gui1  gui2 = gui2
  None = None
  Calls = {c1, c2, c3}
  Clients = {gui1, gui2}
  Cidrs = {}
  BadCidrs = {}
  MaxBypass = 1
  Events = {"add", "vanish", "sigterm"}
  Serial = TRUE
  OneGui = FALSE
INVARIANTS NoStrayWatcher
PROPERTIES VanishReleases
CHECK_DEADLOCK FALSE
