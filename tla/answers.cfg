\* Two configs and the user's own doings, and the answers to requests for input.
SPECIFICATION AnswersSpec
CONSTANTS
  a1 = a1  b1 = b1  home = home  work = work  t1 = t1  t2 = t2
  f1 = f1  f2 = f2
  None = None
  Sessions = {a1, b1}
  Configs = {home, work}
  ConfigOf <- TwoConfigs
  Slots = {f1, f2}
  MaxQueue = 1
  MaxAttempts = 2
  Events = {"tunnel", "pause", "reconnecting", "startup", "toggle", "connfail"}
  AutoReconnect = FALSE
  BlockDuringPause = FALSE
  Serial = TRUE
  Tunnels = {t1, t2}
  Ours = {t2}
  Inputs = {"user", "pass", "otp"}
  Rounds <- TwoRounds
  Category <- Categories
  MaxRetries = 2
  Workers = {1, 2}
  Nobody = Nobody
INVARIANTS CredentialTypeOK EnabledMeansProtected FlaggedMeansTable BoundToTheLiving
PROPERTIES DisconnectUnbinds WaitingEnds
CHECK_DEADLOCK FALSE
