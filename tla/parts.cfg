\* Clocks, keyring and windows of the GUI, one of them at a time.
SPECIFICATION PartsSpec
CONSTANTS
  p1 = p1  p2 = p2  home = home  t1 = t1  t2 = t2  k1 = k1  k2 = k2  shared = shared
  e1 = e1  e2 = e2  s1 = s1  n1 = n1  n2 = n2  help = help
  q1 = q1  q2 = q2  fallback = fallback
  None = None
  Paths = {p1, p2}
  Configs = {home}
  ConfigAt <- OnePath
  Interval = 1
  Threshold = 1
  Delay = 1
  Horizon = 4
  MaxBytes = 1
  Tunnels = {t1, t2}
  Timeouts = {2}
  LastMoment = 5
  MaxAsleep = 3
  Profiles = {"c1", "c2", "c3"}
  MaxPerConfig = 3
  MaxGlobal = 5
  AuthWindow = 2
  LastTick = 5
  ConfigPaths = {k1, k2}
  DisplayNames = {shared}
  NameOf <- SameName
  Labels = {"Password"}
  Jobs = {1, 2}
  MaxSaves = 1
  NoSecret = NoSecret
  Width = 3
  Reserved <- SomeReserved
  Texts <- SomeTexts
  MaxCount = 2
  MaxBypass = 2
  Checks = {e1, e2}
  NoText = NoText
  Refused = Refused
  Sessions = {s1}
  ConfigOf <- OneConfig
  MaxWaiting = 2
  MaxTries = 2
  MaxRestarts = 1
  NoEntry = NoEntry
  Tasks = {1, 2}
  Names = {n1, n2}
  HelpKey = help
  MaxIds = 2
  MaxKept = 1
  LogPaths = {q1, q2}
  ProfileOf <- OneProfile
  Fallback = fallback
  MaxLines = 3
  MaxLog = 2
  MaxTab = 2
  Tenth = 1
SYMMETRY PartSymmetry
INVARIANTS PartsTypeOK IdleOnlyConnected GenerationsDrained WarnedWhenLate
  ConfigBounded AllBounded OwnSecretsOnly NewestKept
  DeletedStaysDeleted MirrorFollows IdentityKnown NoStacking ButtonsWork ViewAgrees
PROPERTIES CooldownKept OnlyStalledStopped NeverWarnedEarly NeverLossy
CHECK_DEADLOCK FALSE
