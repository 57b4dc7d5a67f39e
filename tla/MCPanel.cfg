CONSTANTS
  t1 = t1
  Tunnels = {t1}
  None = None
  MaxAttempts = 3
  Requests <- AllRequests
  Limited = {t1}
  SaveFaults = TRUE
  CoreFaults = TRUE
  Stubborn = TRUE
  Crashes = TRUE
  Packages <- MCPackages
  Index <- MCIndex
  Shipped <- MCFirst
  RecheckAfter = 1
  RollbackAfter = 2
  FallbackAfter = 3
  MaxFails = 4
  MaxRestarts = 1
  People = {"u", "v"}
  Handles = {"l"}
  Tariffs <- MCPlans
  Basic = "month"
  Bills = {"o"}
  Tickets = {"k"}
  Gifted = FALSE
  Askings <- SubScenes
  MaxWrong = 1
  MaxOpen = 1
  MaxPhones = 3
  MaxSecrets = 3
  MaxDays = 1
  MaxEnd = 4
  MaxUnsaved = 1
  AccessScenes <- MCAccessScenes
  Clients = {1, 2, 3}
  MaxKilled = 1
  Relays = {"h1", "h2"}
  Lines = {1, 2}
  MaxSwitches = 3
  Comers = {1, 2, 3}
  Places = 2
  Fetches = {1, 2}
  MaxDeaths = 1
  Hosters <- MCAccounts
  Fronts <- MCSites
  UploadTries = 3
  TlsTries = 2
  MaxPolls = 2
  MaxSteps = 2
  MaxSlips = 2
  Layouts <- MCConfigs
  Named = {"c", "own"}
  Wires = {"vyandex", "cupsonline", "avito"}
  Devices <- MCDevices
  Holder = "own"
  Roomy = {"cupsonline", "avito"}
  MaxLooks = 2
  MaxWritings = 3
  MaxLeft = 1
  Chans = {"a", "b"}
  Roots = {"password"}
  Orders <- InstallScenes
  MaxOrders = 3
  MaxLogins = 2
  MaxBreaks = 1
  Nothing = None
  Flows = {1, 2}
  Usages <- MuxScenes
  PerFlow = 1
  AllFlows = 1
SPECIFICATION PanelSpec
CHECK_DEADLOCK FALSE
INVARIANTS  StopSticks RunsOnlyIfEnabled StatusTruthful Durable
PROPERTIES  Revival Ending
