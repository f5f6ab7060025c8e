SPECIFICATION A2ASpec
CONSTANTS
  Absent = Absent
  DictKeys = {"k"}
  Slashed <- MCSlashed
  WireCards <- MCCards
  WireConfigs <- MCConfigs
  WireRequests <- MCRequests
  WireAnswers <- MCAnswers
  WireTenants = {"", "a/b"}
  MaxEvents = 2
  Replicas = {r1, r2}
  Cancellers = {c1}
  Tails = {t1}
  MaxVersion = 3
  MaxAttempts = 2
  PluginCount = 2
  InterceptorCount = 2
  StreamEvents = 1
  ListIds = {1, 2, 3}
  ListOwners = {"o", "q"}
  ListCaller = "o"
  ListTasks <- MCTasks
  ListFilters <- MCFilters
  NoStamp = NoStamp
  Unset = Unset
  MicroSecond = 2
  ListSizes = {1, 2}
  MaxChanges = 2
  PushOwners = {o1, o2}
  PushTasks = {"t", "v"}
  PushIds = {"c"}
  NoId = "noid"
  PushUrls = {"u", "w"}
  PushSenders = {s1, s2}
  MaxPushEvents = 2
  MaxPushChanges = 2
  LegacyCalls = {1, 2}
  NoCaller = 0
  LegacyKinds <- MCLegacyKinds
  LegacyEvents <- MCLegacyEvents
INVARIANT ErrorNamesCause
CHECK_DEADLOCK FALSE
